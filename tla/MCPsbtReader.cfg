SPECIFICATION ReaderSpec
CONSTANTS
    k1 = k1
    k2 = k2
    t1 = t1
    script = script
    None = None
    MaxMoney = 6
    Keys = {k1, k2}
    FinalSequence = 9
    NotBlocks = {9}
    MinTimestamp = 100
    Records <- MCRecords
CHECK_DEADLOCK FALSE
INVARIANTS RecordsCommute StrictIsSound WrittenIsReadBack
