SPECIFICATION ConstructSpec
CONSTANTS
    k1 = k1
    k2 = k2
    k3 = k3
    t1 = t1
    t2 = t2
    dest = dest
    None = None
    MaxMoney = 6
    Keys = {k1, k2, k3}
    FinalSequence = 9
    NotBlocks = {9}
    MinTimestamp = 100
    Handles = {h1}
    Versions = {0, 2}
    Txs <- TxV1V2
    TxIns <- MCTxIns
    TxOuts <- OneOut
    MaxInputs = 2
    MaxOutputs = 2
    TxVersions = {3}
    Fallbacks = {5}
    Sequences = {2}
    Times = {0, 100, 150}
    Heights = {0, 7, 8}
    UsedSighashes <- NoSighash
    Prevouts <- MCPrevouts
    WitnessScripts <- MCScripts
INVARIANTS TypeOK ValidPsbt LocktimeSatisfiesInputs CloneIsEqual
PROPERTIES SetVersionKeepsTx
