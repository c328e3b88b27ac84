SPECIFICATION ExchangeSpec
CONSTANTS
    k1 = k1
    k2 = k2
    k3 = k3
    t1 = t1
    t2 = t2
    dest = dest
    None = None
    MaxMoney = 6
    Keys = {k1, k2, k3}
    FinalSequence = 9
    NotBlocks = {9}
    MinTimestamp = 100
    Handles = {h1, h2}
    Versions = {0, 2}
    Txs <- ScriptTxs
    TxIns <- NoTxParts
    TxOuts <- NoTxParts
    MaxInputs = 1
    MaxOutputs = 2
    TxVersions = {}
    Fallbacks = {}
    Sequences = {}
    Times = {}
    Heights = {}
    UsedSighashes <- AllNone
    Prevouts <- ScriptPrevouts
    WitnessScripts <- MCScripts
SYMMETRY Symmetry
CHECK_DEADLOCK FALSE
INVARIANTS SignaturesVerify FinalWitnessesVerify CopiesCombine CombineIsUnion
