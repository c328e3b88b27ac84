SPECIFICATION SigningSpec
CONSTANTS
    k1 = k1
    k2 = k2
    k3 = k3
    t1 = t1
    t2 = t2
    dest = dest
    None = None
    MaxMoney = 6
    Keys = {k1, k2}
    FinalSequence = 9
    NotBlocks = {9}
    MinTimestamp = 100
    Handles = {h1}
    Versions = {2}
    Txs <- JustIn1
    TxIns <- OneIn2
    TxOuts <- OneOut
    MaxInputs = 2
    MaxOutputs = 2
    TxVersions = {}
    Fallbacks = {}
    Sequences = {}
    Times = {}
    Heights = {}
    UsedSighashes <- Unmoved
    Prevouts <- MixedPrevouts
    WitnessScripts <- TwoKeyScripts
INVARIANTS SignaturesVerify FlagsFollowSignatures
