SPECIFICATION Spec
CONSTANTS
    t1 = t1
    t2 = t2
    p2tr = p2tr
    p2wpkh = p2wpkh
    code = code
    leaf = leaf
    reserved = reserved
    genesis = genesis
    None = None
    MaxMoney = 6
    Genesis = genesis
    TaprootScripts = {p2tr}
    Subjects <- MCSubjects
    Requests <- MCRequests
    Changes <- MCChanges
    Numbers = {1, 2}
INVARIANTS CacheIsTransparent
PROPERTIES ChangesInvalidate
