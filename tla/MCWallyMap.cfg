SPECIFICATION Spec
CONSTANTS
    v1 = v1
    v2 = v2
    None = None
    Maps = {m1, m2}
    Values = {v1, v2}
    MaxItems = 2
    Keys <- MCKeys
    Pairs <- MCPairs
    Verified <- MCVerified
INVARIANTS TypeOK NoDuplicateKeys
PROPERTIES CombineOnlyAppends CombineIsComplete SortIsCanonical AssignVerifiesAll ImplementsKeyValueStore
