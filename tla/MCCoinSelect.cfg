SPECIFICATION Spec
CONSTANTS
    Problems <- MCProblems
    MaxAssets = 4
    MaxScore = 15
    MaxLen = 5
    MaxValue = 4
    Ratios = {1, 2, 14, 15}
    Extra = {0, 100}
INVARIANTS
    InBounds
    SelectionReaches
    AlwaysFinds
    FindsBest
CHECK_DEADLOCK FALSE
