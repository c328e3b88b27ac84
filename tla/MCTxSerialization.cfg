SPECIFICATION Spec
CONSTANTS
    None = None
    VarintTag = 4
    ExplicitLen = 2
    CtLen = 3
    SatoshiMax = 6
    InputArgs <- MCInputArgs
    OutputArgs <- MCOutputArgs
    Stacks <- MCStacks
    MaxInputs = 2
    MaxOutputs = 1
    MaxDamaged = 21
    Bytes = {0, 4}
CHECK_DEADLOCK FALSE
INVARIANTS TypeOK LengthIsExact BytesAreReadBack ParserStaysInside
