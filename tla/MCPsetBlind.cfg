SPECIFICATION BlindSpec
CONSTANTS
    None = None
    Handles = {h1, h2}
    Owner <- ThreeOwners
    Blinder <- SixOutputs
CHECK_DEADLOCK FALSE
INVARIANTS ScalarsAccount
PROPERTIES AllEndBlinded
