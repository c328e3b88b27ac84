SPECIFICATION Spec
CONSTANTS
    LeafForms <- MCLeafForms
    OperandForms <- MCOperandForms
    WrapStrings <- MCWrapStrings
    MaxSize = 16
INVARIANTS
    TypeOK
    TypeHonoured
    ArgumentClaims
    SignatureClaims
    NonMalleable
    LocksCanExpire
    SizeSuffices
CHECK_DEADLOCK FALSE
