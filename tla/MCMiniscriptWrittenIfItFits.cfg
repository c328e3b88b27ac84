SPECIFICATION Spec
CONSTANTS
    LeafForms <- MCLeafForms
    OperandForms <- MCOperandForms
    WrapStrings <- MCWrapStrings
    MaxSize = 16
INVARIANT
    WrittenIfItFits
CHECK_DEADLOCK FALSE
