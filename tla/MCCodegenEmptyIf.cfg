CONSTANTS
    Variable <- MCVariable
    Label <- MCLabel
    Program <- MCEmptyIf
    Val = {0, 1}
    VoidReturn = TRUE
    Kinds = {}
SPECIFICATION MCSpec
CHECK_DEADLOCK FALSE
INVARIANT
    SameCalls
