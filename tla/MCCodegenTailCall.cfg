CONSTANTS
    Variable <- MCVariable
    Label <- MCLabel
    Program = {}
    Val = {0, 1}
    VoidReturn = TRUE
    Kinds = {"swapped"}
SPECIFICATION MCSpec
CHECK_DEADLOCK FALSE
INVARIANT
    SameOutcome
