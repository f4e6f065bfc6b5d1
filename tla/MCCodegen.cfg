CONSTANTS
    Variable <- MCVariable
    Label <- MCLabel
    Program <- MCProgram
    Val = {0, 1}
    VoidReturn = TRUE
    Kinds = {"tail"}
SPECIFICATION MCSpec
INVARIANTS
    TypeOK
    BlocksEnd
    SameCalls
    SameOutcome
PROPERTIES
    CatchesUp
CHECK_DEADLOCK FALSE
