CONSTANTS
    Tables <- MCTables
    Inputs <- MCInputs
    ParseOperand <- Operand
    Build <- Make
    NoExpr <- BadNode
    Absent <- NoNode
    PEEPHOLE = TRUE
    PERL_LOGIC = FALSE
    CORRECT_LOGIC = TRUE
    TRUE_EMPTY_STRINGS = TRUE
    VECTOR_COMPONENTS = TRUE
    SHORT_LOGIC = TRUE
    Names <- MCNames
    Literals <- MCLiterals
    Params <- MCParams
    InitList <- MCSizes
    Sizes <- MCSizes
    Returns <- MCReturns
    FieldTypes <- MCFieldTypes
    Memories <- MCMemories
    JoinsOverlapping = TRUE
    Groups = {}
SPECIFICATION Spec
INVARIANT
    ResultOfOperands
CHECK_DEADLOCK FALSE
