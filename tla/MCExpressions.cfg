CONSTANTS
    Tables <- MCTables
    Inputs <- MCInputs
    ParseOperand <- Operand
    Build <- Make
    NoExpr <- BadNode
    Absent <- NoNode
    PEEPHOLE = TRUE
    PERL_LOGIC = FALSE
    CORRECT_LOGIC = TRUE
    TRUE_EMPTY_STRINGS = TRUE
    VECTOR_COMPONENTS = TRUE
    SHORT_LOGIC = TRUE
    Names <- MCNames
    Literals <- MCLiterals
    Params <- MCParams
    InitList <- MCSizes
    Sizes <- MCSizes
    Returns <- MCReturns
    FieldTypes <- MCFieldTypes
    Memories <- MCMemories
    JoinsOverlapping = FALSE
    Groups = {"levels", "ternaries", "calls", "declared", "places", "values"}
SPECIFICATION Spec
INVARIANTS
    ParseTypeOK
    StacksAgree
    ParsedAsWritten
    NoInternalError
    ValueAsWritten
    ResultOfOperands
PROPERTY
    EveryParseEnds
CHECK_DEADLOCK FALSE
