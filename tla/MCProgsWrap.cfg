CONSTANTS
    Uses = {"strings"}
    NoProgram = NoProgram
    Compilations <- MCCompilations
    GlobalLimit = 65536
    NoValue = NoValue
    fnF = fnF
    fnG = fnG
    Function = {fnF, fnG}
    Val = {0, 1}
    NGlobals = 6
    VecSize = 1
    FirstLocal <- MCFirstLocal
    Locals <- MCLocals
    ArgSize <- MCArgSize
    Entry <- MCEntry
    Size <- MCSize
    Unset = {0}
    MaxJumps = 2
    GotoLimit = 3
    MaxDepth = 3
    EntityFields = 2
    FieldVal = {0, 1}
    StateFields <- MCStateFields
    MaxEntities = 3
    NoAddress = NoAddress
    chA = chA
    chB = chB
    chP = chP
    NUL = NUL
    ProgStrings <- MCProgStrings
    AreaSize = 9
    Text <- MCShortText
    MaxAt = 20
SPECIFICATION ProgsSpec
INVARIANTS
    PreviousSurvives
