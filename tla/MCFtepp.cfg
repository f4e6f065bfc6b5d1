CONSTANTS
    Name = {"A", "B"}
    MathConstant = {"B"}
    Body <- MCBody
    Expr <- MCExpr
    Garbage = {0, 2}
    MathDefs = FALSE
    MaxConditions = 2
    MaxBranches = 3
    MaxFiles = 2
    MaxLexers = 5
SPECIFICATION FairSpec
INVARIANTS
    TypeOK
    FirstTrueBranch
PROPERTIES
    
    ExpansionEnds
CHECK_DEADLOCK FALSE
