CONSTANTS
    MaxId = 7
    p = p
    a = a
    v = v
    vx = vx
    vy = vy
    t = t
    u = u
    Param <- MCParam
    Local <- MCLocal
    Temp <- MCTemp
    Member <- MCMember
    Vector = {v}
    VectorSize = 2
    Program <- MCProgram
    Options = {{"local_temps", "global_temps", "call_stores"}}
SPECIFICATION Spec
INVARIANTS
    TypeOK
    StaysNormal
    KeepsEveryId
    OverlapExact
    LivesCoverNeeds
    NothingClobbered
    UnlockedIsParam
PROPERTIES
    MergeEnds
    EveryFunctionFinishes
CHECK_DEADLOCK FALSE
