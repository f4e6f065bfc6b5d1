CONSTANTS
    MaxId = 1
    p = p
    a = a
    v = v
    vx = vx
    vy = vy
    t = t
    u = u
    Param <- MCParam
    Local <- MCLocal
    Temp <- MCTemp
    Member <- MCMember
    Vector = {v}
    VectorSize = 2
    Program <- MCSelfLoops
    Options = {{"local_temps", "global_temps", "call_stores"}}
SPECIFICATION Spec
INVARIANTS
    NothingClobbered
CHECK_DEADLOCK FALSE
