SPECIFICATION Spec
CONSTANTS
    o1 = o1
    o2 = o2
    c1 = c1
    c2 = c2
    g1 = g1
    Ctx = {c1, c2}
    Obj = {o1, o2}
    Glob = {g1}
    NULL = NULL
    NONE = NONE
    Ops <- LocalOps
    CycleOps <- LocalOps
    KeepsMark = FALSE
    THRESHOLD = 2
    MaxCycles = 1
PROPERTY CycleEnds
CHECK_DEADLOCK FALSE
