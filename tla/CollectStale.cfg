SPECIFICATION Spec
CONSTANTS
    o1 = o1
    o2 = o2
    c1 = c1
    g1 = g1
    Ctx = {c1}
    Obj = {o1, o2}
    Glob = {g1}
    NULL = NULL
    NONE = NONE
    Ops <- BuildOps
    CycleOps <- BuildOps
    KeepsMark = FALSE
    THRESHOLD = 4
    MaxCycles = 2
INVARIANT NoDangling
CHECK_DEADLOCK FALSE
