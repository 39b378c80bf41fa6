SPECIFICATION Spec
CONSTANTS
    o1 = o1
    o2 = o2
    o3 = o3
    c1 = c1
    c2 = c2
    g1 = g1
    Ctx = {c1, c2}
    Obj = {o1, o2, o3}
    Glob = {g1}
    NULL = NULL
    NONE = NONE
    Ops <- AllOps
    CycleOps <- ReadOps
    KeepsMark = FALSE
    THRESHOLD = 2
    MaxCycles = 2
INVARIANT NoDangling
INVARIANT TrackedOnce
INVARIANT CleanWhenIdle
INVARIANT NullIsFatal
PROPERTY ImplementsHeap
SYMMETRY Symmetry
PROPERTY FreesExactly
CHECK_DEADLOCK FALSE
