SPECIFICATION Spec
CONSTANTS
    c1 = c1
    c2 = c2
    c3 = c3
    Ctx = {c1, c2, c3}
    NONE = NONE
    GC = GC
    Calls <- MostCalls
    WORD = 8
    MaxCollects = 2
    MaxRounds = 2
INVARIANT TypeOK
INVARIANT CountExact
INVARIANT NoLockCycle
INVARIANT ScansComplete
INVARIANT NoLostWakeup
PROPERTY SettledBeforeNext
PROPERTY RvSafety
SYMMETRY Symmetry
CHECK_DEADLOCK FALSE
