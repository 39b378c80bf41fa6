SPECIFICATION Spec
CONSTANTS
    c1 = c1
    c2 = c2
    Ctx = {c1, c2}
    NONE = NONE
    GC = GC
    Calls <- LateCalls
    WORD = 8
    MaxCollects = 1
    MaxRounds = 1
INVARIANT HandshakeNeverPanics
CHECK_DEADLOCK FALSE
