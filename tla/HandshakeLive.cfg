SPECIFICATION Spec
CONSTANTS
    c1 = c1
    c2 = c2
    Ctx = {c1, c2}
    NONE = NONE
    GC = GC
    Calls <- JoinCalls
    WORD = 8
    MaxCollects = 2
    MaxRounds = 2
PROPERTY RequestServed
PROPERTY JoinReturns
PROPERTY RvSpec
CHECK_DEADLOCK FALSE
