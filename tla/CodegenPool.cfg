SPECIFICATION Spec
CONSTANTS
    NFun = 5
    ThreadCount = 3
    NOut = 2
    CHUNK_SIZE = 2
    Faults <- AllFaults
INVARIANT TypeOK
INVARIANT NothingLost
INVARIANT NothingTwice
PROPERTY NobodyForgotten
PROPERTY Terminates
CHECK_DEADLOCK FALSE
