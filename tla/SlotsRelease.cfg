SPECIFICATION Spec
CONSTANTS
    v1 = v1
    v2 = v2
    v3 = v3
    Vals = {v1, v2, v3}
    NONE = NONE
    DebugAssertions = FALSE
    MaxSlots = 4
    MaxDepth = 3
INVARIANT SavedAtCall
