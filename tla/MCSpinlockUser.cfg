CONSTANTS
    Hart = {0, 1}
    UserHarts = {0}
    NestedFaults = FALSE
    USIZE = 4
    DepthBound = 3
SPECIFICATION Spec_Spinlock
INVARIANT MutualExclusion
