CONSTANTS
    Hart = {0, 1, 2}
    UserHarts = {}
    NestedFaults = TRUE
    USIZE = 4
    DepthBound = 3
SPECIFICATION FairSpec
INVARIANTS TypeOK_Spinlock MutualExclusion DepthOwned NotLeaked
PROPERTY SpinEnds
