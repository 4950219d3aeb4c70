CONSTANTS
    MAX_PARTITIONS = 4
    MIF = 2
    Tasks <- TasksLive
    Mutex = {}
    Endpoint = {0}
    LockCaps <- None
    UnlockCaps <- None
    SendCaps <- SendA
    RecvCaps <- RecvB
    Sleeps = {0}
    Targets = {2}
    Restartable <- RestartB
    TICK_MOD = 1
    MSIE = FALSE
SPECIFICATION FairSpec
PROPERTY ReadyRuns
CHECK_DEADLOCK FALSE
