CONSTANTS
    MAX_PARTITIONS = 5
    MIF = 1
    Tasks <- TasksABC
    Mutex = {0}
    Endpoint = {0}
    LockCaps <- MutexAC
    UnlockCaps <- MutexAC
    SendCaps <- SendA
    RecvCaps <- RecvB
    Sleeps = {1}
    Targets = {1, 2, 3}
    Restartable <- RestartC
    TICK_MOD = 2
    MSIE = TRUE
SPECIFICATION Spec
INVARIANTS TypeOK UnwrapSound RunningIsCurrent IdleAvailable NoLostWaiter NoMissedRendezvous CapabilityConfined SuspendedFrame
PROPERTIES TerminatedLeaves WaitersTrackBlocked LiveReadyIsStale
CHECK_DEADLOCK FALSE
