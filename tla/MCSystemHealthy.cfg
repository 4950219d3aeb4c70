CONSTANTS
    MAX_PARTITIONS = 6
    MIF = 100
    Tasks <- TasksAll
    Mutex = {0}
    Endpoint = {0, 2, 3}
    LockCaps <- MutexCaps
    UnlockCaps <- MutexCaps
    SendCaps <- Sends
    RecvCaps <- Receives
    Sleeps = {100}
    Targets = {1, 2, 3, 4}
    Restartable <- AllRestartable
    TICK_MOD = 5001
    MSIE = FALSE
    PERIOD = 100
    TIMEOUT = 200
    GRACE = 1000
    LOOPS = 5
    TESTS = 2
    BUSY = 0
    HSM_FAULTS = 0
    HORIZON = 5000
    DISTURBED = 5000
SPECIFICATION Spec_System
PROPERTY OnlyHungTerminated
CHECK_DEADLOCK FALSE
