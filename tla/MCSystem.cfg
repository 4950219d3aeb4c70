CONSTANTS
    MAX_PARTITIONS = 6
    MIF = 2
    Tasks <- TasksAll
    Mutex = {0}
    Endpoint = {0, 2, 3}
    LockCaps <- MutexCaps
    UnlockCaps <- MutexCaps
    SendCaps <- Sends
    RecvCaps <- Receives
    Sleeps = {2}
    Targets = {1, 2, 3, 4}
    Restartable <- AllRestartable
    TICK_MOD = 49
    MSIE = FALSE
    PERIOD = 2
    TIMEOUT = 4
    GRACE = 20
    LOOPS = 1
    TESTS = 2
    BUSY = 1
    HSM_FAULTS = 1
    HORIZON = 48
    DISTURBED = 28
SPECIFICATION Spec_System
INVARIANTS NoPanic SuiteCompletes SigningInStep RestartIsClean
CHECK_DEADLOCK FALSE
