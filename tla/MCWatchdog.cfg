CONSTANTS
    Monitored <- MonitoredAC
    HART0 = {1}
    PERIOD = 1
    TIMEOUT = 2
    GRACE = 3
    LAG = 1
    TICK_MOD = 13
SPECIFICATION FairSpec
INVARIANT TypeOK
PROPERTIES JustifiedKill HungIsTerminated
