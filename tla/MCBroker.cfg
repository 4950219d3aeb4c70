CONSTANTS
    Events <- SomeEvents
    Client = {c1}
    CHUNK = 7
    CONT = 4
    MAX_EVENTS = 4
SPECIFICATION Spec
INVARIANT RebroadcastsEachEvent
CHECK_DEADLOCK FALSE
