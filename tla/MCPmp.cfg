CONSTANTS
    Stacks <- StacksOfMain
    StackBase <- Adjacent
    Idle = "Idle"
SPECIFICATION Spec
INVARIANTS TypeOK OwnStackOpen RegionsExact EarlyStacksBlocked WriteXorExecute
