CONSTANTS
    MAX_PARTITIONS = 6
    MIF = 3
    Tasks <- RegisteredTasks
SPECIFICATION Spec
INVARIANTS TypeOK BoundedBypass WaitBounded SearchIsTheLoop
PROPERTY ProgressStep
