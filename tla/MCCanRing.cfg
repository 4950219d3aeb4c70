CONSTANTS
    RING_CAPACITY = 4
    Raw <- RawMixed
SPECIFICATION Spec
INVARIANTS TypeOK NoSlotConflict
PROPERTY IsQueue
