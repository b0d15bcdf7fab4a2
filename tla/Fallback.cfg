CONSTANTS
    Tasks = {t1, t2, t3, t4}
    LaneCapacity = 1
    RingSlots = 2
    DrainBudget = 3
SPECIFICATION FairSpec
INVARIANTS
    TypeOK
    TasksConserved
    DeferredSlotFree
PROPERTIES
    Drains
