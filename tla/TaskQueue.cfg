CONSTANTS
    Values = {v1, v2, v3}
    Capacity = 3
    Uninit = Uninit
SPECIFICATION Spec
INVARIANTS
    SlotsInitialised
    DeferredOnlyWhenFull
PROPERTY ImplementsFifo
