CONSTANTS
    full1 = full1
    full2 = full2
    half = half
    CPUs = {0, 1}
    Tasks = {full1, full2, half}
    Weight <- MCWeight
    SliceNs = 1
    SliceLagNs = 1
    StarvationNs = 2
    Freqs = {0, 2}
    Bursts = {1}
    Floor = 3
    RaceBound = 2
    MaxJoins = 1
SPECIFICATION FairSpec
INVARIANT DeadlineBounded
PROPERTIES
    OvertakingBounded
    NoStarvation
