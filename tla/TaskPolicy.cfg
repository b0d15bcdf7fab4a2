CONSTANTS
    a = a
    b = b
    c = c
    Tasks = {a, b, c}
    KernelWorkers = {}
    Weight <- MCWeight
    ServerMode = FALSE
    SliceUs = 0
    SliceUsMin = 0
    Pressures = {12}
    Bursts = {4}
    Sleeps = {16}
    Waits = {0}
    ExecCap = 8
    Floor = 6
    MaxRt = 0
SPECIFICATION FairSpec
PROPERTIES
    NoCascade
    CreditBounded
