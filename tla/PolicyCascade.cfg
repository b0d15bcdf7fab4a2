CONSTANTS
    a = a
    b = b
    c = c
    Tasks = {a, b, c}
    KernelWorkers = {}
    Weight <- MCWeight
    ServerMode = FALSE
    SliceUs = 0
    SliceUsMin = 0
    Pressures = {1}
    Bursts = {8}
    Sleeps = {8}
    Waits = {0}
    ExecCap = 16
    Floor = 10
    MaxRt = 1
SPECIFICATION FairSpec
PROPERTY NoCascade
