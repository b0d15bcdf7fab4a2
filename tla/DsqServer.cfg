CONSTANTS
    t1 = t1
    t2 = t2
    t3 = t3
    t4 = t4
    MaxTopoCpus = 3
    MaxLlcs = 2
    MaxNodes = 2
    TopoIds = {0, 1, 3}
    CPUs = {0, 1}
    RunHosts <- MCRunHosts
    NrLlcs = 1
    NrNodes = 1
    LlcOf <- MCLlcOf
    NodeOf <- MCLlcOf
    LlcNode <- MCLlcNode
    Tasks <- MCTasks
    Allowed <- MCAllowed
    Kthreads <- MCKthreads
    ServerMode = TRUE
    HasSelectCpuAnd = TRUE
    RtCpus = {0, 1}
    Deadlines = {1}
SYMMETRY MCSym
SPECIFICATION ExportSpec
INVARIANTS
    CpuTierShallow
    SpillBounded
    ExportFaithful
