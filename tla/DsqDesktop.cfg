CONSTANTS
    free1 = free1
    free2 = free2
    kthread = kthread
    CPUs = {0, 1}
    NrLlcs = 2
    NrNodes = 2
    LlcOf <- MCLlcOf
    NodeOf <- MCNodeOf
    LlcNode <- MCLlcNode
    Tasks <- MCTasks
    Allowed <- MCAllowed
    Kthreads = {kthread}
    ServerMode = FALSE
    HasSelectCpuAnd = FALSE
    RtCpus = {0}
    Deadlines = {1, 2}
SPECIFICATION FairSpec
INVARIANTS
    IndInv
    HomeAwake
PROPERTIES
    HomeProgress
    ImplementsScheduler
