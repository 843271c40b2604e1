SPECIFICATION FairSpec
CONSTANTS
    Files <- MCFiles
    None = None
    Size <- EmptySize
    Workloads <- EmptyWorkload
    MaxBatch = 20
    Window = 2
    MaxFaults = 2
CHECK_DEADLOCK FALSE
INVARIANT GoodIsComplete
