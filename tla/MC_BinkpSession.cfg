SPECIFICATION FairSpec
CONSTANTS
    Files <- MCFiles
    None = None
    Size <- MCSize
    Workloads <- MCWorkloads
    MaxBatch = 20
    Window = 2
    MaxFaults = 2
CHECK_DEADLOCK FALSE
INVARIANTS
    Delivered
    GoodIsComplete
PROPERTY SessionEnds
