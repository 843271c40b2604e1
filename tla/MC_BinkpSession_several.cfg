SPECIFICATION FairSpec
CONSTANTS
    Files <- MCFiles
    None = None
    Size <- MCSize
    Workloads <- SeveralWorkload
    MaxBatch = 20
    Window = 2
    MaxFaults = 1
CHECK_DEADLOCK FALSE
PROPERTY SessionEnds
