SPECIFICATION Spec
CONSTANTS
    Files <- MCFiles
    None = None
    Size <- MCSize
    Workloads <- ChangedWorkload
    MaxBatch = 20
    Window = 2
    MaxFaults = 2
CHECK_DEADLOCK FALSE
INVARIANT Delivered
