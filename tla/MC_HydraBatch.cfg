SPECIFICATION FairSpec
CONSTANTS
    Files <- MCFiles
    Size <- MCSize
    Workloads <- MCWorkloads
    Retries = 3
    HdxRetries = 0
    Capacity = 3
CHECK_DEADLOCK FALSE
INVARIANTS Delivered Intact GoodIsComplete
PROPERTY BatchEnds
