SPECIFICATION Spec
CONSTANTS
    Files <- MCFiles
    Size <- MCSize
    Workloads <- HereWorkload
    Retries = 3
    HdxRetries = 0
    Capacity = 3
CHECK_DEADLOCK FALSE
INVARIANT Delivered
