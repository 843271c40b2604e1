SPECIFICATION FairSpec
CONSTANTS
    None = None
    Accounts = {u1}
    Existing = {u1}
    Sessions = {s1}
    Logins = {ada}
    Passwords = {p1}
    MaxPending = 1
    Threshold = 1
    CountLimit = 1
    MaxVersion = 0
    MaxFaults = 0
    Slots = {1}
    QueueCapacity = 2
    MaxGeneration = 1
    MaxJobs = 1
    MaxStops = 0
CHECK_DEADLOCK FALSE
PROPERTIES
    ClosingEnds
