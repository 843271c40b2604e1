SPECIFICATION Spec
CONSTANTS
    None = None
    Accounts = {u1}
    Existing = {u1}
    Sessions = {s1, s2}
    Logins = {ada, bob}
    Passwords = {p1, p2}
    MaxPending = 1
    Threshold = 1
    CountLimit = 1
    MaxVersion = 1
    MaxFaults = 0
    Slots = {1, 2}
    QueueCapacity = 2
    MaxGeneration = 2
    MaxJobs = 2
    MaxStops = 0
SYMMETRY Symmetric
CHECK_DEADLOCK FALSE
PROPERTIES
    SessionEarned
