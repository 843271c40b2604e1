SPECIFICATION Spec
CONSTANTS
    None = None
    Accounts = {u1, u2}
    Existing = {}
    Sessions = {s1, s2}
    Logins = {ada, bob}
    Passwords = {p1}
    MaxPending = 1
    Threshold = 1
    CountLimit = 1
    MaxVersion = 0
    MaxFaults = 1
    Slots = {1, 2}
    QueueCapacity = 2
    MaxGeneration = 2
    MaxJobs = 2
    MaxStops = 1
SYMMETRY Symmetric
CHECK_DEADLOCK FALSE
INVARIANTS
    SessionsBound
    AttemptsBound
