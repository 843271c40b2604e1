SPECIFICATION FairSpec
CONSTANTS
    None = None
    Accounts = {u1, u2}
    Existing = {u1}
    Sessions = {s1}
    Logins = {ada, bob}
    Passwords = {p1}
    MaxPending = 1
    Threshold = 1
    CountLimit = 1
    MaxVersion = 0
    MaxFaults = 1
    Slots = {1, 2}
    QueueCapacity = 2
    MaxGeneration = 2
    MaxJobs = 1
    MaxStops = 1
CHECK_DEADLOCK FALSE
PROPERTIES
    RegistrationSettles
    LoginAnswered
INVARIANTS
    SessionsBound
    AttemptsBound
