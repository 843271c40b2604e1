SPECIFICATION StoreSpec
CONSTANTS
    Accounts = {u1, u2}
    Existing = {}
    Sessions = {s1, s2}
    Logins = {ada, bob}
    Passwords = {p1, p2}
    None = None
    MaxPending = 1
    Threshold = 2
    CountLimit = 3
    MaxVersion = 2
    MaxFaults = 2
SYMMETRY Symmetric
INVARIANTS
    Coherent
    LookupUnambiguous
    SessionsHaveMembers
PROPERTIES
    NoLateActivation
    LifecycleSpec
