CONSTANTS
    Addresses = {a1, a2, a3}
    TableSize = 2
    Attempts = 2
    Window = 2
    MaxTime = 4
SPECIFICATION LimiterSpec
SYMMETRY Symmetry
INVARIANTS
    RateBound
    RetryIsExact
CHECK_DEADLOCK FALSE
