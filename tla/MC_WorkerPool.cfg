\* Three workers, a queue that fills up and job ids beyond its capacity.
CONSTANTS
    Workers = {w1, w2, w3}
    Capacity = 3
    MaxJobs = 5
SPECIFICATION FairSpec
INVARIANTS
    Conservation
    TokensBacked
    NoStrandedCompletion
PROPERTIES
    LedgerSpec
    EveryJobLeaves
    ShutdownReturns
