\* One coordinator whose rollback cannot sync the truncated file.
CONSTANTS
    Regs = {r1}
    Names = {n1}
    Nobody = Nobody
    Other = Other
    MaxFaults = 2
    MaxStops = 0
    MaxOthers = 0
SPECIFICATION Spec
INVARIANT SyncedBeforeRemoval
CHECK_DEADLOCK FALSE
