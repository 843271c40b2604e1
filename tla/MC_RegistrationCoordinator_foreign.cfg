\* One coordinator without a single fault, and one record from mbnewusr.
CONSTANTS
    Regs = {r1}
    Names = {n1}
    Nobody = Nobody
    Other = Other
    MaxFaults = 0
    MaxStops = 0
    MaxOthers = 1
SPECIFICATION Spec
PROPERTY NoForeignLoss
CHECK_DEADLOCK FALSE
