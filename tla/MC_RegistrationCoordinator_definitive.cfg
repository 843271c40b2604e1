\* One coordinator whose Commit is answered with an error.
CONSTANTS
    Regs = {r1}
    Names = {n1}
    Nobody = Nobody
    Other = Other
    MaxFaults = 2
    MaxStops = 0
    MaxOthers = 0
SPECIFICATION Spec
INVARIANT DefinitiveIsNegative
CHECK_DEADLOCK FALSE
