\* Two coordinators, three failing calls, one kill or power loss, one foreign record.
CONSTANTS
    Regs = {r1, r2}
    Names = {n1, n2}
    Nobody = Nobody
    Other = Other
    MaxFaults = 3
    MaxStops = 1
    MaxOthers = 1
SPECIFICATION Spec
INVARIANTS CommittedIsProvisioned MarkerTruthful NoSilentResidue
SYMMETRY Symmetry
CHECK_DEADLOCK FALSE
