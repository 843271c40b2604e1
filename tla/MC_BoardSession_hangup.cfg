SPECIFICATION Spec
CONSTANTS
    Procs = {p1, p2}
    Users = {u0, u1}
    Record0 = u0
    Guests = {}
    Nobody = Nobody
    SignalAt <- TrappedSteps
    MaxSignals = 1
    MaxKills = 0
CHECK_DEADLOCK FALSE
INVARIANT OwnRecordOnly
