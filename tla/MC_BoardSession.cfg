SPECIFICATION FairSpec
CONSTANTS
    Procs = {p1, p2}
    Users = {u0, u1}
    Record0 = u0
    Guests = {}
    Nobody = Nobody
    SignalAt <- SettledSteps
    MaxSignals = 2
    MaxKills = 1
CHECK_DEADLOCK FALSE
PROPERTIES NoLostUpdate SessionCloses
