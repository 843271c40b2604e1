SPECIFICATION FairRegistrySpec
CONSTANTS
    Pids = {m1, u1, u2}
    Mailers = {m1}
    MAXCLIENT = 2
INVARIANTS CountsAgree OnePager
PROPERTY SilentIsFreed
