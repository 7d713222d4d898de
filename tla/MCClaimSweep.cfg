CONSTANTS
    PullRequests = {p1}
    LastInstant = 6
    DefaultLease = 1
    AllSettings <- MCSettings
    Leases = {2, 7}
    GhTries = 1
    Latency = 1
    Unforeseen = TRUE
    MaxHead = 2
    MaxId = 2
    MaxClock = 2
SPECIFICATION ClaimSweepSpec
INVARIANTS SweepTypeOK
PROPERTIES SweepOnlyRevokes SteadyIsNotRevoked GreenIsExclusive
CHECK_DEADLOCK FALSE
