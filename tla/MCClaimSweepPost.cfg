CONSTANTS
    PullRequests = {p1, p2}
    LastInstant = 6
    DefaultLease = 1
    AllSettings <- MCTrusting
    Leases = {2, 7}
    GhTries = 1
    Latency = 1
    Unforeseen = FALSE
    MaxHead = 1
    MaxId = 1
    MaxClock = 0
SPECIFICATION ClaimSweepSpec
INVARIANTS NoneIsAbandoned
CHECK_DEADLOCK FALSE
