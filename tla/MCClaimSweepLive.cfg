CONSTANTS
    PullRequests = {p1}
    LastInstant = 6
    DefaultLease = 1
    AllSettings <- MCTrusting
    Leases = {2, 7}
    GhTries = 2
    Latency = 1
    Unforeseen = TRUE
    MaxHead = 1
    MaxId = 2
    MaxClock = 2
SPECIFICATION FairClaimSweepSpec
PROPERTIES StaleGreenIsRevoked
CHECK_DEADLOCK FALSE
