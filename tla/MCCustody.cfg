CONSTANTS
    i1 = i1
    i2 = i2
    Invocations <- MCInvocations
    Requests <- MCInvocations
    RequestOf <- MCRequestOf
    Capacity = 1
    Vacant = Vacant
    Claimed = Claimed
    StopCauses = {"CallerCancellation", "WorkDeadline"}
SYMMETRY Alike
SPECIFICATION CustodySpec
INVARIANTS CustodyTypeOK UnresolvedAreRetained ClaimsHaveOneOwner PositiveIsReleased FirstStopSurvives
PROPERTIES RefusalIsGenuine
CHECK_DEADLOCK FALSE
