SPECIFICATION FairRunSpec
CONSTANTS
    r1 = r1
    Requests <- MCRequests
    Invocations <- MCInvocations
    RequestOf <- MCRequestOf
    Capacity = 1
    Vacant = Vacant
    Claimed = Claimed
    StopCauses = {"CallerCancellation", "WorkDeadline"}
    Commands = {"typecheck", "test", "run"}
INVARIANTS
    RunTypeOK
    CancelledByCaller
    PositiveHasBoth
    OneSlotPerRequest
PROPERTIES
    EveryRequestReturns
CHECK_DEADLOCK FALSE
