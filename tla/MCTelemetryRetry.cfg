CONSTANTS
    t1 = t1
    Turns = {t1}
    Observations = {o1}
    Records <- Once
    Ended <- First
    MaxSequence = 6
SPECIFICATION TelemetrySpec
INVARIANTS PendingPhaseCanRetry
CHECK_DEADLOCK FALSE
