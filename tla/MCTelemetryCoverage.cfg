CONSTANTS
    t1 = t1
    Turns = {t1}
    Observations = {}
    Records <- Once
    Ended <- First
    MaxSequence = 6
SPECIFICATION TelemetrySpec
INVARIANTS CompleteIsPublished
CHECK_DEADLOCK FALSE
