CONSTANTS
    t1 = t1
    Turns = {t1}
    Observations = {o1}
    Records <- Twice
    Ended <- First
    MaxSequence = 7
SPECIFICATION TelemetrySpec
INVARIANTS RevisionsAgree
CHECK_DEADLOCK FALSE
