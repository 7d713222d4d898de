CONSTANTS
    t1 = t1
    Turns = {t1, t2}
    Observations = {o1}
    Records <- Both
    Ended <- Later
    MaxSequence = 8
SPECIFICATION TelemetrySpec
INVARIANTS TelemetryTypeOK CursorsAreExclusive PhaseIsApplied HarmHasCause UsageIsTheHosts
PROPERTY ImplementsDispatchLog
CHECK_DEADLOCK FALSE
