CONSTANT MaxSteps = 3
SPECIFICATION FairSpec
INVARIANTS TypeOK EquivalentIsEarned CleanupExactlyOnce FailureIsLocated StopCauseHappened
PROPERTIES EffectsAreJustified ImplementsContract Reports
CHECK_DEADLOCK FALSE
