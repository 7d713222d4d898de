CONSTANTS
    Entities = {"one", "two"}
    Submissions <- MCSubmissions
    MaxAttempts = 2
    Batch = 2
    MaxToken = 4
SPECIFICATION ProtocolSpec
INVARIANTS StoreTypeOK SnapshotsMatchHistory CommitsInOrder OutboxKeepsActions
PROPERTIES TokensAdvance ImplementsLog
CHECK_DEADLOCK FALSE
