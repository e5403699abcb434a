CONSTANTS
    MaxSessions = 1
    Documents = {1, 2}
    Versions = {1, 2}
    Parse <- MCParse
    Workers = {1}
    QueueLimit = 1
    MaxFaults = 1
    MaxRevision = 4
SPECIFICATION FairSpec
INVARIANTS
    RecoveryIsSound
    ConfirmedBatchIsClean
PROPERTIES
    ResultsAreKept
    FileIsProcessed
CHECK_DEADLOCK FALSE
