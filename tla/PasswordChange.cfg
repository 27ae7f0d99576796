CONSTANTS
    MaxTime = 1
    MaxCred = 2
    MaxSid = 3
    Timeout <- MCTimeout
    Size <- MCSize
    BATCH_MAX_NOTES = 2
    BATCH_MAX_CHARS = 2
    RETRY_DELAYS = 1
SPECIFICATION Spec
INVARIANTS
    TypeOK
    NothingStranded
    CommitMarker
    BatchesFit
PROPERTY ChangeEnds
