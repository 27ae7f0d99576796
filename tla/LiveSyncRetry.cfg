SPECIFICATION FairSpec
CONSTANTS
    a = a
    b = b
    e1 = e1
    e2 = e2
    e3 = e3
    e4 = e4
    Clients = {a}
    Edits = {e1}
    Author <- AuthorA
    Sockets = {a}
    CompactAt = 1
    MayReject = FALSE
    MayExpire = FALSE
    MayHide = TRUE
    MaxSeq = 3
    MaxPending = 1
    MaxPendingLength = 9
    MaxFlushes = 2
    MaxTxn = 3
    MaxFaults = 1
INVARIANTS
    OutboxKeepsUnsaved
    StaysTuned
PROPERTY EditsReachServer
CHECK_DEADLOCK FALSE
