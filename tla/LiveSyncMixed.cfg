SPECIFICATION FairSpec
CONSTANTS
    a = a
    b = b
    e1 = e1
    e2 = e2
    e3 = e3
    e4 = e4
    Clients = {a, b}
    Edits = {e1, e2}
    Author <- AuthorAB
    Sockets = {a}
    CompactAt = 3
    MayReject = FALSE
    MayExpire = FALSE
    MayHide = FALSE
    MaxSeq = 3
    MaxPending = 4
    MaxPendingLength = 9
    MaxFlushes = 2
    MaxTxn = 2
    MaxFaults = 0
PROPERTY EditsReachPeers
CHECK_DEADLOCK FALSE
