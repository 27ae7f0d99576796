SPECIFICATION FairSpec
CONSTANTS
    a = a
    b = b
    e1 = e1
    e2 = e2
    e3 = e3
    e4 = e4
    Clients = {a, b}
    Edits = {e1, e2}
    Author <- AuthorAB
    Sockets = {}
    CompactAt = 1
    MayReject = FALSE
    MayExpire = FALSE
    MayHide = FALSE
    MaxSeq = 3
    MaxPending = 1
    MaxPendingLength = 9
    MaxFlushes = 2
    MaxTxn = 0
    MaxFaults = 1
INVARIANT AcceptedKept
PROPERTY EditsReachPeers
CHECK_DEADLOCK FALSE
