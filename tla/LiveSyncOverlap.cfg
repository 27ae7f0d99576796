SPECIFICATION Spec
CONSTANTS
    a = a
    b = b
    e1 = e1
    e2 = e2
    e3 = e3
    e4 = e4
    Clients = {a}
    Edits = {e1, e2, e3, e4}
    Author <- AuthorA
    Sockets = {}
    CompactAt = 1
    MayReject = FALSE
    MayExpire = FALSE
    MayHide = FALSE
    MaxSeq = 6
    MaxPending = 1
    MaxPendingLength = 9
    MaxFlushes = 2
    MaxTxn = 0
    MaxFaults = 0
INVARIANT UnsavedStaysInOutbox
CHECK_DEADLOCK FALSE
