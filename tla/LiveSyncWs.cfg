SPECIFICATION Spec
CONSTANTS
    a = a
    b = b
    e1 = e1
    e2 = e2
    e3 = e3
    e4 = e4
    Clients = {a, b}
    Edits = {e1, e2}
    Author <- AuthorA
    Sockets = {a, b}
    CompactAt = 2
    MayReject = TRUE
    MayExpire = TRUE
    MayHide = FALSE
    MaxSeq = 3
    MaxPending = 1
    MaxPendingLength = 9
    MaxFlushes = 2
    MaxTxn = 3
    MaxFaults = 0
INVARIANTS
    TypeOK
    CursorSound
    UnsavedIsArmed
CHECK_DEADLOCK FALSE
