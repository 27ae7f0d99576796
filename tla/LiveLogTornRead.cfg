SPECIFICATION Spec
CONSTANTS
    a = a
    b = b
    e1 = e1
    e2 = e2
    Clients = {a, b}
    Edits = {e1, e2}
    Author <- MCAuthor
    MaxSeq = 3
    MaxPending = 2
    MaxPendingLength = 3
    MaxInFlight = 2
INVARIANT CursorNeverSkips
CHECK_DEADLOCK FALSE
