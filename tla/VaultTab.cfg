CONSTANTS
    MaxTime = 3
    MaxCred = 2
    MaxSid = 3
    Timeout <- MCTimeout
SPECIFICATION Spec
INVARIANTS
    TypeOK
    KeyMatchesIdentity
    DeadlineSound
PROPERTY ExpiredKeyGoes
