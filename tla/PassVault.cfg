SPECIFICATION Spec
CONSTANTS
    s1 = s1
    s2 = s2
    t1 = t1
    NoBlob = NoBlob
    Shares <- MCShares
    Tags <- MCTags
    MaxHandlers = 2
    BatchSize = 1
    MaxTags = 1
    MaxLocks = 2
INVARIANTS
    TypeOK
    LockedShowsNothing
    OneSaveAtATime
    QuietMeansStored
PROPERTIES
    KeysOfLiveSharesKept
    ExpiredSharesGo
