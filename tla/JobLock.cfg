SPECIFICATION FairSpec
CONSTANTS
    p1 = p1
    p2 = p2
    p3 = p3
    NoFile = NoFile
    Empty = Empty
    Proc <- MCProc3
    CanSignal <- MCOneUser3
    MaxCrashes = 2
INVARIANTS
    TypeOK
    MutualExclusion
    HolderIsNamed
    NoAbandonedLock
PROPERTY
    StaleLockCleared
