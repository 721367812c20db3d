SPECIFICATION Spec
CONSTANTS
    p1 = p1
    p2 = p2
    p3 = p3
    NoFile = NoFile
    Empty = Empty
    Proc <- MCProc2
    CanSignal <- MCTwoUsers
    MaxCrashes = 0
INVARIANT
    OnlyDeadLocksCleared
