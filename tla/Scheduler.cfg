SPECIFICATION Spec
CONSTANTS
    NumJobs = 2
    Period <- MCPeriod
    Minute = 6
    Tolerance = 3
    Polls <- MCPolls
    MaxDuration = 2
    None = None
    MaxTime = 40
    MaxFaults = 1
INVARIANTS
    TypeOK
    NoTwoMissedInARow
PROPERTIES
    OncePerOccurrence
    StartsAreSpaced
CHECK_DEADLOCK FALSE
