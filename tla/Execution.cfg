SPECIFICATION FairSpec
CONSTANTS
    Job <- MCJob
    Period <- MCPeriod
    Daemon = daemon
    Worker = {worker}
    Limit <- MCLimit
    NoSem = NoSem
    MaxRuns <- MCMaxRuns
    Window = 1
    MaxAttempts = 2
    MaxTraces = 1
    NoJob = NoJob
    MaxTime = 3
    MaxCalls = 2
INVARIANTS
    TypeOK
    QueuedOnce
    LimitKept
    SlotsReturn
    QuotaBudget
    TracesAreNewest
PROPERTIES
    CallsEnd
CHECK_DEADLOCK FALSE
