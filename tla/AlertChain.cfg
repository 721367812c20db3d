SPECIFICATION Spec
CONSTANTS
    Job <- MCJob
    Level <- MCLevel
    After <- MCAfter
    DefaultLevel = "warning"
    Window = 1
    MaxAlerts = 2
    Upstream = "pipeline"
    NotifyOnRecovery = TRUE
    None = None
    MaxTime = 2
    MaxOutage = 2
    MaxLog = 4
INVARIANTS
    TypeOK
    WindowBudget
    LevelIsEarned
PROPERTY
    ImplementsSlidingWindow
CHECK_DEADLOCK FALSE
