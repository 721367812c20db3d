SPECIFICATION Spec
CONSTANTS
    Job <- MCJob
    Level <- MCLevel
    After <- MCAfter
    DefaultLevel = "warning"
    Window = 1
    MaxAlerts = 2
    Upstream = "scheduler"
    NotifyOnRecovery = TRUE
    None = None
    MaxTime = 2
    MaxOutage = 2
    MaxLog = 4
INVARIANT
    LevelIsEarned
CHECK_DEADLOCK FALSE
