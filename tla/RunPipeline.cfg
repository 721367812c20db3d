SPECIFICATION Spec
CONSTANTS
    NumJobs = 2
    Threshold = 2
    RecoveryWindow = 2
    MinInterval = 3
    NotifyOnRecovery = TRUE
    None = None
    StartTimes <- MCEarlyStart
    MaxTime = 4
    MaxRuns <- MCMaxRuns
    MaxResets = 1
INVARIANTS
    TypeOK
    BreakerReflectsHistory
    RecoveryIsReported
    LongOutageIsReported
PROPERTY
    NoRunWhileOpen
