SPECIFICATION MonitoringSpec
CONSTANTS
    backup = backup
    sync = sync
    nightly = nightly
    Never = Never
    Monitor <- MCMonitor
    Jobs <- MCJobs
    Groups <- MCGroups
    GroupOf <- MCGroupOf
    Outcome <- MCOutcome
    Command = {a, b, c}
    Interval <- MCInterval
    Grace = 0
    WatchGap = 2
    Ttl <- MCTtl
    SlaWindow = 2
    MinOk = 1
    OutOf = 2
    MaxAverage = 2
    Day = 2
    Deadline <- MCDeadline
    MinRuns = 1
    FailNum = 1
    FailDen = 2
    MaxRunsSeen = 3
    MaxEdits = 3
    MaxRestarts = 1
    Base = 1
    Numerator = 5
    Denominator = 2
    MaxInterval = 4
    Largest = 10
    ResetOnSuccess = TRUE
    Configured = {build, test, deploy}
    Unknown = {ghost}
    DayLength = 6
    Worker = {one, two}
    Cooldown = 1
    Conditions = 1
    Absent = Absent
    MaxBegun = 3
    MaxResets = 1
    report = report
    purge = purge
    Nothing = Nothing
    Attributes <- MCAttributes
    JobLists <- MCJobLists
    RoutedLists <- MCRoutedLists
    RuleLists <- MCRuleLists
    ChannelSets <- MCChannelSets
    Default = "default"
    Blank = ""
    Lower <- MCLower
    Text <- MCText
    Horizon <- MCHorizon
INVARIANTS
    TypeOK
    NobodyForgotten
    QuietPeriodsGrow
    DependenciesHold
    WindowIsArc
    BooksAgree
    RoutedAsRuled
    SelectionsAgree
PROPERTIES
    AlertsAreSpaced
    CooldownKept
CHECK_DEADLOCK FALSE
SYMMETRY MCSymmetry
