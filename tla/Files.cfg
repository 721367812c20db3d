SPECIFICATION FilesSpec
CONSTANTS
    Kind <- MCKind
    Process = {daemon, operator}
    Job = {backup, sync}
    Forever = Forever
    Value <- MCValue
    Empty = Empty
    Garbage = Garbage
    NoFile = NoFile
    MaxFaults = 1
    MaxCalls = 3
    MaxTime = 2
    Limit = 1
    Unfinished = Unfinished
    Torn = Torn
    Broken = Broken
    MaxEntries = 3
    MaxArchiveFaults = 2
INVARIANTS
    FilesTypeOK
    ReadableUnlessTorn
    NoEntryLost
    NoEntryTwice
PROPERTIES
    AtomicTable
CHECK_DEADLOCK FALSE
