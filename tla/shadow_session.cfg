SPECIFICATION FairSpec
CONSTANTS
    a = a  b = b  x = x
    None = None
    NoSession = NoSession
    Parents = {a, b}
    Exits = {x}
    LiveStates <- Reads
    Configs <- AllConfigs
    Signals = {"v1", "late"}
    AsOf <- Days
    Today = 1
    Sessions <- Calendar
    OpenDelay = 1
    CloseCutoff = 2
    MaxEntries = 1
    MaxConsecutive = 2
    MaxTries = 2
    Deadline = 2
    MaxTime = 5
    MaxStarts = 2
INVARIANTS
    TypeOK
    IndicesContiguous
    TicksBacked
    CountersMatchDecided
    EntriesInWindow
    OutageIsSustained
    HonestSessionAudits
PROPERTIES
    TicksGated
    SessionEnds
CHECK_DEADLOCK FALSE
