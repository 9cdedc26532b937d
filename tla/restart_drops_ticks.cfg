SPECIFICATION Spec
CONSTANTS
    a = a  b = b  x = x
    None = None
    NoSession = NoSession
    Parents = {a, b}
    Exits = {x}
    LiveStates <- FewReads
    Configs <- OneConfig
    Signals = {"v1"}
    AsOf <- Days
    Today = 1
    Sessions <- LongDay
    OpenDelay = 1
    CloseCutoff = 1
    MaxEntries = 2
    MaxConsecutive = 2
    MaxTries = 1
    Deadline = 1
    MaxTime = 4
    MaxStarts = 2
INVARIANT OneLinePerTick
CHECK_DEADLOCK FALSE
