SPECIFICATION Spec
CONSTANTS
    b1 = b1
    b2 = b2
    s1 = s1
    Parents = {b1, b2}
    Buys = {b1, b2}
    Allowed = {b1}
    MaxAttempts = 2
    Cap = 3
    Batches <- ResizedEntries
    Threshold = 2
    MaxSessions = 2
    MaxDay = 3
    MaxCrashes = 1
    MaxLost = 1
INVARIANTS
    TypeOK
    JournaledFirst
    HaltsHold
    SessionCeiling
    CapPerIncarnation
PROPERTIES
    EntriesRespectHalts
    ImplementsEnvelope
CHECK_DEADLOCK FALSE
