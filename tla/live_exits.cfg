SPECIFICATION FairSpec
CONSTANTS
    b1 = b1
    b2 = b2
    s1 = s1
    Parents = {s1}
    Buys = {}
    Allowed = {}
    MaxAttempts = 2
    Cap = 0
    Batches <- OneSell
    Threshold = 2
    MaxSessions = 1
    MaxDay = 1
    MaxCrashes = 1
    MaxLost = 1
INVARIANTS
    EconomicInvariant
    NoOvercount
    NoOrphans
PROPERTIES
    ExitsChased
    ChildrenReachSnapshot
