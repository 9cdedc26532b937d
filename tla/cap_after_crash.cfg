SPECIFICATION Spec
CONSTANTS
    b1 = b1
    b2 = b2
    s1 = s1
    Parents = {b1, b2}
    Buys = {b1, b2}
    Allowed = {b1, b2}
    MaxAttempts = 1
    Cap = 1
    Batches <- ResizedEntries
    Threshold = 2
    MaxSessions = 1
    MaxDay = 1
    MaxCrashes = 1
    MaxLost = 0
INVARIANTS
    RestartSafeCap
