SPECIFICATION FairSpec
CONSTANTS
    p1 = p1  p2 = p2
    e1 = e1  e2 = e2  e3 = e3
    k1 = k1  k2 = k2  k3 = k3
    None = None
    Pollers = {p1, p2}
    Events = {e1, e2, e3}
    Keys = {k1, k2}
    KeyOf <- ReviewKeys
    PrOf <- OnePr
    HeadOf <- TwoHeads
    KindOf <- ReviewKinds
    Tracked = {e1, e2}
    Legacy = {e3}
    MaxRounds = 2
    DryRun = {}
    Outcomes = {"stub", "cancelled", "raises"}
    Abortable = {k1}
    MayBeGone = FALSE
    MaxCrashes = 1
    MaxOverruns = 0
INVARIANTS TypeOK NoLostWork OneFixPerPR
PROPERTIES InboxDrains
CHECK_DEADLOCK FALSE
