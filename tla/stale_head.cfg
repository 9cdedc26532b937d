SPECIFICATION Spec
CONSTANTS
    p1 = p1  p2 = p2
    e1 = e1  e2 = e2  e3 = e3
    k1 = k1  k2 = k2  k3 = k3
    None = None
    Pollers = {p1}
    Events = {e1, e2}
    Keys = {k1, k3}
    KeyOf <- TwoHeadKeys
    PrOf <- OnePr
    HeadOf <- TwoHeads
    KindOf <- TwoHeadKinds
    Tracked = {e1, e2}
    Legacy = {}
    MaxRounds = 2
    DryRun = {}
    Outcomes = {"stub"}
    Abortable = {}
    MayBeGone = FALSE
    MaxCrashes = 0
    MaxOverruns = 0
INVARIANTS StaleHeadHarmless
CHECK_DEADLOCK FALSE
