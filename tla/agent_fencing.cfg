SPECIFICATION Spec
CONSTANTS
    p1 = p1  p2 = p2
    e1 = e1  e2 = e2  e3 = e3
    k1 = k1  k2 = k2  k3 = k3
    None = None
    Pollers = {p1, p2}
    Events = {e1, e2, e3}
    Keys = {k1, k3}
    KeyOf <- RoundKeys
    PrOf <- OnePr
    HeadOf <- TwoHeads
    KindOf <- RoundKinds
    Tracked = {e1, e2, e3}
    Legacy = {e3}
    MaxRounds = 2
    DryRun = {p2}
    Outcomes = {"stub", "patch", "quits"}
    Abortable = {}
    MayBeGone = TRUE
    MaxCrashes = 1
    MaxOverruns = 1
INVARIANTS GenerationsDiffer RoundsAskedFor ExactlyOnce
CHECK_DEADLOCK FALSE
