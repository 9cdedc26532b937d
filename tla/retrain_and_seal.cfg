SPECIFICATION Spec
CONSTANTS
    t = t  u = u
    Tickers = {t, u}
    Options <- CommandLines
    StaleAfter = 0
    FirstSession = 1
    FirstBars <- HalfEmpty
    Registries <- Edits
    MaxSession = 2
    MaxRuns = 2
    MaxEdits = 1
INVARIANTS
    TypeOK
    PanelVetted
    ProvenanceIsLockstep
    SigmaVerdictHolds
    ServedPairFit
    SealedPairFit
CHECK_DEADLOCK FALSE
