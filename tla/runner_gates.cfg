SPECIFICATION FairSpec
CONSTANTS
    a1 = a1
    a2 = a2
    NoAuth = NoAuth
    Auths = {a1, a2}
    LiveGrade = {a1}
    Window <- Windows
    MaxSessions <- Ceilings
    MaxDay = 3
    SessionDays = {1, 2}
    MayReinstall = FALSE
    MaxEdits = 2
    MaxCrashes = 1
INVARIANTS
    TypeOK
    PaperFloorNeverReal
    OrdersAccountedFor
PROPERTIES
    TripIsFinal
    EnvelopePerAuthorization
    KillHalts
