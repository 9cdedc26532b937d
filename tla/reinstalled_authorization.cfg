SPECIFICATION FairSpec
CONSTANTS
    a1 = a1
    a2 = a2
    NoAuth = NoAuth
    Auths = {a1, a2}
    LiveGrade = {a1}
    Window <- AlwaysValid
    MaxSessions <- OneSession
    MaxDay = 3
    SessionDays = {1, 2}
    MayReinstall = TRUE
    MaxEdits = 2
    MaxCrashes = 1
PROPERTIES
    TripIsFinal
