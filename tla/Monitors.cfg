SPECIFICATION Spec
CONSTANTS
    Tags = {t1, t2, t3}
    Fingerprints <- MCFingerprints
    MaxIncidents = 2
    ResolvedRetention = 1
    MaxTick = 3
    MaxFaults = 1
    Sid = {"s1", "s2", "s3"}
    UserOf <- MCUserOf
    SourceOf <- MCSourceOf
    StartHour <- MCStartHour
    Hours = {0, 1}
    Named = {"host"}
    Suspects <- MCSuspects
    Allowed <- MCAllowed
    MinEvents = 1
    Threshold = 2
    MaxHistory = 3
    MaxFailedHistory = 1
    Window = 2
    MaxFails = 2
    MaxDrops = 1
    Conns <- MCConns
    EphemeralPortFloor = 50
    OwnPort = 80
    HistoryLimit = 3
    MaxRestarts = 1
CHECK_DEADLOCK FALSE
INVARIANTS
    ShownSessionsAccurate
    NoSilentOrigin
    ShownConnectionsAccurate
PROPERTIES
    OpenIncidentsStay
