SPECIFICATION Spec
CONSTANTS
    Order <- MCOrder
    Errors = "errors"
    Endpoints <- MCEndpoints
    Works <- MCWorks
    Recorders <- MCRecorders
    Savers <- MCSavers
    Hour = 1
    Day = 2
    Keep = 3
    MaxClock = 5
    MaxRequests = 3
    DiskRequests = 2
    MaxResets = 1
    MaxKills = 1
    MaxSaveFails = 1
    MaxTroubles = 1
CHECK_DEADLOCK FALSE
INVARIANTS
    WindowsExact
    FileWhole
PROPERTIES
    SavedWhereSaving
