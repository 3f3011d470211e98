SPECIFICATION FairSpec
CONSTANTS
    Ids = {a}
    High = {a}
    Posts = {p}
    Decisions = {"approved", "rejected"}
    MaxAttrs = 1
    MaxRestarts = 1
PROPERTIES
    PendingEnds
    WaiterReturns
    ApprovedRuns
