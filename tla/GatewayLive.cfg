SPECIFICATION FairSpec
CONSTANTS
    Reqs = {n1, i1}
    Interactive = {i1}
    MaxConcurrency = 2
    QueueCap = 1
    PriorityCap = 1
CHECK_DEADLOCK FALSE
INVARIANTS
    Inductive
PROPERTIES
    AcceptedFinishes
