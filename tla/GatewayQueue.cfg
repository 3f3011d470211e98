SPECIFICATION Spec
CONSTANTS
    Reqs = {n1, n2, i1}
    Interactive = {i1}
    MaxConcurrency = 1
    QueueCap = 1
    PriorityCap = 1
SYMMETRY NormalSymmetry
CHECK_DEADLOCK FALSE
INVARIANTS
    SlotsAccountedFor
    CountersSettle
    ConnectedClientAnswered
PROPERTIES
    WaitingPriorityWins
