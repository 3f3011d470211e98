SPECIFICATION Spec
CONSTANTS
    Procs = {p1, p2}
    Keys = {k1, k2}
    Tiers <- SmallTiers
    Steps = {1, 2}
    MaxTime = 5
    MaxFaults = 3
    MixTime = 2
    MixFaults = 1
SYMMETRY Symmetry
CHECK_DEADLOCK FALSE
INVARIANTS
    CurrentIsLastWrite
    NoKeyLost
    AttrsDurable
    SizeTracksDisk
    RecentHistoryKept
