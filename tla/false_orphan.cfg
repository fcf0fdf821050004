CONSTANTS
    p1 = p1
    p2 = p2
    Programs = {p1, p2}
    Slots = 2
    Prefetch = 1
    DagsOutlastMark = TRUE
    TimeoutsAtOnce = 0
    MaxRefreshes = 0
    MaxCrashes = 0
    MaxLost = 0
    Faults = {}
SPECIFICATION Spec
INVARIANT NoOrphans
