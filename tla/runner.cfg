CONSTANTS
    p1 = p1
    p2 = p2
    Programs = {p1, p2}
    Slots = 3
    Prefetch = 1
    DagsOutlastMark = TRUE
    TimeoutsAtOnce = 0
    MaxRefreshes = 2
    MaxCrashes = 2
    MaxLost = 0
    Faults = {"build", "read", "mark"}
SPECIFICATION Spec
INVARIANTS  OneStatusSet
