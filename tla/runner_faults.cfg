CONSTANTS
    p1 = p1
    p2 = p2
    Programs = {p1, p2}
    Slots = 1
    Prefetch = 2
    DagsOutlastMark = TRUE
    TimeoutsAtOnce = 1
    MaxRefreshes = 2
    MaxCrashes = 2
    MaxLost = 2
    Faults = {"fail", "build", "timeout"}
SPECIFICATION FairSpec
INVARIANTS TypeOK
PROPERTIES  Evaluated
