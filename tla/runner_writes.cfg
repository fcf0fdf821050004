CONSTANTS
    p1 = p1
    p2 = p2
    p3 = p3
    Programs = {p1, p2, p3}
    Slots = 4
    Prefetch = 1
    DagsOutlastMark = FALSE
    TimeoutsAtOnce = 0
    MaxRefreshes = 0
    MaxCrashes = 1
    MaxLost = 2
    Faults = {"build", "read", "evict"}
SPECIFICATION Spec
INVARIANTS BlobAgrees 
PROPERTY ImplementsLifecycle
