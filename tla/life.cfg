CONSTANTS
    i1 = i1
    i2 = i2
    i3 = i3
    None = None
    t1 = t1
    t2 = t2
    Instances = {i1, i2, i3}
    Producers = {t1, t2}
    Seeds = 1
    MaxOrdinal = 3
    Faults = {"net", "crash", "renewal"}
SPECIFICATION Spec
INVARIANTS UniqueWhenClean MirrorFollowsRedis
PROPERTIES SharedOnlyAfterLoss ConfirmedNeverReissued
SYMMETRY Symmetry
CONSTRAINT NotShared
