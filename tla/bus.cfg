CONSTANTS
    r1 = r1
    r2 = r2
    r3 = r3
    None = None
    Runs = {r1, r2, r3}
    Topologies <- Both
    MaxStreamLen = 1
    MaxConsume = 2
    MaxBuffer = 1
    MaxImports = 1
    MaxMessages = 2
    MaxLives <- Lives
    Publishers = {r1}
    Frail = {r2, r3}
    MaxFaults = 2
    Faults = {"net", "ttl", "crash", "end"}
SPECIFICATION FairSpec
INVARIANTS TypeOK ImportedOnce NothingVanishes NoneSkipped
PROPERTY Delivered
