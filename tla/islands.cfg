CONSTANTS
    p1 = p1
    p2 = p2
    c1 = c1
    c2 = c2
    i1 = i1
    i2 = i2
    m1 = m1
    m2 = m2
    None = None
    Absent = Absent
    Programs = {p1, p2}
    Islands = {i1, i2}
    Cells = {c1, c2}
    CellOf <- Grids
    Fits = {1, 2}
    MaxSize = 1
    Migrators = {m1, m2}
    MaxMigrants = 1
    Interval = 1
    MaxGeneration = 2
    Measured <- P1Worst
    Faults = {"crash", "cancel", "net", "reeval"}
    MaxHit = 1
SPECIFICATION Spec
INVARIANTS OneIsland NothingLost MembersLive  WithinSize
SYMMETRY Symmetry
