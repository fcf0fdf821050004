CONSTANTS
    Seeds = {91}
    Tasks = {1, 2, 3}
    MaxInFlight = 1
    MaxMutants = 3
    MaxEmpty = 1
    NumParents = 1
    Coalesce = TRUE
    MaxOutcomeFailures = 1
    Faults = {"stop"}
SPECIFICATION Spec
INVARIANT HandoffCanDrain
CHECK_DEADLOCK FALSE
