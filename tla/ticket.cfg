CONSTANTS
    Seeds = {91, 92}
    Tasks = {1, 2}
    MaxInFlight = 2
    MaxMutants = 2
    MaxEmpty = 1
    NumParents = 2
    Coalesce = FALSE
    MaxOutcomeFailures = 1
    Faults = {"timeout", "dag", "stop"}
SPECIFICATION Spec
INVARIANTS LocksOwned ParentsPinned NoLockCycle
