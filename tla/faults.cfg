CONSTANTS
    Seeds = {91}
    Tasks = {1, 2}
    MaxInFlight = 2
    MaxMutants = 2
    MaxEmpty = 1
    NumParents = 1
    Coalesce = TRUE
    MaxOutcomeFailures = 2
    Faults = {"llm", "timeout", "dag", "evict", "outcome", "discard", "snapshot", "clock", "grace", "drain", "stop"}
SPECIFICATION Spec
INVARIANTS SlotConservation NoGhostChild ProducersFirst Accounting
PROPERTY ImplementsPipeline
