CONSTANTS
    Seeds = {91}
    Tasks = {1, 2, 3}
    MaxInFlight = 2
    MaxMutants = 2
    MaxEmpty = 1
    NumParents = 1
    Coalesce = TRUE
    MaxOutcomeFailures = 1
    Faults = {"llm", "timeout", "dag", "evict"}
SPECIFICATION FairSpec
INVARIANTS CapRespected CapReached
PROPERTIES FlipOnlyStale RunCompletes ChildSettles
