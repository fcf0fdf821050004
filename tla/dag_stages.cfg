CONSTANTS
    a = a
    b = b
    Stages = {1, 2, 3}
    Values = {a, b}
    NoInput = NoInput
    NoHash = NoHash
    Graphs <- ForwardGraphs
    ArcChoices = {{}, {"required", "success"}, {"optional", "always"}, {"failure"}}
    Volatile = {1}
    MaxParallel = 2
    MaxRuns = 2
    Faults = {"crash", "timeout"}
SPECIFICATION Spec
INVARIANTS AllResolved Justified Coherent NeverSpins
PROPERTY RunAdvances
