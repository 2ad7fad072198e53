SPECIFICATION GWSpec
CONSTANTS
    Sessions = {s1}
    Consumers = {c1, c2}
    Tools = {t1}
    Poison = Poison
    NoJob = NoJob
    MaxAttempts = 2
    Provider = "llm"
    FakeFallback = FALSE
    MaxFaults = 2
    MaxCopies = 2
SYMMETRY Symmetry
INVARIANTS
    NothingDropped
    OnlyEvidenceGraded
PROPERTIES
    GradedFinal
CHECK_DEADLOCK FALSE
