SPECIFICATION GWSpec
CONSTANTS
    Sessions = {s1}
    Consumers = {c1}
    Tools = {t1}
    Poison = Poison
    NoJob = NoJob
    MaxAttempts = 2
    Provider = "llm"
    FakeFallback = FALSE
    MaxFaults = 0
    MaxCopies = 1
INVARIANTS
    GradedOnce
CHECK_DEADLOCK FALSE
