SPECIFICATION PipelineSpec
CONSTANTS
    Sessions = {s1}
    Handlers = {h1}
    Stopper = NoSession
    Relays = {r1}
    Consumers = {c1}
    Tools = {}
    NoSession = NoSession
    Spoken = {"short", "unreliable", "rich"}
    Poison = Poison
    NoJob = NoJob
    BatchSize = 1
    RelayMaxAttempts = 2
    MaxAttempts = 2
    Provider = "llm"
    FakeFallback = FALSE
    MaxFaults = 3
    MaxCopies = 0
INVARIANTS
    GradedOnce
    ProcessingOwned
PROPERTIES
    EventuallySettled
    EventuallyDelivered
CHECK_DEADLOCK FALSE
