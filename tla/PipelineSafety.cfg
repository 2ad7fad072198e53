SPECIFICATION PipelineSpec
CONSTANTS
    Sessions = {s1}
    Handlers = {h1}
    Stopper = NoSession
    Relays = {r1}
    Consumers = {c1}
    Tools = {t1}
    NoSession = NoSession
    Spoken = {"short", "unreliable", "rich"}
    Poison = Poison
    NoJob = NoJob
    BatchSize = 1
    RelayMaxAttempts = 2
    MaxAttempts = 2
    Provider = "llm"
    FakeFallback = FALSE
    MaxFaults = 2
    MaxCopies = 0
SYMMETRY Symmetry
INVARIANTS
    NoOutcomeBeforeCompletion
    EveryCompletionAccounted
PROPERTIES
    ContractSpec
CHECK_DEADLOCK FALSE
