SPECIFICATION CDSpec
CONSTANTS
    Sessions = {s1, s2}
    Handlers = {h1, h2, st}
    Stopper = st
    Relays = {r1, r2}
    NoSession = NoSession
    Spoken = {"short", "rich"}
    Poison = Poison
    BatchSize = 2
    RelayMaxAttempts = 2
    MaxFaults = 2
SYMMETRY Symmetry
INVARIANTS
    OutboxIffCommitted
    RecoveryState
    NoMessageBeforeCommit
PROPERTIES
    OutboxFinal
CHECK_DEADLOCK FALSE
