SPECIFICATION RTSpec
CONSTANTS
    Sessions = {s1, s2}
    Conns = {k1, k2}
    Handlers = {h1, h2, st}
    Stopper = st
    Relays = {}
    NoSession = NoSession
    Spoken = {"rich"}
    NoConn = NoConn
    Poison = Poison
    BatchSize = 1
    RelayMaxAttempts = 1
    MaxFaults = 1
INVARIANTS
    CapacityOne
    ActiveIsTracked
PROPERTIES
    ClosedSessionEnds
    DeliverySteps
CHECK_DEADLOCK FALSE
