SPECIFICATION RTSpec
CONSTANTS
    Sessions = {s1, s2}
    Conns = {k1, k2}
    Handlers = {h1, h2}
    Stopper = NoSession
    Relays = {}
    NoSession = NoSession
    Spoken = {"rich"}
    NoConn = NoConn
    Poison = Poison
    BatchSize = 1
    RelayMaxAttempts = 1
    MaxFaults = 0
PROPERTIES
    EndIsScoped
CHECK_DEADLOCK FALSE
