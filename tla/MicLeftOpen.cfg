SPECIFICATION Spec
CONSTANTS
    Calls = {c1, c2}
    Past = {}
    Nobody = Nobody
    MaxLoads = 2
INVARIANT MicReleased
CHECK_DEADLOCK FALSE
