SPECIFICATION Spec
CONSTANTS
    Calls = {c1, c2}
    Past = {}
    Nobody = Nobody
    MaxLoads = 2
INVARIANTS ClientTypeOK MicIsOwned CommandsInOrder TranscriptIsOwn GradingIsOfView
CHECK_DEADLOCK FALSE
