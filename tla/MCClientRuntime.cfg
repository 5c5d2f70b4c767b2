SPECIFICATION Spec
CONSTANTS
    c1 = c1
    NumUpstreams = 2
    Modes = {"solo", "jd"}
    MaxRetries = 1
    Clients = {c1}
    MaxGen = 2
CHECK_DEADLOCK FALSE
INVARIANTS
    TasksInv
    ModesAgree
PROPERTIES
    FallbackEnds
