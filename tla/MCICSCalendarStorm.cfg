CONSTANTS
    Items = {a}
    Schemes = {"http", "file"}
    MaxOps = 2
    MaxQueue = 2
    Disturbances = {"others", "early", "window", "failures", "noload", "invalid"}
SPECIFICATION Spec
INVARIANTS
    LockHeld
PROPERTIES
    Answered
CHECK_DEADLOCK FALSE
