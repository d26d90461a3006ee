CONSTANTS
    Items = {a}
    Schemes = {"http", "file"}
    MaxOps = 3
    MaxQueue = 2
    Disturbances = {"hasty"}
SPECIFICATION Spec
INVARIANTS
    SuccessWritten
CHECK_DEADLOCK FALSE
