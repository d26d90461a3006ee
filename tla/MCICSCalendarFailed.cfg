CONSTANTS
    Items = {a}
    Schemes = {"http", "file"}
    MaxOps = 2
    MaxQueue = 2
    Disturbances = {"failures"}
SPECIFICATION Spec
PROPERTIES
    FailedNotWritten
CHECK_DEADLOCK FALSE
