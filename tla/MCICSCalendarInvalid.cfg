CONSTANTS
    Items = {a}
    Schemes = {"http", "file"}
    MaxOps = 2
    MaxQueue = 1
    Disturbances = {"invalid"}
SPECIFICATION Spec
PROPERTIES
    InvalidKept
CHECK_DEADLOCK FALSE
