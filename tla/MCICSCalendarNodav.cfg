CONSTANTS
    Items = {a}
    Schemes = {"http"}
    MaxOps = 2
    MaxQueue = 2
    Disturbances = {"nodav"}
SPECIFICATION Spec
PROPERTIES
    Answered
CHECK_DEADLOCK FALSE
