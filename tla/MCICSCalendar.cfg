CONSTANTS
    Items = {a, b}
    Schemes = {"http", "file"}
    MaxOps = 3
    MaxQueue = 2
    Disturbances = {"others", "failures"}
SPECIFICATION Spec
INVARIANTS
    TypeOK
    InSync
    SuccessWritten
PROPERTIES
    OthersKept
CHECK_DEADLOCK FALSE
