CONSTANTS
    Items = {a, b}
    Refreshes = {r}
    Modes = {"ctag", "sync"}
    BatchSize = 1
    MaxStamp = 3
    MaxFailures = 1
    MaxWriting = 1
    Disturbances = {}
SPECIFICATION Spec
INVARIANTS
    TypeOK
    TokenStands
PROPERTIES
    SeenBefore
    SyncAnswered
CHECK_DEADLOCK FALSE
