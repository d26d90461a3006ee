CONSTANTS
    Items = {a}
    Refreshes = {r}
    Modes = {"sync"}
    BatchSize = 1
    MaxStamp = 3
    MaxFailures = 1
    MaxWriting = 1
    Disturbances = {"foreign"}
SPECIFICATION Spec
PROPERTIES
    SyncAnswered
CHECK_DEADLOCK FALSE
