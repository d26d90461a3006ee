CONSTANTS
    Items = {a}
    Refreshes = {r}
    Modes = {"sync"}
    BatchSize = 1
    MaxStamp = 4
    MaxFailures = 0
    MaxWriting = 1
    Disturbances = {"keep"}
SPECIFICATION Spec
INVARIANTS
    TokenStands
CHECK_DEADLOCK FALSE
