CONSTANTS
    Items = {a}
    Refreshes = {r}
    Modes = {"sync"}
    BatchSize = 1
    MaxStamp = 5
    MaxFailures = 0
    MaxWriting = 1
    Disturbances = {"slow"}
SPECIFICATION Spec
INVARIANTS
    RowsTagged
CHECK_DEADLOCK FALSE
