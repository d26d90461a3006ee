CONSTANTS
    Items = {a, b}
    Refreshes = {r}
    Modes = {"sync"}
    BatchSize = 1
    MaxStamp = 3
    MaxFailures = 1
    MaxWriting = 1
    Disturbances = {"skipped"}
SPECIFICATION Spec
INVARIANTS
    TokenStands
CHECK_DEADLOCK FALSE
