CONSTANTS
    Items = {a}
    Refreshes = {r}
    Modes = {"ctag"}
    BatchSize = 1
    MaxStamp = 3
    MaxFailures = 0
    MaxWriting = 1
    Disturbances = {}
SPECIFICATION Spec
INVARIANTS
    CtagStands
CHECK_DEADLOCK FALSE
