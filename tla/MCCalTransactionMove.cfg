CONSTANTS
    Items = {a}
    Cals = {c, d}
    MemoryCals = {d}
    MaxTxns = 3
    MaxCalls = 3
    Disturbances = {"refusals", "impatient"}
SPECIFICATION Spec
INVARIANT ItemKept
CHECK_DEADLOCK FALSE
