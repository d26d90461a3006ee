CONSTANTS
    Items = {a, b}
    Cals = {c, d}
    MemoryCals = {d}
    MaxTxns = 3
    MaxCalls = 2
    Disturbances = {"refusals"}
SPECIFICATION Spec
INVARIANTS
    TypeOK
    Restored
    NothingStale
PROPERTY MoveKeepsItem
SYMMETRY ItemSymmetry
CHECK_DEADLOCK FALSE
