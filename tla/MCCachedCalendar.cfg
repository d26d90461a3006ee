CONSTANTS
    Items = {a, b}
    MaxVersion = 3
    MaxLookups = 2
    Serial = FALSE
    TornFlags = FALSE
    MaxQueue = 2
    MaxBatches = 1
    MaxPlaybacks = 1
    Disturbances = {}
SPECIFICATION CacheSpec
INVARIANTS
    CacheTypeOK
    ItemCount
    UnsentHeld
PROPERTIES
    AcksCurrent
    Reconciled
