CONSTANTS
    Items = {a}
    MaxVersion = 3
    MaxLookups = 2
    Serial = FALSE
    TornFlags = FALSE
    MaxQueue = 2
    MaxBatches = 1
    MaxPlaybacks = 1
    Disturbances = {}
SPECIFICATION CacheSpec
PROPERTY ReconciledAnyway
