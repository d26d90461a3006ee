CONSTANTS
    Items = {a, b}
    MaxVersion = 1
    MaxLookups = 1
    Serial = FALSE
    TornFlags = FALSE
    MaxQueue = 1
    MaxBatches = 2
    MaxPlaybacks = 1
    Disturbances = {}
SPECIFICATION CacheSpec
PROPERTY RefreshCompletes
