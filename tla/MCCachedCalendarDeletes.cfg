CONSTANTS
    Items = {a}
    MaxVersion = 2
    MaxLookups = 1
    Serial = FALSE
    TornFlags = FALSE
    MaxQueue = 2
    MaxBatches = 1
    MaxPlaybacks = 1
    Disturbances = {"deletes"}
SPECIFICATION CacheSpec
PROPERTY RefreshCompletes
