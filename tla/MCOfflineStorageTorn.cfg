CONSTANTS
    Items = {a}
    MaxVersion = 3
    MaxLookups = 2
    Serial = TRUE
    TornFlags = TRUE
SPECIFICATION Spec
INVARIANT OwedStored
