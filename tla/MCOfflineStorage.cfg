CONSTANTS
    Items = {a, b, c}
    MaxVersion = 4
    MaxLookups = 3
    Serial = TRUE
    TornFlags = FALSE
SPECIFICATION Spec
INVARIANTS
    TypeOK
    LookupsCurrent
    OwedStored
PROPERTY JournalRefined
