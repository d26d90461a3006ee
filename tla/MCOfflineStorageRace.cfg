CONSTANTS
    Items = {a, b}
    MaxVersion = 3
    MaxLookups = 2
    Serial = FALSE
    TornFlags = FALSE
SPECIFICATION Spec
PROPERTY NoResurrection
