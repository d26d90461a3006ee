CONSTANTS
    Items = {a}
    Interval = 2
    Month = 4
    Lengths = {0, 2}
    Offsets <- MCOffsets
    Snoozes = {1}
    MaxTime = 6
    MaxGets = 2
SPECIFICATION Spec
INVARIANT LateCovered
