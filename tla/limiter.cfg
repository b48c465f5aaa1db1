SPECIFICATION Spec
CONSTANTS
    Jobs = {j1, j2}
    Hour = 6
    Second = 2
    Buffer = 1
    MaxPerHour = 2
    MinGap = 3
    MaxLag = 2
    MaxTime = 17
SYMMETRY JobSymmetry
CHECK_DEADLOCK FALSE
INVARIANTS
    HourlyCap
    DeferredAtMostTwice
PROPERTIES
    SpacedSends
