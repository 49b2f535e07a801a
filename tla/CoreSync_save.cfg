SPECIFICATION Spec
CONSTANTS
    Windows = {w1, w2}
    Values = {v1, v2}
    Fallback = fallback
    None = none
    BadShape = bad
    Announces = TRUE
    MaxEvents = 2
SYMMETRY Alike
INVARIANTS NewestIsSent DirtyHasAWrite
PROPERTY OnlySavesReachDisk
CHECK_DEADLOCK FALSE
