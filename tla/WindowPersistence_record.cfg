SPECIFICATION Spec
CONSTANTS
    Windows = {w1, w2}
    Roots = {r1, r2}
    DefaultRoot = r1
    None = none
    Absent = absent
    Unreadable = unreadable
    MaxChanges = 3
    MaxFaults = 1
    MaxRuns = 2
    MaxOut = 2
SYMMETRY AlikeWindows
INVARIANTS OneWindowPerRoot RespawnReachesAll
PROPERTIES  UnreadableStays OneOpen
CHECK_DEADLOCK FALSE
