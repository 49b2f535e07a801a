SPECIFICATION Spec
CONSTANTS
    Units = {u1, u2, u3}
    Callers = {p1, p2}
    Decls <- RivalDecls
    NoKeys = noKeys
    noKeys = noKeys
    k1 = k1
    k2 = k2
    r1 = r1
    r2 = r2
    NoUnit = NoUnit
    NoCaller = NoCaller
    Calls = {"start", "stop"}
    MaxCrashes = 0
    Orphaning = FALSE
    Mortal = FALSE
    Lingering = FALSE
    Stubborn = FALSE
    Mute = TRUE
    DiskFails = FALSE
SYMMETRY UnitCallerSymmetry
INVARIANTS OneUnit StopEndsFirst
CHECK_DEADLOCK FALSE
