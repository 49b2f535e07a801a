SPECIFICATION FairSpec
CONSTANTS
    Units = {u1, u2}
    Callers = {p1, p2}
    Decls <- OneDecl
    NoKeys = noKeys
    noKeys = noKeys
    k1 = k1
    k2 = k2
    r1 = r1
    r2 = r2
    NoUnit = NoUnit
    NoCaller = NoCaller
    Calls = {"start", "stop"}
    MaxCrashes = 1
    Orphaning = TRUE
    Mortal = TRUE
    Lingering = TRUE
    Stubborn = TRUE
    Mute = FALSE
    DiskFails = TRUE
PROPERTIES StartReturns
CHECK_DEADLOCK FALSE
