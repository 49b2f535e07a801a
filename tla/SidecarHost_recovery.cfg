SPECIFICATION Spec
CONSTANTS
    Units = {u1, u2, u3}
    Callers = {p1}
    Decls <- AllDecls
    NoKeys = noKeys
    noKeys = noKeys
    k1 = k1
    k2 = k2
    r1 = r1
    r2 = r2
    NoUnit = NoUnit
    NoCaller = NoCaller
    Calls = {"start", "stop", "shutdown"}
    MaxCrashes = 1
    Orphaning = FALSE
    Mortal = FALSE
    Lingering = FALSE
    Stubborn = FALSE
    Mute = FALSE
    DiskFails = FALSE
SYMMETRY UnitSymmetry
INVARIANTS OneUnit AnswerFits OpenIsRecorded NoneLost
CHECK_DEADLOCK FALSE
