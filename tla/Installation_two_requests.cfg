SPECIFICATION Spec
CONSTANTS
    Callers = {p1, p2}
    Txns = {t1, t2}
    view = view
    pty = pty
    view1 = view1
    view2 = view2
    pty1 = pty1
    Ids = {view, pty}
    Plugins = {view}
    Artifacts <- Releases
    NoArtifact = NoArtifact
    IdOf <- Owner
    NoEnv = NoEnv
    NoJournal = NoJournal
    NoTxn = NoTxn
    MaxRevision = 3
    MaxCrashes = 1
    MaxFaults = 2
    Sticky = TRUE
SYMMETRY TxnCallerSymmetry
INVARIANT MovesJournalled
CHECK_DEADLOCK FALSE
