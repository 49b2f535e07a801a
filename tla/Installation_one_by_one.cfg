SPECIFICATION Spec
CONSTANTS
    Callers = {p1}
    Txns = {t1, t2, t3}
    view = view
    pty = pty
    view1 = view1
    view2 = view2
    pty1 = pty1
    Ids = {view, pty}
    Plugins = {view}
    Artifacts <- Releases
    NoArtifact = NoArtifact
    IdOf <- Owner
    NoEnv = NoEnv
    NoJournal = NoJournal
    NoTxn = NoTxn
    MaxRevision = 5
    MaxCrashes = 2
    MaxFaults = 2
    Sticky = FALSE
SYMMETRY TxnSymmetry
INVARIANTS FailureChangesNothing NothingHalfInstalled RecoveryServes TransactionsEnd
PROPERTIES SelectedStays
CHECK_DEADLOCK FALSE
