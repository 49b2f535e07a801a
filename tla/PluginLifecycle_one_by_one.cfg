SPECIFICATION Spec
CONSTANTS
    a = a
    b = b
    c = c
    Plugins = {a, b}
    Needs <- PairNeeds
    Order <- Pair
    Graphs <- SmallGraphs
    Development = {b}
    Tasks = {u1}
    Coordinator = coordinator
    Nobody = nobody
    Overlap = FALSE
    Failures = {"load", "activate", "write", "list"}
    MaxVersion = 2
    MaxOps = 2
    MaxChanges = 1
    MaxFaults = 1
INVARIANTS ConsentBeforeRun RestIsClean NothingRunsUnselected OrdersPrepare
PROPERTIES AllApplied
CHECK_DEADLOCK FALSE
