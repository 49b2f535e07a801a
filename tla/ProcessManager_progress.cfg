SPECIFICATION FairSpec
CONSTANTS
    Children = {c1}
    Callers = {p1, p2}
    Windows = {w1}
    NoChild = NoChild
    c1 = c1
    c2 = c2
    w1 = w1
    Stamped <- OneStamped
    Grouped = {c1}
    Untouchable = {}
    PipeSize = 1
    MaxWrites = 5
INVARIANTS OneHolder ExitAgreesWithLedger ReapedIsReaped
PROPERTIES ReapReturns ExitIsAnnounced ChildFinishes
CHECK_DEADLOCK FALSE
