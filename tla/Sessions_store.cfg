SPECIFICATION Spec
CONSTANTS
    w1 = w1
    w2 = w2
    s1 = s1
    s2 = s2
    g1 = g1
    g2 = g2
    g3 = g3
    t1 = t1
    t2 = t2
    t3 = t3
    WorkspaceIds = {w1, w2}
    SpaceIds = {s1, s2}
    PaneIds = {g1, g2, g3}
    TabIds = {t1, t2, t3}
    Roots = {"r1", "r2"}
    Views = {"v1"}
    None = None
    Elsewhere = Elsewhere
SYMMETRY Identities
CONSTRAINTS OneRail Few
CHECK_DEADLOCK FALSE
INVARIANTS
    OneHome
    PlaneHoldsPanes
    FocusChain
PROPERTIES
    ClosingKeepsFocus
    TabsGoByClosing
