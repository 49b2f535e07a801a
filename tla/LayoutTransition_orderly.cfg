SPECIFICATION Spec
CONSTANTS
    left = left
    right = right
    other = other
    solo = solo
    p = p
    q = q
    z = z
    Forms <- ThreeForms
    Start = left
    PlaneOf <- Planes
    Maximized <- Solo
    Moves <- Travel
    NoShape = NoShape
    MaxRevisions = 3
    MaxOthers = 2
    Boxes = {0, 1}
    Foci = {0, 1}
    MaxFaults = 1
    Returns = FALSE
    Interrupts = FALSE
PROPERTIES AcknowledgedIsShown NewestArrives TransactionsClose
CHECK_DEADLOCK FALSE
