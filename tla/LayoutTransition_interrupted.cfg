SPECIFICATION Spec
CONSTANTS
    left = left
    right = right
    other = other
    solo = solo
    p = p
    q = q
    z = z
    Forms <- TwoForms
    Start = left
    PlaneOf <- Planes
    Maximized <- Solo
    Moves <- Travel
    NoShape = NoShape
    MaxRevisions = 3
    MaxOthers = 0
    Boxes = {0}
    Foci = {0}
    MaxFaults = 0
    Returns = FALSE
    Interrupts = TRUE
PROPERTY NewestDeparts
CHECK_DEADLOCK FALSE
