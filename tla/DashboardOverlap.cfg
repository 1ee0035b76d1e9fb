SPECIFICATION Spec
CONSTANTS
    Projects = {p1, p2}
    Personal = {p1, p2}
    Matching = {p1}
    Loads = {l1, l2}
    MaxBlocks = 2
CHECK_DEADLOCK FALSE
SYMMETRY Symmetry
INVARIANTS TypeOK SettledDashboard
