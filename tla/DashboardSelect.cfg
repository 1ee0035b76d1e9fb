SPECIFICATION Spec
CONSTANTS
    Projects = {p1}
    Personal = {p1}
    Matching = {p1}
    Loads = {l1, l2}
    MaxBlocks = 4
CHECK_DEADLOCK FALSE
SYMMETRY Symmetry
INVARIANTS SelectOpens
