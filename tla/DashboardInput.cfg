SPECIFICATION FairSpec
CONSTANTS
    Projects = {p1}
    Personal = {}
    Matching = {p1}
    Loads = {l1, l2}
    MaxBlocks = 3
CHECK_DEADLOCK FALSE
PROPERTIES InputReturns
