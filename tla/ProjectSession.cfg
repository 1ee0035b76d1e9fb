SPECIFICATION FairSpec
CONSTANTS
    Projects = {p1, p2}
    Devices = {d1, d2}
    MaxUploads = 4
CHECK_DEADLOCK FALSE
INVARIANTS TypeOK SettledProjectIsWhole
PROPERTIES RegisteredIsWhole ImplementsProjectLife EveryChainEnds
