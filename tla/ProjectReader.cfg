SPECIFICATION FairSpec
CONSTANTS
    Tasks = {t1}
    Requests = {i1, i2}
    Refreshes = {r1, r2}
CHECK_DEADLOCK FALSE
INVARIANTS TypeOK SettledReader
PROPERTIES LoaderEnds
