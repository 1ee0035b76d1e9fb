SPECIFICATION Spec
CONSTANTS
    Tasks = {t1, t2, t3}
    MaxSaves = 2
SYMMETRY Symmetry
CHECK_DEADLOCK FALSE
INVARIANTS TypeOK EveryTaskOnce SelectIsInRange SelectOpensCell
