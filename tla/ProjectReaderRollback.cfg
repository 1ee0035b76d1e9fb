SPECIFICATION Spec
CONSTANTS
    Tasks = {t1}
    Requests = {i1, i2}
    Refreshes = {r1}
CHECK_DEADLOCK FALSE
PROPERTIES FailureReverses
