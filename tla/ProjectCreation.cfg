SPECIFICATION FairSpec
CONSTANTS
    Tasks = {t1, t2, t3}
    Projects = {p1, p2}
    None = None
CHECK_DEADLOCK FALSE
INVARIANTS TypeOK TasksFollowProject OneProjectPerScreen CreatedIsWhole TotalFailureIsTold
PROPERTIES OtherScreensStay FinishEnds
