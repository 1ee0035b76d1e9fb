SPECIFICATION FairSpec
CONSTANTS
    Covers = {c1, c2, c3}
    Pipelines = {p1, p2, p3, p4, p5}
CHECK_DEADLOCK FALSE
INVARIANTS TypeOK OneExit
PROPERTIES ImplementsAccountLife PasswordIsKept DeletionAnswers
