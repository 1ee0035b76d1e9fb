SPECIFICATION FairSpec
CHECK_DEADLOCK FALSE
INVARIANTS TypeOK OneSession
PROPERTIES ImplementsAccountLife LoaderEnds
