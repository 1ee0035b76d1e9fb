SPECIFICATION FairSpec
CONSTANTS
    Words = {"first", "second"}
    Refreshes = {r1, r2}
CHECK_DEADLOCK FALSE
INVARIANTS TypeOK SettledHeader
PROPERTIES UntouchedTextKeeps LoadersEnd
