SPECIFICATION FairSpec
CONSTANTS
    Emails = {"first", "second", "third"}
    MaxSaves = 2
CHECK_DEADLOCK FALSE
INVARIANTS TypeOK SettledProfile
PROPERTIES UntouchedSaveKeeps StaleLoginIsForever SaveIsAnswered
