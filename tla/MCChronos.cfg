SPECIFICATION FairSpec
CONSTANTS
    Tasks = {t1, t2, t3}
    Kinds <- SomeKinds
    MaxTasks = 2
    RunBound = 3
INVARIANTS
    ChronosTypeOK
    OneEntryPerPending
    RunsWithinMax
PROPERTIES
    DueIsTaken
CHECK_DEADLOCK FALSE
