SPECIFICATION FairSpec
CONSTANTS
    Actors = {a1}
    Registries <- SomeMissing
    HeartbeatEvery = 2
    ErrorThreshold = 1
    Cooldown = 3
    MaxWait = 1
    MaxFlips = 2
INVARIANTS
    LoopTypeOK
    OneDispatchPerCooldown
    ReportedOnce
    RecordFlagsMatch
PROPERTIES
    PendingGoesOut
    AnsweredWhenHealthy
CHECK_DEADLOCK FALSE
