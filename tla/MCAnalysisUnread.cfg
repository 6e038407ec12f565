SPECIFICATION FairSpec
CONSTANTS
    Actors = {a1}
    Registries <- Everybody
    HeartbeatEvery = 2
    ErrorThreshold = 1
    Cooldown = 3
    MaxWait = 1
    MaxFlips = 1
PROPERTIES
    Answered
CHECK_DEADLOCK FALSE
