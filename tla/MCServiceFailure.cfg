SPECIFICATION ServiceSpec
CONSTANTS
    Confidences <- OneLevel
    VetoConfidence = 7
    UnanimousFloor = 7
    MaxRounds = 2
    MaxTokens = 0
    NoVerdict = NoVerdict
    RedisFails = FALSE
    MaxCrashes = 0
    Requests <- NoRequests
INVARIANTS
    FailureIsAnnounced
CHECK_DEADLOCK FALSE
