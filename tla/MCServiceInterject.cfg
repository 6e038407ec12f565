SPECIFICATION ServiceSpec
CONSTANTS
    Confidences <- Levels
    VetoConfidence = 7
    UnanimousFloor = 7
    MaxRounds = 2
    MaxTokens = 0
    NoVerdict = NoVerdict
    RedisFails = TRUE
    MaxCrashes = 1
    Requests = {r1}
INVARIANTS
    
    VerdictsAreThisRounds
    DecisionJustified
    FeedbackPerRound
    TimelineEndsOnce
    LiveTimelineInOrder
PROPERTIES
    ReopenedOnlyByOverlap
CHECK_DEADLOCK FALSE
