SPECIFICATION FairServiceSpec
CONSTANTS
    Confidences <- OneLevel
    VetoConfidence = 7
    UnanimousFloor = 7
    MaxRounds = 2
    MaxTokens = 1
    NoVerdict = NoVerdict
    RedisFails = FALSE
    MaxCrashes = 1
    Requests <- NoRequests
INVARIANTS
    ServiceTypeOK
    TableTrailsStream
    CompletedRowIsWhole
PROPERTIES
    RowIsDeliberation
    RowSettles
CHECK_DEADLOCK FALSE
