SPECIFICATION Spec
CONSTANTS
    Chain <- TwoProviders
    Calls = {c1, c2, c3}
    Window = 1
    Threshold = 2
    OpenFor = 2
    MaxTime = 4
    MaxChunks = 1
INVARIANTS GarageTypeOK OneVoicePerCall TripsOnCause
PROPERTY OnlyEarlierCallsDisturb
CHECK_DEADLOCK FALSE
