SPECIFICATION FairSpec
CONSTANTS
    Watchers = {w1, w2}
    MaxEvents = 2
    MaxConnections = 2
INVARIANTS HandoffHasNoGap
PROPERTY LiveGetsAll
CHECK_DEADLOCK FALSE
