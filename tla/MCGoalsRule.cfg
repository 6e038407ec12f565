SPECIFICATION Spec
CONSTANTS
    Agents = {alpha, beta, arbiter}
    Words <- SomeWords
    MinVotes = 3
    AheadByK = 40
    Approving <- Yes
    Rejecting <- No
    Answers <- SomeAnswers
    MaxGoals = 1
    MaxAborts = 1
    MaxBlind = 1
PROPERTIES
    RoundsFollowTheRule
CHECK_DEADLOCK FALSE
