SPECIFICATION FairSpec
CONSTANTS
    Agents = {alpha, beta, arbiter}
    Words <- SomeWords
    MinVotes = 3
    AheadByK = 40
    Approving <- Yes
    Rejecting <- No
    Answers <- SomeAnswers
    MaxGoals = 2
    MaxAborts = 1
    MaxBlind = 1
INVARIANTS
    GoalTypeOK
    AcceptedOnRecord
PROPERTIES
    AcceptedByThreshold
    GoalsAreDecided
CHECK_DEADLOCK FALSE
