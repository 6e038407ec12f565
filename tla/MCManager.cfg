SPECIFICATION MgrSpec
CONSTANTS
    Nodes = {n1, n2, n3}
    None = None
    InitialPeers <- MeshPeers
    Rewiring <- NoPairs
    MaxTerm = 8
    MaxLog = 2
    MaxCycles = 2
    Order <- OneOrder
    MaxPolls = 2
INVARIANTS
    AtMostOneLeader
PROPERTIES
    AnswersNewestLeader
    IsOneLeadership
CHECK_DEADLOCK FALSE
