SPECIFICATION FairSpec
CONSTANTS
    n1 = n1
    n2 = n2
    n3 = n3
    Nodes = {n1, n2, n3}
    None = None
    InitialPeers <- MeshPeers
    Rewiring <- SomePairs
    MaxTerm = 2
    MaxLog = 1
INVARIANTS
    TypeOK
    LeaderIdTruthful
PROPERTIES
    VoteOncePerTerm
    EventuallyLeader
