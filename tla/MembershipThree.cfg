CONSTANTS
    a = a
    b = b
    c = c
    Node = {a, b, c}
    ClusterName <- OneCluster
    Hears <- Hub
    MaxFaults = 0
    MaxJoins = 0
SPECIFICATION FairSpec
INVARIANTS GossipCloses
PROPERTIES MembershipCompletes
CHECK_DEADLOCK FALSE
