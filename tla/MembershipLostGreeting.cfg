CONSTANTS
    a = a
    b = b
    c = c
    Node = {a, b}
    ClusterName <- OneCluster
    Hears <- Everybody
    MaxFaults = 1
    MaxJoins = 0
SPECIFICATION FairSpec
PROPERTIES EveryPeerGreeted
CHECK_DEADLOCK FALSE
