CONSTANTS
    a = a
    b = b
    c = c
    Node = {a, b}
    ClusterName <- OneCluster
    Hears <- BHearsA
    MaxFaults = 0
    MaxJoins = 0
    MaxFailedPushes = 0
SPECIFICATION FairSpec
PROPERTIES EventuallyConsistent
CHECK_DEADLOCK FALSE
