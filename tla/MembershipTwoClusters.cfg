CONSTANTS
    a = a
    b = b
    c = c
    Node = {a, b}
    ClusterName <- TwoClusters
    Hears <- Everybody
    MaxFaults = 0
    MaxJoins = 0
SPECIFICATION Spec
INVARIANTS ClustersStaySeparate
CHECK_DEADLOCK FALSE
