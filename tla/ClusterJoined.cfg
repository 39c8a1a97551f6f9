CONSTANTS
    a = a
    b = b
    c = c
    Node = {a, b}
    ClusterName <- OneCluster
    Hears <- BHearsA
    MaxFaults = 1
    MaxJoins = 1
    MaxFailedPushes = 1
SPECIFICATION Spec
CONSTRAINT OneFailure
INVARIANTS PushedToEveryPeer OneOfTwoMerges OnePushInFlight
PROPERTIES  ImplementsExchange
CHECK_DEADLOCK FALSE
