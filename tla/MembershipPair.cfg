CONSTANTS
    a = a
    b = b
    c = c
    Node = {a, b}
    ClusterName <- OneCluster
    Hears <- Everybody
    MaxFaults = 2
    MaxJoins = 1
SPECIFICATION FairSpec
INVARIANTS TypeOK  PendingGreetRuns DoneIsMutual
PROPERTIES OneScheduledGreeting MembershipCompletes GreetedUnlessFailed
CHECK_DEADLOCK FALSE
