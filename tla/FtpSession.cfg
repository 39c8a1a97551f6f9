CONSTANTS
    Socket = {1, 2}
    NoSocket = 0
    Name = {"d"}
    TreePath <- Paths
    User = {u}
    NoUser = NoUser
    Param <- Params
    Offset = {0, 1}
    MaxBlocks = 2
    FromIPv6 = FALSE
SPECIFICATION FairSpec
INVARIANTS TypeOK DataConnFresh
PROPERTIES OnlyUsersReach TransfersReportTruly  LetGoClosed CommandsEnd HungUpSessionsEnd
CHECK_DEADLOCK FALSE
