CONSTANTS
    alice = alice
    bob = bob
    carol = carol
    scan = scan
    recv1 = recv1
    recv2 = recv2
    recv3 = recv3
    NoOwner = NoOwner
    Multiple = Multiple
    Path <- MorePaths
    Lists <- MoreLists
    LocalList <- FlatLocal
    Owner = {alice, bob, carol}
    Call = {scan, recv1, recv2}
    ScanCall = scan
SPECIFICATION FairSpec
INVARIANTS TypeOK NewestWins DirOwnerSound NoAbandonedPlaceholder ListedFromRoot SomeCallGoesOn OnlyRemovedFilesAreGone
PROPERTIES NeverOlder LockedDirStable ImplementsLastWriter FilesSettle UpdateReturns
CHECK_DEADLOCK FALSE
