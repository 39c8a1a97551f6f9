CONSTANTS
    alice = alice
    bob = bob
    carol = carol
    scan = scan
    recv1 = recv1
    recv2 = recv2
    recv3 = recv3
    NoOwner = NoOwner
    Multiple = Multiple
    Path <- FlatPaths
    Lists <- DeepRemovalLists
    LocalList <- FlatLocal
    Owner = {alice, bob, carol}
    Call = {scan, recv1, recv2}
    ScanCall = scan
SPECIFICATION Spec
INVARIANTS OnlyRemovedFilesAreGone
CHECK_DEADLOCK FALSE
