CONSTANTS
    Owner = {a, b}
    NoOwner = NoOwner
    Multiple = Multiple
    MaxTime = 2
    MaxChanges = 1
    MaxRestarts = 1
SPECIFICATION FairSpec
INVARIANTS OwnersCanBeAsked NeverOlderCopy
PROPERTIES ReadsEnd ImplementsExchange
CHECK_DEADLOCK FALSE
