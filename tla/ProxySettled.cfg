CONSTANTS
    Owner = {a, b, c}
    NoOwner = NoOwner
    Multiple = Multiple
    MaxTime = 2
    MaxChanges = 0
    MaxRestarts = 0
SPECIFICATION Spec
SYMMETRY Symmetric
CONSTRAINT Unanswered
INVARIANTS NoRedirectLoop ReadableOnceSettled
CHECK_DEADLOCK FALSE
