SPECIFICATION Spec
CONSTANTS
    fast = fast
    slow = slow
    Groups <- MCGroups
    Interval <- MCInterval
    RegisterWait = 2
    SpareWait = 2
    MaxTime = 5
INVARIANTS
    ChecksAfterWait
