SPECIFICATION Spec
CONSTANTS
    N = 2
    Bounds <- MCBounds
    MaxPrepares = 2
    Missing = Missing
    Torn = Torn
    Garbage = Garbage
    Rejected = Rejected
INVARIANT KeysetIdCatchesMixups
