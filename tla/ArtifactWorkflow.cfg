SPECIFICATION Spec
CONSTANTS
    N = 2
    Bounds <- MCBounds
    MaxPrepares = 3
    Missing = Missing
    Torn = Torn
    Garbage = Garbage
    Rejected = Rejected
INVARIANTS
    TypeOK
    CompletedPrepareIsAuthoritative
    AcceptedIsOneClosure
    NoFalseRejection
