SPECIFICATION FairSpec
CONSTANTS
    P = 4
    Faults <- CommonFaults
INVARIANTS
    RunTypeOK
    AgreedStatus
    ExitTellsTheTruth
    PhasesDoNotOverlap
PROPERTY EveryRankReturns
CHECK_DEADLOCK FALSE
