SPECIFICATION FairSpec
CONSTANTS
    P = 3
    Faults <- OneRankFaults
PROPERTY ComputeSynchronizes
CHECK_DEADLOCK FALSE
