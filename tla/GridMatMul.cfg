SPECIFICATION FairSpec
CONSTANTS
  N = 3
  P = 4
  Threads = 2
  Program <- ThreeCalls
  Inputs <- Graphs
CHECK_DEADLOCK FALSE
INVARIANTS TypeOK BlocksMatchProduct
PROPERTIES ImplementsBarrier Termination
