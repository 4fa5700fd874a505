SPECIFICATION FairSpec
CONSTANTS
  P = 3
  Indices <- SecondRowBlock
  Calls = 3
INVARIANTS
  TypeOK
  ExactlyOnce
  BoundedBacklog
PROPERTIES
  ImplementsAllReduce
  Termination
CHECK_DEADLOCK FALSE
