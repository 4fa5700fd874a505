SPECIFICATION FairSpec
CONSTANTS
  N = 2
  P = 3
CHECK_DEADLOCK FALSE
INVARIANTS TypeOK BothProducts MessagesMatch NothingPending
PROPERTIES Termination
