SPECIFICATION BackendSpec
CONSTANTS
  N = 4
  R = 8
  Threads = 2
  Inputs <- AllVectorPairs
CHECK_DEADLOCK FALSE
INVARIANTS TypeOK Replicated KeysInstalled RowsAndColsAreProduct
PROPERTIES ImplementsMatMul
