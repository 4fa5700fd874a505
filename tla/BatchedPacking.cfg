SPECIFICATION Spec
CONSTANTS
  N = 3
  Capacities = {8, 9, 11}
  Left <- AllMatrices
  Right <- SomeMatrices
CHECK_DEADLOCK FALSE
INVARIANTS TypeOK MultipliesOrRefuses
