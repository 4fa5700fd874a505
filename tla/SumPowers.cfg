SPECIFICATION Spec
CONSTANTS
  N = 3
  MaxT = 7
INVARIANTS
  TypeOK
  PowersCorrect
  BoundedClosure
  ClosureIsWarshall
