SPECIFICATION Spec
CONSTANTS
  Backends = {"bgv", "dghv", "rowcol", "batched"}
  MaxN = 9
  MaxT = 33
  Keys <- BoundaryKeys
  IntValues = 512
  kMaxRingDimension = 256
  NodeLists <- Lists
  Minimums = {17, 129}
  CheckedIn <- Shipped
  CheckedInNodes <- ShippedNodes
  LastVersion = 2
  SecureRing <- Rings
  MaxRuns = 2
INVARIANTS
  TypeOK
  BudgetSuffices
  NoiseFits
  SavedIsServed
PROPERTIES
  GeneratorReturns
