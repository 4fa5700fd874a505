SPECIFICATION Spec
CONSTANTS
  Backends = {"batched"}
  MaxN = 9
  MaxT = 9
  Keys = {}
  IntValues = 512
  kMaxRingDimension = 256
  NodeLists <- JustEight
  Minimums = {17}
  CheckedIn = {}
  CheckedInNodes = {}
  LastVersion = 1
  SecureRing <- Rings
  MaxRuns = 1
INVARIANTS
  HintSuffices
