CONSTANTS
  GAP_LIMIT = 2
  MaxUsed = 3
  MaxCrashes = 1
SPECIFICATION Spec
INVARIANT TypeOK
INVARIANT IssuedIncreasing
