CONSTANTS
  Pairs = {p1, p2}
  MaxChanges = 2
  MaxQueue = 3
SPECIFICATION Spec
INVARIANT MarketsUniqueKey
