CONSTANTS
  Pairs = {p1, p2, p3}
  MaxChanges = 4
  MaxQueue = 3
SPECIFICATION LiveSpec
PROPERTY MarketsConverge
