CONSTANTS
  MaxClients = 2
  Orders = {1}
  MaxVersion = 3
  Balances = {b1, b2}
  NoBalance = NoBalance
  MaxQueue = 2
  MaxChan = 2
  MaxDrops = 2
  MaxCrashes = 1
SYMMETRY MCSymmetry
SPECIFICATION Spec
INVARIANT PegStatusDelivered
