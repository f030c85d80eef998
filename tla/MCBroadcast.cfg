CONSTANTS
  Txids = {t1, t2, t3}
  NoTx = NoTx
  MaxCrashes = 1
SYMMETRY MCSymmetry
SPECIFICATION Spec
INVARIANT TypeOK
PROPERTY LedgerRefined
INVARIANT NoRebroadcast
INVARIANT BroadcastTraceable
PROPERTY ConfirmedStaysConfirmed
