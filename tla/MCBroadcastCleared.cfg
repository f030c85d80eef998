CONSTANTS
  Txids = {t1, t2, t3}
  NoTx = NoTx
  MaxCrashes = 1
SPECIFICATION Spec
PROPERTY CreatedClearedAfterSend
