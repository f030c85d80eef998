CONSTANTS
  SubIds = {s1, s2, s3}
  QuoteIds = {q1, q2}
  NoSub = NoSub
  NoQid = NoQid
  QUOTE_TIMEOUT = 1
  TTLs = {1, 2}
  MaxQueue = 2
SPECIFICATION Spec
PROPERTY TakerSignBeforeExpiry
