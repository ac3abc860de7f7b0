SPECIFICATION Spec
CONSTANTS
  Text <- MCText
  Blank = ""
  TrimSpace <- MCTrimSpace
  ParseRFC3339 <- MCParseRFC3339
  NotATime = NotATime
  NotJSON = NotJSON
  NoSignature = NoSignature
  NotHex = NotHex
  OurSecret = OurSecret
  OtherSecret = OtherSecret
  Secrets = {OurSecret, OtherSecret}
  SigningSecret = OurSecret
  NoPayment = NoPayment
  NoRequest = NoRequest
  NoEvent = NoEvent
  h1 = h1
  h2 = h2
  h3 = h3
  Handlers = {h1, h2}
  Requests <- MetricsRequests
  UnstorableBodies = {}
  UnindexableIDs <- TooLong
  Resolution = 1
  MetricsEnabled = TRUE
  MaxDeliveries = 1
  MaxFaults = 1
  MaxOrphans = 1
SYMMETRY Symmetry
INVARIANTS
  MetricsBalance
  MetricsMatchTables
  PaymentProvenance
CHECK_DEADLOCK FALSE
