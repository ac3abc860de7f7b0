SPECIFICATION Spec
CONSTANTS
  Text <- MCText
  Blank = ""
  TrimSpace <- MCTrimSpace
  ParseRFC3339 <- MCParseRFC3339
  NotATime = NotATime
  NotJSON = NotJSON
  NoSignature = NoSignature
  NotHex = NotHex
  OurSecret = OurSecret
  OtherSecret = OtherSecret
  Secrets = {OurSecret, OtherSecret}
  SigningSecret = OurSecret
  NoPayment = NoPayment
  NoRequest = NoRequest
  NoEvent = NoEvent
  h1 = h1
  h2 = h2
  h3 = h3
  Handlers = {h1}
  Requests <- PairRequests
  UnstorableBodies = {}
  UnindexableIDs = {}
  Resolution = 1
  MetricsEnabled = FALSE
  MaxDeliveries = 2
  MaxFaults = 1
  MaxOrphans = 0
INVARIANTS
  AckedIsNotLost
CHECK_DEADLOCK FALSE
