SPECIFICATION Spec
CONSTANTS
  Text <- MCText
  Blank = ""
  TrimSpace <- MCTrimSpace
  ParseRFC3339 <- MCParseRFC3339
  NotATime = NotATime
  NotJSON = NotJSON
  NoSignature = NoSignature
  NotHex = NotHex
  OurSecret = OurSecret
  OtherSecret = OtherSecret
  Secrets = {OurSecret, OtherSecret}
  SigningSecret = OurSecret
  NoPayment = NoPayment
  NoRequest = NoRequest
  NoEvent = NoEvent
  h1 = h1
  h2 = h2
  h3 = h3
  Handlers = {h1}
  Requests <- SameInstant
  UnstorableBodies = {}
  UnindexableIDs = {}
  Resolution = 2
  MetricsEnabled = FALSE
  MaxDeliveries = 1
  MaxFaults = 0
  MaxOrphans = 0
INVARIANTS
  EqualTimestampSkipsUpsert
CHECK_DEADLOCK FALSE
