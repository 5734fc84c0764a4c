SPECIFICATION FairSpec
CONSTANTS
  n1 = n1  n2 = n2  e1 = e1  e2 = e2  m1 = m1  m2 = m2  m3 = m3  s1 = s1
  Node = {n1}
  Endpoint = {e1}
  MessageId = {m1, m2, m3}
  Subject = {s1}
  Header <- MixedHeader
  Blocking = TRUE
  EpHash <- MCEpHash
  MessageHash <- MCMessageHash
  OverflowPolicy = "RejectNew"
  OverflowSize = 2
  SendNodes = {n1}
  Host <- MCHost
  InterestChoices <- OneInterest
  MaxSends = 1
  MaxInterestUpdates = 0
  ExpireIds = {}
  AckChoices = {"Processed"}
  MayDelete = {}
  MayDrop = {e1}
  MaxLag = 1
  ClockStep <- StrictClock
  LossyReports = FALSE
PROPERTIES
  EventuallyResolved
CHECK_DEADLOCK FALSE
