SPECIFICATION Spec
CONSTANTS
  n1 = n1  n2 = n2  e1 = e1  e2 = e2  m1 = m1  m2 = m2  m3 = m3  s1 = s1
  Node = {n1}
  Endpoint = {e1, e2}
  MessageId = {m2}
  Subject = {s1}
  Header <- DurableHeader
  Blocking = FALSE
  EpHash <- MCEpHash
  MessageHash <- MCMessageHash
  OverflowPolicy = "None"
  OverflowSize = 1
  SendNodes = {n1}
  Host <- MCHost
  InterestChoices <- InterestOrNone
  MaxSends = 1
  MaxInterestUpdates = 1
  ExpireIds = {m2}
  AckChoices = {"Received"}
  MayDelete = {e1}
  MayDrop = {}
  MaxLag = 2
  ClockStep <- StrictClock
  LossyReports = FALSE
INVARIANTS
  DurableTargets DeliveredOnce
CHECK_DEADLOCK FALSE
