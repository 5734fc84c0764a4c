SPECIFICATION Spec
CONSTANTS
  n1 = n1  n2 = n2  e1 = e1  e2 = e2  m1 = m1  m2 = m2  m3 = m3  s1 = s1
  Node = {n1, n2}
  Endpoint = {e1, e2}
  MessageId = {m1, m2}
  Subject = {s1}
  Header <- OnlineHeader
  Blocking = TRUE
  EpHash <- MCEpHash
  MessageHash <- MCMessageHash
  OverflowPolicy = "None"
  OverflowSize = 1
  SendNodes = {n1}
  Host <- MCHost
  InterestChoices <- OneInterest
  MaxSends = 1
  MaxInterestUpdates = 0
  ExpireIds = {}
  AckChoices = {"Processed", "Failed"}
  MayDelete = {}
  MayDrop = {}
  MaxLag = 2
  ClockStep <- StrictClock
  LossyReports = FALSE
INVARIANTS
  BlockingOneAtATime NothingForgotten OkSound
CHECK_DEADLOCK FALSE
