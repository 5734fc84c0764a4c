SPECIFICATION Spec
CONSTANTS
  n1 = n1  n2 = n2  e1 = e1  e2 = e2  m1 = m1  m2 = m2  m3 = m3  s1 = s1
  Node = {n1, n2}
  Endpoint = {e1, e2}
  MessageId = {m1}
  Subject = {s1}
  Header <- MixedHeader
  Blocking = FALSE
  EpHash <- MCEpHash
  MessageHash <- MCMessageHash
  OverflowPolicy = "None"
  OverflowSize = 1
  SendNodes = {n1}
  Host <- MCHost
  InterestChoices <- OneInterest
  MaxSends = 1
  MaxInterestUpdates = 0
  ExpireIds = {}
  AckChoices = {"Received", "Processed", "Failed"}
  MayDelete = {e2}
  MayDrop = {e2}
  MaxLag = 3
  ClockStep <- StrictClock
  LossyReports = FALSE
INVARIANTS
  TypeOK OkSound ErrSound ReplicaAgreement
PROPERTY
  ImplementsMessaging
CHECK_DEADLOCK FALSE
