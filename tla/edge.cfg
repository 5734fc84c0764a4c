SPECIFICATION FairSpec
CONSTANTS
  c1 = c1
  c2 = c2
  p1 = p1
  p2 = p2
  n1 = n1
  e1 = e1
  m1 = m1
  Session = {c1, c2}
  Peer = {p1, p2}
  Server = n1
  Node = {n1, p1, p2}
  Endpoint = {e1}
  MessageId = {m1}
  Subject = {"s"}
  TopicCode = {"t", "u"}
  Loaded = "t"
  Header <- MCHeader
  EpHash <- MCEpHash
  MessageHash <- MCMessageHash
  PeerChoices <- MCPeerChoices
  Denied <- MCDenied
  InterestChoices <- MCInterestChoices
  AckChoices = {"Processed"}
  MayAck = {c2}
  Blocking = FALSE
  OverflowPolicy = "None"
  OverflowSize = 1
  Outbound = 2
  MaxCalls <- MCMaxCalls
  TopicChoices <- MCTopicChoices
  MaxFaults = 1
INVARIANTS TypeOK OwnAnswer AnswerUnderWay LeaversSwept OkFromOwnPeer
PROPERTY Settles
CHECK_DEADLOCK FALSE
