SPECIFICATION Spec
CONSTANTS
  n1 = n1
  n2 = n2
  t1 = t1
  t2 = t2
  m1 = m1
  m2 = m2
  m3 = m3
  Node = {n1}
  TopicCode = {t1, t2}
  MessageId = {m1, m3}
  TopicOf <- MCTopicOf
  OverflowSize = 1
  Loaders = {n1}
  Creators = {n1}
  PageSize = 1
  MaxLag = 2
  MaxDisturbances = 0
CHECK_DEADLOCK FALSE
INVARIANT FiledUnderOwnTopic
