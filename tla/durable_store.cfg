SPECIFICATION FairSpec
CONSTANTS
  n1 = n1
  n2 = n2
  t1 = t1
  t2 = t2
  m1 = m1
  m2 = m2
  m3 = m3
  Node = {n1}
  TopicCode = {t1}
  MessageId = {m1, m2}
  TopicOf <- MCTopicOf
  OverflowSize = 1
  Loaders = {n1}
  Creators = {n1}
  PageSize = 1
  MaxLag = 2
  MaxDisturbances = 2
CHECK_DEADLOCK FALSE
INVARIANTS TypeOK CommandsServed StoreFollowsQueue
PROPERTIES LoadedOnce EventuallyArchived
