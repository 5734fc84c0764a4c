SPECIFICATION FairSpec
CONSTANTS
  Node = {1, 2, 3}
  Calls <- MCCalls
  MaxCalls = 2
  MaxStreams = 2
  MaxFaults = 1
INVARIANTS TypeOK OwnResponse CallUnderWay
PROPERTIES LockReleased
CHECK_DEADLOCK FALSE
