SPECIFICATION Spec
CONSTANTS
  Node = {1, 2, 3}
  Calls <- MCCalls
  MaxCalls = 2
  MaxStreams = 2
  MaxFaults = 1
INVARIANT SmallerReconnects
CHECK_DEADLOCK FALSE
