CONSTANTS
  j1 = j1
  j2 = j2
  j3 = j3
  p = p
  q = q
  None = None
  Tabs <- MCTabs
  Pids <- MCPids
  PidOf <- MixedPids
  MaxPresses = 1
SPECIFICATION FairSpec
PROPERTIES
  LoneTabConnects
  CloseFreesJVM
CHECK_DEADLOCK FALSE
