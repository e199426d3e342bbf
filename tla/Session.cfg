CONSTANTS
  j1 = j1
  j2 = j2
  j3 = j3
  p = p
  q = q
  None = None
  Tabs <- MCTabs
  Pids <- OnePid
  PidOf <- SamePid
  MaxPresses = 4
SPECIFICATION Spec
INVARIANTS
  TypeOK
  ResultsAreOwn
  OneTabPerAgent
  SessionIsSampled
  ButtonsTrackAgent
  NoResultLost
CHECK_DEADLOCK FALSE
