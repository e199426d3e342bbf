CONSTANTS
  MAX_CALLTRACES = 2
  t1 = t1
  t2 = t2
  t3 = t3
  m1 = m1
  m2 = m2
  m3 = m3
  NULL = NULL
  Traces <- MCTraces
  Methods <- MCMethods
  Frames <- MCFrames
  TraceHash <- MCTraceHash
  MethodHash <- MCMethodHash
  MaxCalls = 4
SPECIFICATION Spec
INVARIANTS
  TypeOK
  OneSlotEach
  ExactWhenFits
  
PROPERTY
  KeepsContract
CHECK_DEADLOCK FALSE
