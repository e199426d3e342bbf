CONSTANTS
  attacher = attacher
  worker = worker
  t1 = t1
  t2 = t2
  m1 = m1
  m2 = m2
  NULL = NULL
  Threads <- MCThreads
  AttachThread = attacher
  Traces <- MCTraces
  Methods <- MCMethods
  Frames <- MCFrames
  TraceHash <- MCTraceHash
  MethodHash <- MCMethodHash
  MAX_CALLTRACES = 2
  Produced <- MCTraces
  MaxSignals = 2
SPECIFICATION Spec
INVARIANTS
  SurvivesStop
CHECK_DEADLOCK FALSE
