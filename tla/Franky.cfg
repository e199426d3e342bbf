CONSTANTS
  None = None
  Classes = {"c1", "c2", "c3"}
  MaxEntries = 2
  CompiledMethods = {"m1", "m2", "m3"}
  Addrs = {"a1", "a2", "a3"}
  Null = "null"
  NoMethod = "no method"
  MaxLoads = 3
  root = root
  panel = panel
  tab = tab
  Lifetimes = {root, panel, tab}
  RootLifetime = root
  Parent <- MCParent
  Actions = {x1, x2, x3}
  Samples <- MCSamples
  MaxSamples = 3
  Widths = {3, 10}
  MaxClicks = 3
  SourceMethods = {"run(I)", "run(J)", "stop()"}
  NameOf <- MCNameOf
  Jvms = {"v", "w"}
  MethodIds = {"a", "b"}
  MethodOf <- MCMethodOf
  Projects <- MCProjects
  NULL_PSI_METHOD = "null"
  MaxFrames = 4
  MaxOpen = 2
SPECIFICATION Spec
INVARIANTS
  
  NoDoubleFree
  ReportSound
  
  TornDown
  CostsAddUp
  
  WrongLabelIsReused
CHECK_DEADLOCK FALSE
SYMMETRY AnyOrder
