SPECIFICATION Spec
CONSTANTS
  Workers = {w1, w2, w3}
  Callers = {c1, c2}
  InitCaller = c1
  Jobs = {j1, j2, j3}
  PersistentJobs = {j3}
  Priorities = {"HIGH", "LOW"}
  InitAttr <- OneToTwo
  NewAttrs = {}
  StatsCallers = {}
  NoThread = NoThread
  NoJob = NoJob
  AgeCap = 0
  CreateCanFail = TRUE
  AllocCanFail = FALSE
  LateCalls = FALSE
  c1 = c1
  c2 = c2
  w1 = w1
  w2 = w2
  w3 = w3
  j1 = j1
  j2 = j2
  j3 = j3
SYMMETRY Symmetry
INVARIANTS TypeOK MutexReleased AtMostMaxThreads AtLeastMinThreads ShutdownLeavesNothing
PROPERTIES ImplementsJobPool
CHECK_DEADLOCK FALSE
