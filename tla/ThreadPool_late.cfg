SPECIFICATION Spec
CONSTANTS
  Workers = {w1, w2}
  Callers = {c1, c2}
  InitCaller = c1
  Jobs = {j1, j3}
  PersistentJobs = {j3}
  Priorities = {"LOW"}
  InitAttr <- ZeroToTwo
  NewAttrs <- Resized
  StatsCallers = {c2}
  NoThread = NoThread
  NoJob = NoJob
  AgeCap = 1
  CreateCanFail = TRUE
  AllocCanFail = TRUE
  LateCalls = TRUE
  c1 = c1
  c2 = c2
  w1 = w1
  w2 = w2
  w3 = w3
  j1 = j1
  j2 = j2
  j3 = j3
SYMMETRY Symmetry
INVARIANTS MutualExclusion CountersAgree
CHECK_DEADLOCK FALSE
PROPERTIES ImplementsJobPool
