SPECIFICATION FairSpec
CONSTANTS
  Events = {e1, e2, e3}
  PersistentEvents = {e3}
  Callers = {c1, c2}
  InitCaller = c1
  Timer = Timer
  NoThread = NoThread
  Delays = {1, 2}
  MaxTime = 2
  PoolCanRefuse = TRUE
  AllocCanFail = TRUE
  LateCalls = FALSE
  c1 = c1
  c2 = c2
  e1 = e1
  e2 = e2
  e3 = e3
INVARIANTS QueueRight NoOversleep
PROPERTIES EventsHandled TimerServes
CHECK_DEADLOCK FALSE
