SPECIFICATION FairSpec
CONSTANTS
  Uids = {u1, u2}
  Nodes = {n1, n2}
  Null = Null
  Callbacks = {c1}
  AdvrTimeOut = 5
  Incr = 3
  DevNums = {0, 1, 2}
  MaxCommands = 1
INVARIANTS ListSafe
PROPERTIES SilentOnesLeave StopEnds
CHECK_DEADLOCK FALSE
