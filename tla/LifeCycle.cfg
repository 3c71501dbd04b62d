SPECIFICATION FairSpec
CONSTANTS
  Threads = {t1, t2}
  NumHandle = 3
  InterfaceLists <- MCInterfaceLists
  IfNames = {"eth1", "wlan0"}
  DirNames = {"web"}
  MaxInits = 2
INVARIANTS SessionsRight DoneOnce RightInterface
PROPERTIES CallsReturn
CHECK_DEADLOCK FALSE
