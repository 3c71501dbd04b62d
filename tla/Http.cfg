CONSTANTS
  Responses <- MCResponses
  FewResponses <- MCFewResponses
  Requests <- MCRequests
  Bodies <- MCBodies
  ReadSizes = {2, 20}
  Timeouts = {1}
  MaxContentLength = 1
  MaxBody = 10
  MaxCalls = 1
  IntBits = 5
SPECIFICATION FairSpec
INVARIANTS MessagesRight ParserStaysInside BodiesArrive SocketsClosed
PROPERTIES CallsReturn
CHECK_DEADLOCK FALSE
