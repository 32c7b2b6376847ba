\* The comment on clients that have gone, checked against the code.
CONSTANTS
  PROTO_VERSION = 1
  StreamSet <- Orderly
  StatusTexts <- Texts
  Clients = {"foreign"}
  MaxCalls = 0
  BUFSIZE = 8
  DATABUFSIZE = 17
SPECIFICATION Spec
CHECK_DEADLOCK FALSE
PROPERTY ClosedConnectionEnds
