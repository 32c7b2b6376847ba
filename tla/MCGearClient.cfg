\* Every stream, chunks of 1 to 7 bytes; PHP scripts of two calls.
CONSTANTS
  PROTO_VERSION = 1
  StreamSet <- AllStreams
  StatusTexts <- Texts
  Clients = {"foreign", "submits", "asks"}
  MaxCalls = 2
  BUFSIZE = 8
  DATABUFSIZE = 17
SPECIFICATION Spec
CHECK_DEADLOCK FALSE
INVARIANTS
  TypeOK
  LeftoverBounded
  ChunkingIrrelevant
  AckFollowsQueue
  SuccessLagsByOne
PROPERTIES
  OnlyLeftoversKill
  SilentClientIsLeft
