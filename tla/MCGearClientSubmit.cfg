\* What the PHP client reports of a query, checked against the code.
CONSTANTS
  PROTO_VERSION = 1
  StreamSet <- Orderly
  StatusTexts <- Texts
  Clients = {"submits"}
  MaxCalls = 1
  BUFSIZE = 8
  DATABUFSIZE = 17
INIT Init
NEXT Next
CHECK_DEADLOCK FALSE
INVARIANT SubmittedIsQueued
