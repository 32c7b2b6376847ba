\* Refinement and liveness: one connection, two workers, two messages, no symmetry.
CONSTANTS
  w1 = w1
  w2 = w2
  w3 = w3
  m1 = m1
  m2 = m2
  m3 = m3
  m4 = m4
  Output = output
  NoTask = NoTask
  Workers = {w1, w2}
  Readers = {output}
  Msgs = {m1, m2}
  MaxConnections = 1
  NumServers = 2
  MaxFaults = 1
  ObeyWorkRetryCount = TRUE
  WorkRetryCount = 1
  NoConnection = {"null", "throws"}
  Wrap = 16
SPECIFICATION Spec
PROPERTIES
  ImplementsDelivery
  AcceptedIsSettled
  StopLeadsToExit
