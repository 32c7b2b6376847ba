\* The log of a message that finds no connection, checked against the code.
CONSTANTS
  w1 = w1
  w2 = w2
  w3 = w3
  m1 = m1
  m2 = m2
  m3 = m3
  m4 = m4
  Output = output
  NoTask = NoTask
  Workers = {w1, w2}
  Readers = {output}
  Msgs = {m1, m2}
  MaxConnections = 1
  NumServers = 2
  MaxFaults = 0
  ObeyWorkRetryCount = TRUE
  WorkRetryCount = 1
  NoConnection = {"throws"}
  Wrap = 16
INIT Init
NEXT Next
INVARIANT NoSilentDrop
