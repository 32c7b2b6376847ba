\* One handler never ends; the server socket fails once.
CONSTANTS
  w1 = w1
  w2 = w2
  c1 = c1
  c2 = c2
  c3 = c3
  Workers = {w1, w2}
  Clients = {c1, c2, c3}
  Readers = {}
  NoTask = NoTask
  Wrap = 16
  Backlog = 2
  MaxFaults = 1
  Stuck = {c1}
SPECIFICATION Spec
CHECK_DEADLOCK FALSE
INVARIANTS
  OneHandler
  JoinedIsQuiet
PROPERTIES
  StopEnds
  ServerRecovers
  OthersAreServed
