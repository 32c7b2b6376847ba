\* What a reload does to the list of servers.
CONSTANTS
  Instances = {i1}
  PidFiles = {1, 2}
  Files <- TwoFiles
SPECIFICATION Spec
CHECK_DEADLOCK FALSE
PROPERTY ReloadKeepsServers
