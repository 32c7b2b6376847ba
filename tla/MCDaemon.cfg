\* Three processes, started and killed at any moment.
CONSTANTS
  Instances = {i1, i2, i3}
  PidFiles = {1, 2}
  Files <- TwoFiles
SPECIFICATION Spec
CHECK_DEADLOCK FALSE
INVARIANTS
  OneUntilStopped
  RetryLimitNeverObeyed
PROPERTIES
  LockFailsBehindADaemon
  StopCompletes
