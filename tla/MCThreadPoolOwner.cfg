\* Two workers, two tasks, the owner and a status reader; loops over the
\* indices 0 .. 0, 0 .. 2 and 2 .. 2.
CONSTANTS
  w1 = w1
  w2 = w2
  t1 = t1
  t2 = t2
  t3 = t3
  owner = owner
  status = status
  Workers = {w1, w2}
  Tasks = {t1, t2}
  Indices = {0, 2}
  Owner = owner
  Readers = {owner, status}
  NoTask = NoTask
  Wrap = 16
SPECIFICATION Spec
CHECK_DEADLOCK FALSE
INVARIANTS
  TypeOK
  TotalAccounts
  ExactlyOnce
  DestroyedIsQuiet
  FuturesTell
PROPERTIES
  RunningNeverUnderstated
  WaitForTasksDrains
  ResetKeepsTasks
  LoopBodiesDone
  CallsReturn
  PushedIsExecuted
