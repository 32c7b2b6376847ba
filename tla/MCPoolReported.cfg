\* A documented promise of thread_pool, checked against the code.
CONSTANTS
  w1 = w1
  w2 = w2
  t1 = t1
  t2 = t2
  t3 = t3
  Workers = {w1, w2}
  Tasks = {t1, t2, t3}
  owner = owner
  Indices = {0}
  Owner = owner
  status = status
  Readers = {owner, status}
  NoTask = NoTask
  Wrap = 16
INIT Init
NEXT Next
CHECK_DEADLOCK FALSE
INVARIANT ReportedRunningIsPossible
