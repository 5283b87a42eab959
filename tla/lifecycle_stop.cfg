SPECIFICATION Spec
CONSTANTS
  t1 = t1
  t2 = t2
  t3 = t3
  Tasks = {t1, t2, t3}
  Orphan = orphan
  MaxEvents = 2
INVARIANT StopIsClean
\* the user leaves the browser alone
CHECK_DEADLOCK FALSE
