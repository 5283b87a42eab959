SPECIFICATION Spec
CONSTANTS
  t1 = t1
  t2 = t2
  t3 = t3
  Tasks = {t1, t2, t3}
  Orphan = orphan
  MaxEvents = 4
INVARIANTS OffMeansOff OnMeansOn ControlMeansSession StopIsArmed
PROPERTIES LocalConsent Settles StopReachesIdle
\* the user leaves the browser alone
CHECK_DEADLOCK FALSE
