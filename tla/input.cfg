SPECIFICATION Spec
CONSTANTS
  t1 = t1
  t2 = t2
  Touch = {t1, t2}
  Keyboard = keyboard
  MaxBuffered = 1
  MaxSessions = 2
  MaxInputs = 2
INVARIANTS TypeOK NumbersInTurn UrgentOrder EveryOrder RefusedIsRetried
SYMMETRY TouchSymmetry
\* the user puts the phone down
CHECK_DEADLOCK FALSE
