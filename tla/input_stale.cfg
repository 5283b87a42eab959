SPECIFICATION Spec
CONSTANTS
  t1 = t1
  t2 = t2
  Touch = {t1, t2}
  Keyboard = keyboard
  MaxBuffered = 0
  MaxSessions = 2
  MaxInputs = 2
INVARIANTS NoStaleInput
\* the user puts the phone down
CHECK_DEADLOCK FALSE
