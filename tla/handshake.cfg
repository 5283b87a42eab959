\* Two sessions: the second meets what the first has left behind.
SPECIFICATION Spec
CONSTANTS
  MaxSessions = 2
  Stored <- StoredKeys
INVARIANTS TypeOK ControlIsFresh HonestEndsVerify
PROPERTIES AuthIsMutual
\* the last session may simply be over
CHECK_DEADLOCK FALSE
