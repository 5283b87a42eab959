\* Three sockets, so that a reconnection is itself lost; two sessions, so that
\* the second meets what the first has left behind.
SPECIFICATION Spec
CONSTANTS
  MaxSockets = 3
  MaxSessions = 2
INVARIANTS TypeOK EndedIsOver ReconnectingIsDriven ReconnectGivesUp OfferIsTaken
\* a session that has ended stays so
CHECK_DEADLOCK FALSE
