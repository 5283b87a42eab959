\* Sessions: one desktop, two phones, four connections, two sessions, no auth.
SPECIFICATION Spec
CONSTANTS
  desk = desk
  phoneA = phoneA
  phoneB = phoneB
  Conns = {c1, c2, c3, c4}
  Devices = {desk, phoneA, phoneB}
  Identities <- OneDesktopTwoPhones
  Keys = {}
  PairIds = {}
  SessionIds = {s1, s2}
  AuthMode = "open"
  Durable = TRUE
  MaxAuthFailures = 2
  MaxProofs = 0
  NoConn = NoConn
  NoKey = NoKey
  NoIdentity = NoIdentity
SYMMETRY Symmetry
VIEW WithoutOut
INVARIANTS OneOpenSessionPerDevice OpenSessionEndsAreLive RequestsAreLive RoutingIsExact
PROPERTIES CloseIsAnnounced RequestsAreAnswered SignalsStayInTheirSession
