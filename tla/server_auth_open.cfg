\* Trust on first use: in open mode the first key proved for a device is enrolled.
SPECIFICATION Spec
CONSTANTS
  desk = desk
  phoneA = phoneA
  phoneB = phoneB
  Conns = {c1, c2, c3}
  Devices = {desk}
  Identities <- OneDesktop
  Keys = {k1, k2}
  PairIds = {}
  SessionIds = {}
  AuthMode = "open"
  Durable = TRUE
  MaxAuthFailures = 2
  MaxProofs = 3
  NoConn = NoConn
  NoKey = NoKey
  NoIdentity = NoIdentity
SYMMETRY Symmetry
VIEW WithoutOut
INVARIANTS TypeOK ProvedKeyIsRegistered
PROPERTIES KeysAreNeverReplaced
