\* Pairing behind device authentication in required mode, with a registry that
\* a restart empties.
SPECIFICATION Spec
CONSTANTS
  desk = desk
  phoneA = phoneA
  phoneB = phoneB
  Conns = {c1, c2, c3}
  Devices = {desk, phoneA}
  Identities <- OneDesktopOnePhone
  Keys = {k1}
  PairIds = {p1, p2}
  SessionIds = {}
  AuthMode = "required"
  Durable = FALSE
  MaxAuthFailures = 2
  MaxProofs = 1
  NoConn = NoConn
  NoKey = NoKey
  NoIdentity = NoIdentity
SYMMETRY Symmetry
VIEW WithoutOut
INVARIANTS OpenPairingsAreProved OneOpenPairingPerDesktop OpenPairingEndsAreLive
PROPERTIES PairingIsDecidedOnce
