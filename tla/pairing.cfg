\* The code has the server's origin, as in the tests of the phone.
SPECIFICATION Spec
CONSTANTS
  phoneA = phoneA
  phoneB = phoneB
  Phones <- TwoPhones
  FillsOrigin = TRUE
  MaxCreates = 2
  MaxJoins = 2
SYMMETRY Symmetry
VIEW View
INVARIANTS TypeOK SecretIsSpentOnce PairingIsMutual StartIsAnswered StoreFollowsWishes
\* people may simply stop
CHECK_DEADLOCK FALSE
