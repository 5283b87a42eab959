\* The code as it stands: nothing fills the origin.
SPECIFICATION Spec
CONSTANTS
  phoneA = phoneA
  phoneB = phoneB
  Phones <- TwoPhones
  FillsOrigin = FALSE
  MaxCreates = 1
  MaxJoins = 1
INVARIANTS CodesAreReadable
\* people may simply stop
CHECK_DEADLOCK FALSE
