SPECIFICATION Spec
CONSTANTS
  Google = {g1, g2}
  Line = {l1, l2}
  Emails = {e1, e2}
  NoEmail = NoEmail
  Browsers = {b1}
  MaxTokens = 3
  MaxTime = 4
SYMMETRY Symmetry
INVARIANTS
  IInv
  JoinedByEmail
CHECK_DEADLOCK FALSE
