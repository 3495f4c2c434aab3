\* Two calls that race with each other, with token replies and SetToken.
SPECIFICATION Spec
CONSTANTS
  Calls = {k1, k2}
  Catalog <- TwoOperations
  Replies <- FewReplies
  Tokens = {t1}
  None = None
SYMMETRY DSymmetry
INVARIANTS
  BearerCurrent
PROPERTIES
  TokenChanges
CHECK_DEADLOCK FALSE
