\* One tool call at a time beside one browser authorization; two consents,
\* two codes, two browser requests.
SPECIFICATION Spec
CONSTANTS
  Calls = {k1}
  Consents = {c1, c2}
  States = {s1, s2}
  Codes = {x1, x2}
  None = None
  ForeignState = ForeignState
  EmptyState = EmptyState
  Listeners = {l1}
  Addrs = {a1}
  Requests = {r1}
  RedirectAddr = a1
  OtherMark = OtherMark
SYMMETRY JSymmetry
INVARIANTS
  JTypeOK
  BothBound
  FlowsApart
PROPERTIES
  KeepsPromise
CHECK_DEADLOCK FALSE
