\* Two consents, three redirects, two concurrent calls; callers copy code and
\* state from one redirect, as docs/connector.md tells them to.
SPECIFICATION Spec
CONSTANTS
  Calls = {k1, k2}
  Consents = {c1, c2}
  States = {s1, s2}
  Codes = {x1, x2, x3}
  None = None
  ForeignState = ForeignState
  EmptyState = EmptyState
  PairedInputs = TRUE
  CanRestart = TRUE
SYMMETRY Symmetry
INVARIANTS
  TypeOK
  ConsentBinding
  NoForeignExchange
  IInv
PROPERTIES
  KeepsPromise
