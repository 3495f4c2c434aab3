\* Two consents, one code, two concurrent calls, restarts; callers mix codes,
\* states and consents freely, the state echoed from create_consent included.
\* Two consents for two calls: a third create_consent finds a bank that does
\* not reply, and only the time out can answer it.  No symmetry, for liveness.
SPECIFICATION FairSpec
CONSTANTS
  Calls = {k1, k2}
  Consents = {c1, c2}
  States = {s1, s2}
  Codes = {x1}
  None = None
  ForeignState = ForeignState
  EmptyState = EmptyState
  PairedInputs = FALSE
  CanRestart = TRUE
INVARIANTS
  NoReplay
PROPERTIES
  PendingKept
  CallsAnswered
