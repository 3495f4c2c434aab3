\* Two consents authorized one after the other by one client, no restart.
SPECIFICATION FairSpec
CONSTANTS
  Calls = {k1}
  Consents = {c1, c2}
  States = {s1, s2}
  Codes = {x1, x2}
  None = None
  ForeignState = ForeignState
  EmptyState = EmptyState
  PairedInputs = TRUE
  CanRestart = FALSE
PROPERTIES
  AuthorizedConsentReadable
