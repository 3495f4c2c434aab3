\* Two calls that want the redirect address one after the other, two codes and
\* two browser requests: own redirects, stale ones, reloads, error redirects,
\* icons.  No symmetry, for liveness.
SPECIFICATION CFairSpec
CONSTANTS
  Listeners = {l1, l2}
  Addrs = {a1}
  RedirectAddr = a1
  Requests = {r1, r2}
  Codes = {x1, x2}
  Marks <- MCMarks
  OtherMark = OtherMark
  None = None
INVARIANTS
  CTypeOK
  OwnRedirectOnly
PROPERTIES
  KeepsPromise
  CallEnds
CHECK_DEADLOCK FALSE
