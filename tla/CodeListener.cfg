\* One listener, two codes, three requests: enough to fill the buffer again
\* after Wait has taken the first code, with one request left over.  No
\* symmetry, for liveness.
SPECIFICATION LFairSpec
CONSTANTS
  Listeners = {l1}
  Addrs = {a1}
  Requests = {r1, r2, r3}
  Codes = {x1, x2}
  Marks = {m1}
  None = None
INVARIANTS
  LTypeOK
  NoLostCode
PROPERTIES
  FirstCodeKept
  HandlersEnd
  WaitEnds
CHECK_DEADLOCK FALSE
