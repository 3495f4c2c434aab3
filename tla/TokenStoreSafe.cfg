\* Two workers, two tokens, long enough for a token to be issued, received
\* at the time out, and to die; replies from 0 to 60 s.
SPECIFICATION TSpec
CONSTANTS
  Workers = {w1, w2}
  Announced <- MCAnnounced
  Lives = {1}
  Timeout = 2
  Margin = 1
  DurationMax = 8
  MaxTime = 6
  MaxIssued = 2
  None = None
  NoTime = NoTime
SYMMETRY TSymmetry
INVARIANTS
  TTypeOK
  GoodMeansAlive
  ExpiredMeansNearEnd
PROPERTIES
  NoRegression
CHECK_DEADLOCK FALSE
