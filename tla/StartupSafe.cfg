SPECIFICATION Spec
CONSTANTS
  Keys <- MCKeys
  Texts = {t1, t2}
  Blank = Blank
  MaxLines = 3
INVARIANTS
  ConfigAsWritten
  ServesConfigured
CHECK_DEADLOCK FALSE
