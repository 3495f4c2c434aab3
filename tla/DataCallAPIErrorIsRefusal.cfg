SPECIFICATION Spec
CONSTANTS
  Calls = {k1}
  Catalog <- WholeCatalog
  Replies <- ManyReplies
  Tokens = {t1}
  None = None
INVARIANTS
  APIErrorIsRefusal
CHECK_DEADLOCK FALSE
