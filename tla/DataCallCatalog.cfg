\* One call of every operation of every generated client and every helper,
\* with every reply, or none.
SPECIFICATION FairSpec
CONSTANTS
  Calls = {k1}
  Catalog <- WholeCatalog
  Replies <- ManyReplies
  Tokens = {t1}
  None = None
INVARIANTS
  DTypeOK
  RefusalNotSuccess
  GatewayHeadersSent
  CallerFieldsArrive
PROPERTIES
  CallsReturn
CHECK_DEADLOCK FALSE
