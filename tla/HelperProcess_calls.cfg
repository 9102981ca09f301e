\* Three requests: one that may be aborted, one behind it, one in flight.
CONSTANTS
  Requests = {a, b, c}
  Abortable = {a}
  None = None
SPECIFICATION FairSpec
INVARIANTS OneHelperAlive
PROPERTIES AbortedActionsRunOut KeepsPromises CallsSettle
CHECK_DEADLOCK FALSE
