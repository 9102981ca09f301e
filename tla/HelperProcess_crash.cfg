\* A request that falls between the exit of the helper and its close event.
CONSTANTS
  Requests = {a, b, c}
  Abortable = {}
  None = None
SPECIFICATION Spec
INVARIANTS PendingDiesWithItsProcess
CHECK_DEADLOCK FALSE
