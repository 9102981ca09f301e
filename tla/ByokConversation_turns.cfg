CONSTANTS
  Procs = {p, q}
  Creator = p
  Threads = {t1, t2}
  MaxIds = 3
  MaxRetries = 1
  MaxFaults = 1
  MaxLosses = 1
  None = None
SPECIFICATION Spec
INVARIANTS RequestsWellFormed AcceptedKept
PROPERTIES SavedTurnsKept
CHECK_DEADLOCK FALSE
