\* Not a run: two processes, both evicted in their round of tools, on one file.
CONSTANTS
  Procs = {p, q}
  Creator = p
  Threads = {t1}
  MaxIds = 5
  MaxRetries = 0
  MaxFaults = 0
  MaxLosses = 2
  None = None
SPECIFICATION Spec
INVARIANTS EveryRequestInOrder
CHECK_DEADLOCK FALSE
