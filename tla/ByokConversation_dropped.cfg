\* Not a run: an answer shown, its save failed, its conversation evicted.
CONSTANTS
  Procs = {p}
  Creator = p
  Threads = {t1}
  MaxIds = 4
  MaxRetries = 0
  MaxFaults = 1
  MaxLosses = 1
  None = None
SPECIFICATION Spec
INVARIANTS EveryAnswerKept
CHECK_DEADLOCK FALSE
