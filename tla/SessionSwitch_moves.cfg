CONSTANTS
  p = p
  q = q
  a = a
  b = b
  c = c
  Procs = {p, q}
  Roots = {a, b, c}
  First <- MCFirst
  MaxSwitches = 3
  MaxEvents = 2
  MaxFaults = 2
  None = None
SPECIFICATION Spec
INVARIANTS WritesUnderLease InOneSession EventsLoggedOnce
CHECK_DEADLOCK FALSE
