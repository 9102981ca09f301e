\* A call whose turn is cancelled before its deadline fires.
CONSTANTS
  t1 = t1
  t2 = t2
  b1 = b1
  n1 = n1
  m1 = m1
  Top = {t1, t2}
  Launched = {b1}
  Nested = {n1}
  Parent <- MCParent
  Main = {m1}
  Askers = {n1, m1}
  Budgeted = {t1, t2, n1, b1}
  Permits = 1
SPECIFICATION Spec
INVARIANTS CancelledStaysSilent
CHECK_DEADLOCK FALSE
