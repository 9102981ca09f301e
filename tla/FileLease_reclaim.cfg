\* Mutual exclusion after a process died inside a reclaim.
CONSTANTS
  Acquirers = {p1, p2, p3}
  Before = Before
  Nobody = Nobody
  MaxFailures = 1
SYMMETRY Symmetry
SPECIFICATION LeaseSpec
INVARIANTS OneHolder
CHECK_DEADLOCK FALSE
