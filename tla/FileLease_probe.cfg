\* Not a run: mutual exclusion while every process that dies leaves a written lease or none.
CONSTANTS
  Acquirers = {p1, p2, p3}
  Before = Before
  Nobody = Nobody
  MaxFailures = 0
SYMMETRY Symmetry
SPECIFICATION LeaseSpec
INVARIANTS OneHolderUnlessTorn
CHECK_DEADLOCK FALSE
