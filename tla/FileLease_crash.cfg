\* Processes that contend, fail and die anywhere.
CONSTANTS
  Acquirers = {p1, p2, p3}
  Before = Before
  Nobody = Nobody
  MaxFailures = 1
SPECIFICATION FairSpec
INVARIANTS LiveLeaseKept
PROPERTIES DeadLeaseFreed
CHECK_DEADLOCK FALSE
