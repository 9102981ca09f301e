\* Safety and liveness of the submit queue, with compression and session
\* switching: at most one replacement of the conversation.
CONSTANTS
  p1 = p1
  p2 = p2
  b1 = b1
  b2 = b2
  Prompts = {p1, p2}
  Runs = {b1, b2}
  Slots = 1
  Nobody = Nobody
  MaxConv = 1
SPECIFICATION FairSpec
CONSTRAINT Numbered
INVARIANTS ReportsStayHome StorageIsQuiet
PROPERTIES StartsInOrder SubmissionsSettle RunsEnd
CHECK_DEADLOCK FALSE
