\* Not a run: a thread lost between two cells leaves the next one waiting when
\* there is no deadline.
CONSTANTS
  Queries = {q1}
  Sizes = {1}
  MaxIterations = 2
  MaxLLMCalls = 1
  Deadline = FALSE
SPECIFICATION FairSpec
PROPERTIES LostCellEnds
CHECK_DEADLOCK FALSE
