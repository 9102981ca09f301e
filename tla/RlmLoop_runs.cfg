\* Three iterations and a deadline; two queries, each of one or two prompts, on a
\* budget of two.
CONSTANTS
  Queries = {q1, q2}
  Sizes = {1, 2}
  MaxIterations = 3
  MaxLLMCalls = 2
  Deadline = TRUE
SPECIFICATION FairSpec
INVARIANTS FirstSubmissionReported
PROPERTIES QuietOnceSettled RunEnds
CHECK_DEADLOCK FALSE
