\* Not a run: the extract fallback outlives the deadline (a counterexample to
\* what prompts/tools/agent.tsx says of timeout_ms).
CONSTANTS
  Queries = {q1}
  Sizes = {1}
  MaxIterations = 1
  MaxLLMCalls = 1
  Deadline = TRUE
SPECIFICATION FairSpec
PROPERTIES DeadlineEndsRun
CHECK_DEADLOCK FALSE
