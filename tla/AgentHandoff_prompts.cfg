\* Two foreground calls for one permit, one of them with a nested run, a
\* background call, and prompts of the main agent and of the nested run.
CONSTANTS
  t1 = t1
  t2 = t2
  b1 = b1
  n1 = n1
  m1 = m1
  Top = {t1, t2}
  Launched = {b1}
  Nested = {n1}
  Parent <- MCParent
  Main = {m1}
  Askers = {n1, m1}
  Budgeted = {t1, t2, n1, b1}
  Permits = 1
SPECIFICATION FairSpec
INVARIANTS PromptsAreForeground NoOrphans OutcomeOnce
PROPERTIES NoGrantInBackground BackgroundRunsOn CallsReturn
CHECK_DEADLOCK FALSE
