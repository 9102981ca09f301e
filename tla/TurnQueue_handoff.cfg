\* The turn that follows a compression.
\* at most one replacement.
CONSTANTS
  p1 = p1
  p2 = p2
  b1 = b1
  b2 = b2
  Prompts = {p1, p2}
  Runs = {b1, b2}
  Slots = 1
  Nobody = Nobody
  MaxConv = 1
SYMMETRY Symmetry
SPECIFICATION Spec
PROPERTIES HandoffOpensTheThread
CHECK_DEADLOCK FALSE
