\* A tool that failed between its capture and its write.
CONSTANTS
  Paths = {f}
  Contents = {x, y}
  Main = Main
  Workers = {w}
  None = None
  Unset = Unset
  MaxTurns = 1
  MaxRestores = 1
  MaxWrites = 1
  MaxEdits = 1
  MaxFaults = 1
  MaxCrashes = 0
SYMMETRY Symmetry
SPECIFICATION Spec
PROPERTIES HandEditsAreAsked
CHECK_DEADLOCK FALSE
