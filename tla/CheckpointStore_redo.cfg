\* A write between the redo point and the locks of the restore.
CONSTANTS
  Paths = {f}
  Contents = {x, y}
  Main = Main
  Workers = {w}
  None = None
  Unset = Unset
  MaxTurns = 1
  MaxRestores = 1
  MaxWrites = 2
  MaxEdits = 1
  MaxFaults = 0
  MaxCrashes = 0
SYMMETRY Symmetry
SPECIFICATION Spec
PROPERTIES RedoHoldsTheOverwritten
CHECK_DEADLOCK FALSE
