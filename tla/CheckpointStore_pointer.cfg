\* A crash between the logged plan and its pointer.
CONSTANTS
  Paths = {f}
  Contents = {x, y}
  Main = Main
  Workers = {w}
  None = None
  Unset = Unset
  MaxTurns = 1
  MaxRestores = 1
  MaxWrites = 1
  MaxEdits = 0
  MaxFaults = 0
  MaxCrashes = 1
SYMMETRY Symmetry
SPECIFICATION Spec
INVARIANTS CrashLeavesPointer
CHECK_DEADLOCK FALSE
