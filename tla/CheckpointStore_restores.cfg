\* Two files, a failing write, an edit by hand and the death of the process at
\* every step of one turn and one restore; two turns and one restore with a
\* crash alone; two turns and two restores (/undo, /redo and /rewind in any
\* order) of one of the files.
CONSTANTS
  Paths = {f, g}
  Contents = {x, y}
  Main = Main
  Workers = {w}
  None = None
  Unset = Unset
  MaxTurns = 2
  MaxRestores = 2
  MaxWrites = 2
  MaxEdits = 1
  MaxFaults = 1
  MaxCrashes = 1
SYMMETRY Symmetry
CONSTRAINT Scope
SPECIFICATION Spec
INVARIANTS WrittenIsUndoable PointerOutlivesRestore
PROPERTIES UndoReverts UndoAsksFirst KeepsDiverged
CHECK_DEADLOCK FALSE
