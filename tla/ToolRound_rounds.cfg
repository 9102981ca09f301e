SPECIFICATION FairSpec
CONSTANTS
  r = r
  g = g
  w = w
  i1 = i1
  i2 = i2
  none = none
  Inputs <- MCInputs
  NoInput = none
  Calls <- MCCalls
  Kind <- MCKind
  MaxRetries = 1
CONSTRAINT RetriesOfTwo
INVARIANTS
  NoReadAheadOfWrite
  WritesRunAlone
  OutputsMatchPlan
  InterruptedRoundIsQuiet
  OneLiveExecutionPerCall
  RowsResolved
PROPERTIES
  FinalizeEnds
