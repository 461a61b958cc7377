\* Two callers, two commits and two PRs; three calls, one fault, two moves.
CONSTANTS
  x = x
  y = y
  a = a
  b = b
  Null = Null
  Callers <- TwoCallers
  Shas <- TwoShas
  Expected = Null
  MaxPrs = 2
  MaxAsked = 3
  MaxFaults = 1
  MaxMoves = 2
SPECIFICATION Spec
SYMMETRY Alike
CHECK_DEADLOCK FALSE
INVARIANTS
  RecordsTruthful
  MergedHeadChecked
  RepeatsNeedFaults
PROPERTIES
  MergesStayDone
