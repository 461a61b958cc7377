\* A successor launched right after its predecessor ended.
CONSTANTS
  MaxCycles = 2
  MaxWorkers = 3
  MaxReplans = 1
  MaxRestarts = 1
  AutoReplan = TRUE
  ResumeTerminal = FALSE
  MaxLives = 1
  MaxSignals = 0
  MaxErrors = 0
  Null = Null
  Cycles <- CycleNumbers
SPECIFICATION Spec
CHECK_DEADLOCK FALSE
INVARIANTS SuccessorFollowed
