\* Two supervisor lives and a campaign of two attempts, a kill anywhere and one error.
CONSTANTS
  MaxCycles = 2
  MaxWorkers = 4
  MaxReplans = 2
  MaxRestarts = 1
  AutoReplan = TRUE
  ResumeTerminal = FALSE
  MaxLives = 2
  MaxSignals = 0
  MaxErrors = 1
  Null = Null
  Cycles <- CycleNumbers
SPECIFICATION FairSpec
CHECK_DEADLOCK FALSE
INVARIANTS EventsInOrder
PROPERTIES LaunchOnce FirstSuccessorLaunched
