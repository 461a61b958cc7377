\* Two supervisor lives without replans: crashing workers, a kill anywhere, retries and a signal.
CONSTANTS
  MaxCycles = 2
  MaxWorkers = 6
  MaxReplans = 0
  MaxRestarts = 1
  AutoReplan = FALSE
  ResumeTerminal = TRUE
  MaxLives = 2
  MaxSignals = 1
  MaxErrors = 0
  Null = Null
  Cycles <- CycleNumbers
SPECIFICATION FairSpec
CHECK_DEADLOCK FALSE
INVARIANTS OneWorkerPerLife NoWorkerLeft RestartsBounded
PROPERTIES NoSpawnAfterStop ShutdownEnds CrashHandled
