\* Launches as the supervisor chooses them, a kill or an edit anywhere.
CONSTANTS
  TaskCount = 2
  MaxCycle = 3
  MaxFaults = 1
  MaxHistory = 6
  Supervised = TRUE
  Anchor = Anchor
  Null = Null
  w1 = w1
  w2 = w2
  Workers <- OneWorker
SPECIFICATION FairSpec
CHECK_DEADLOCK FALSE
INVARIANTS
  TaskAppliedOnce
PROPERTIES
  ActiveCycleSettles
