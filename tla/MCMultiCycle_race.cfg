\* Two workers launched on the same cycle.
CONSTANTS
  TaskCount = 2
  MaxCycle = 1
  MaxFaults = 0
  MaxHistory = 2
  Supervised = FALSE
  Anchor = Anchor
  Null = Null
  w1 = w1
  w2 = w2
  Workers <- TwoWorkers
SPECIFICATION Spec
CHECK_DEADLOCK FALSE
SYMMETRY Interchangeable
INVARIANTS
  EvidenceSound
  OneWorkerPerChild
