\* One worker at a time, any launch the command line accepts, one fault.
CONSTANTS
  TaskCount = 2
  MaxCycle = 2
  MaxFaults = 1
  MaxHistory = 6
  Supervised = FALSE
  Anchor = Anchor
  Null = Null
  w1 = w1
  w2 = w2
  Workers <- OneWorker
SPECIFICATION Spec
CHECK_DEADLOCK FALSE
INVARIANTS
  EvidenceSound
  ReceiptsSound
PROPERTIES
  LinesImplemented
  SealedCheckpointsImmutable
