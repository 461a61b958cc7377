\* Two supervisors poll the same accepted replan; three deaths or I/O errors.
CONSTANTS
  p1 = p1
  p2 = p2
  Procs <- TwoProcs
  Null = Null
  MaxFaults = 3
SPECIFICATION FairSpec
INVARIANTS
  RecordSound
  ToldTruthful
PROPERTIES
  EvidenceFirst
  LaunchImplemented
  CallsReturn
