\* One scheduler, two jobs, a kill or failure anywhere.
CONSTANTS
  s1 = s1
  s2 = s2
  h1 = h1
  h2 = h2
  j1 = j1
  j2 = j2
  Null = Null
  Holders <- Names
  Procs <- One
  HolderOf <- OneName
  Steady <- One
  Dead = {h2}
  Jobs <- TwoJobs
  JobOrder <- TwoJobOrder
  LeaseTime = 1
  PauseTime = 1
  MaxRetries = 1
  MaxJobs = 2
  MaxEffects = 3
  MaxFaults = 1
SPECIFICATION Spec
INVARIANTS
  TypeOK
  RepeatsNeedKills
  SnapshotCurrent
  CyclesLeaveNothing
PROPERTIES
  JobsImplemented
