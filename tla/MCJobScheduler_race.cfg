\* Two schedulers with names of their own race on one job.
CONSTANTS
  s1 = s1
  s2 = s2
  h1 = h1
  h2 = h2
  j1 = j1
  j2 = j2
  Null = Null
  Holders <- Names
  Procs <- Two
  HolderOf <- OwnName
  Steady <- Two
  Dead = {}
  Jobs <- OneJob
  JobOrder <- OneJobOrder
  LeaseTime = 1
  PauseTime = 0
  MaxRetries = 0
  MaxJobs = 1
  MaxEffects = 2
  MaxFaults = 0
SPECIFICATION Spec
INVARIANTS
  CompletedBacked
