\* A scheduler run again and again, one job per cycle, after one with another name was killed.
CONSTANTS
  s1 = s1
  s2 = s2
  h1 = h1
  h2 = h2
  j1 = j1
  j2 = j2
  Null = Null
  Holders <- Names
  Procs <- One
  HolderOf <- OneName
  Steady <- One
  Dead = {h2}
  Jobs <- TwoJobs
  JobOrder <- TwoJobOrder
  LeaseTime = 1
  PauseTime = 1
  MaxRetries = 0
  MaxJobs = 1
  MaxEffects = 0
  MaxFaults = 1
SPECIFICATION FairSpec
PROPERTIES
  TimedPausesEnd
  ReadyJobsRun
