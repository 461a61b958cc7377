\* Daemons started one after the other, two tasks, two kills or exceptions, a task enqueued twice.
CONSTANTS
  d1 = d1
  d2 = d2
  Null = Null
  Pids <- Daemons
  Tasks = {1, 2}
  MaxJobs = 1
  MaxFix = 1
  MaxRecovery = 1
  MaxAsked <- TwiceFirst
  MaxFaults = 2
  Racing = FALSE
SPECIFICATION FairSpec
CHECK_DEADLOCK FALSE
INVARIANTS
  QueueOwned
  NothingLost
  CallsBounded
  CommitsSound
PROPERTIES
  TagsAreFinal
  TasksSettle
