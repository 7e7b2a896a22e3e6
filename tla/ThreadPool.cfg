SPECIFICATION FairSpec
CONSTANTS
  ThreadCount = 3
  QueueSize = 2
  Tasks = {t1, t2, t3, t4}
  NoTask = NoTask
INVARIANTS
  NoTaskWaitsForASleeper
  NobodySleepsThroughShutdown
  PoolReleasedWhenQuiet
PROPERTIES
  ImplementsTaskPool
  AcceptedTaskStarts
  DestroyReturns
CHECK_DEADLOCK FALSE
