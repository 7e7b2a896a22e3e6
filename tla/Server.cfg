SPECIFICATION FairSpec
CONSTANTS
  Requests = {r1, r2, r3}
  NoRequest = NoRequest
  Loop = Loop
  Dispatcher = Dispatcher
  Nobody = Nobody
  Sentinel = Sentinel
  NULL = NULL
  ThreadCount = 2
  QueueSize = 1
  MaxBatch = 2
INVARIANTS
  OnePlace
  ShutdownOrder
PROPERTIES
  SignalEndsServer
CHECK_DEADLOCK FALSE
