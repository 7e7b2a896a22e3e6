SPECIFICATION Spec
CONSTANTS
  Threads = {loop, dispatcher}
  Nodes = {n1, n2}
  Sentinel = Sentinel
  NULL = NULL
  Nobody = Nobody
INVARIANTS
  MutexFreeBetweenCalls
CHECK_DEADLOCK FALSE
