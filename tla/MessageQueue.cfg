SPECIFICATION Spec
CONSTANTS
  Threads = {loop, dispatcher}
  Nodes = {n1, n2, n3, n4}
  Sentinel = Sentinel
  NULL = NULL
  Nobody = Nobody
INVARIANTS
  ListInv
PROPERTIES
  ImplementsFifo
CHECK_DEADLOCK FALSE
