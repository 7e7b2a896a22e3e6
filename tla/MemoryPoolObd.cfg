SPECIFICATION PoolSpec
CONSTANTS
  Threads = {loop, worker}
  Allocators = {loop}
  Blocks = {b1, b2, b3}
  NoBlock = NoBlock
  Wild = Wild
INVARIANTS
  OneUserPerBlock
CHECK_DEADLOCK FALSE
