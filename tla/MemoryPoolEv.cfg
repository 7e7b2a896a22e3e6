SPECIFICATION PoolSpec
CONSTANTS
  Threads = {loop}
  Allocators = {loop}
  Blocks = {b1, b2, b3, b4}
  NoBlock = NoBlock
  Wild = Wild
INVARIANTS
  OneUserPerBlock
  FollowsFreeBlocks
  DestroyReturnsAll
CHECK_DEADLOCK FALSE
