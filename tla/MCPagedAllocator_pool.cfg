CONSTANTS
  Clients = {c1, c2}
  Layers = {1}
  VramBlocks = 1
  RamBlocks = 1
  MaxBlockId = 4
  MaxSequence = 2
  MaxListed = 2
  Calls = {"sequence", "lock", "migrate", "metadata", "restart", "resetStats"}
  MaxSize = 7
  Exclusive = TRUE
SPECIFICATION Spec
SYMMETRY ClientSymmetry
INVARIANTS
  FreeListsExact
  UsageCountsBlocks
  HeldExclusively
PROPERTIES
  LockHolds
  ImplementsPool
