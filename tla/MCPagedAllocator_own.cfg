CONSTANTS
  Clients = {c1, c2}
  Layers = {1}
  VramBlocks = 2
  RamBlocks = 1
  MaxBlockId = 3
  MaxSequence = 2
  MaxListed = 2
  Calls = {"sequence", "lock", "metadata", "defragment"}
  MaxSize = 7
  Exclusive = TRUE
SPECIFICATION Spec
INVARIANTS
  TypeOK
  IndexExact
  StatsMatchPool
PROPERTIES
  SequenceLinked
  FreeBlocksRotate
