CONSTANTS
  Clients = {c1, c2}
  Layers = {0}
  VramBlocks = 2
  RamBlocks = 1
  MaxBlockId = 3
  MaxSequence = 3
  MaxListed = 2
  Calls = {"sequence"}
  MaxSize = 7
  Exclusive = TRUE
SPECIFICATION Spec
PROPERTIES
  EvictionMakesRoom
