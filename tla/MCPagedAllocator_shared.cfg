CONSTANTS
  Clients = {c1, c2}
  Layers = {0}
  VramBlocks = 1
  RamBlocks = 1
  MaxBlockId = 2
  MaxSequence = 2
  MaxListed = 1
  Calls = {"sequence", "lock", "migrate"}
  MaxSize = 7
  Exclusive = FALSE
SPECIFICATION FairSpec

  
PROPERTIES
  SequenceEnds
