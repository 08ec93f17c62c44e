CONSTANTS
  Clients = {c1, c2}
  Layers = {1}
  VramBlocks = 1
  RamBlocks = 1
  MaxBlockId = 2
  MaxSequence = 1
  MaxListed = 2
  Calls = {"lock", "migrate"}
  MaxSize = 7
  Exclusive = TRUE
SPECIFICATION Spec
PROPERTIES
  LockedNotMigrated
