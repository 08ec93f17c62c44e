SPECIFICATION ManagerSpec
CONSTANTS
  c1 = c1
  c2 = c2
  background = background
  Blocks = {b1, b2}
  Layers = {}
  LayerCounts = {1, 2}
  Moves = {}
  Updaters <- ThreeUpdaters
  Clients = {c1, c2}
  Background = background
  BatchSizes = {}
  MaxTime = 1
  MaxCount = 0
  Shapes <- SmallShapes
  MaxHandles = 1
  Calls = {"trigger"}
PROPERTIES
  ColdBlocksMove
CHECK_DEADLOCK FALSE
