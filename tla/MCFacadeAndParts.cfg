SPECIFICATION FacadeAndPartsSpec
CONSTANTS
  c1 = c1
  c2 = c2
  background = background
  Blocks = {b1, b2}
  Layers = {}
  LayerCounts = {1, 2}
  Moves = {}
  Updaters <- ThreeUpdaters
  Clients = {c1, c2}
  Background = background
  BatchSizes = {}
  MaxTime = 1
  MaxCount = 0
  Shapes <- SmallShapes
  MaxHandles = 2
  Calls = {"extend", "trigger", "access", "destroy"}
  MappedBlocks = {b1}
  RangeSizes = {1, 2}
  FileSize = 4
  MaxMapperCalls = 2
  MaxWipes = 1
  PrefetchCallers = {p1, p2}
  PrefetchBlocks = {1, 2}
  Strategies = {"SEQUENTIAL", "MARKOV", "ADAPTIVE", "ORACLE"}
  Windows = {1, 2, 3}
  Lookahead = 2
  MaxModelUpdates = 4
  MaxConfigs = 1
  SchedulerUsers = {u1, u2}
  TransferStreams = {s1, s2}
  StreamSets = {{s1}, {s1, s2}}
  MaxPoolChanges = 2
  StreamUsers = {t1, t2}
  DriverHandles = {1, 2}
  PoolSize = 1
  MaxPools = 2
  Adapters = {a1, a2}
  DeviceUsers = {d1}
  DeviceCounts = {0, 2}
  MaxAdapterInits = 3
  Files <- SomeFiles
  Environments <- SomeEnvironments
  Configs <- SomeConfigs
  MaxConfigCalls = 3
INVARIANTS
  FacadeAndPartsTypeOK
  OwnersAgree
  TierCountsExact
  SpaceDisjoint
  TransitionsCounted
  StreamsKept
  AclUpForAdapters
  SavedConfigLoads
PROPERTIES
  BlocksScored
  DestroyEnds
CHECK_DEADLOCK FALSE
