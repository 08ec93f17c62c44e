SPECIFICATION MonitoringSpec
CONSTANTS
  Blocks = {b1}
  Layers = {2}
  LayerCounts = {1}
  Moves = {"WARM"}
  Updaters = {u1, u2}
  BatchSizes = {1}
  MaxTime = 2
  MaxCount = 1
  Producers = {p1, p2}
  Processor = processor
  Clearer = clearer
  Capacity = 2
  BATCH_SIZE = 2
  Kinds <- ReadsOfOneBlock
  max_blocks_ = 1
  SampleRange = 2
  Modes = {"FULL", "SAMPLED"}
  MaxCalls = 3
  MaxStarts = 1
  MaxClears = 1
  Recorders = {r1, r2}
  RecordedBlocks = {b1}
  MonitorModes = {"SAMPLED", "CALLBACK"}
  HistorySize = 1
  MaxRecords = 2
  MaxRestarts = 1
  MaxResets = 1
  AnalyzerCallers = {a1, a2}
  AnalyzedBlocks = {1, 2}
  AnalyzedLayers = {0}
  AnalyzedHeads = {0, 1}
  HistoryWindow = 3
  PredictionWindow = 3
  TopHeads = 1
  MaxAccesses = 4
  MaxInits = 1
INVARIANTS
  MonitoringTypeOK
  AccessesCounted
  HistoryInOrder
  AnswersCurrent
PROPERTIES
  ImplementsQueue
  RingDrains
  RecordsProcessed
CHECK_DEADLOCK FALSE
