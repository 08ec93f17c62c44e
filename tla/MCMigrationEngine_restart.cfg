CONSTANTS
  Workers = {w1, w2}
  Clients = {c1, c2}
  Priorities = {0}
  IdModulus = 1000
  Routes <- Out
  MaxTasks = 2
  MaxStops = 1
  MaxSize = 3
  Calls = {"await", "awaitAll", "shutdown", "streamFailure"}
SPECIFICATION FairSpec
INVARIANTS
  StreamsSuffice
PROPERTIES
  TasksFinish
  AwaitEnds
CHECK_DEADLOCK FALSE
