CONSTANTS
  Workers = {w1, w2}
  Clients = {c1}
  Priorities = {0}
  IdModulus = 1000
  Routes <- Out
  MaxTasks = 1
  MaxStops = 1
  MaxSize = 3
  Calls = {"shutdown"}
SPECIFICATION FairSpec
PROPERTIES
  ShutdownEnds
CHECK_DEADLOCK FALSE
