CONSTANTS
  Workers = {w1}
  Clients = {c1}
  Priorities = {0}
  IdModulus = 1000
  Routes <- Out
  MaxTasks = 1
  MaxStops = 0
  MaxSize = 3
  Calls = {"cancel", "await"}
SPECIFICATION FairSpec
PROPERTIES
  AwaitEnds
CHECK_DEADLOCK FALSE
