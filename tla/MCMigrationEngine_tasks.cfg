CONSTANTS
  Workers = {w1, w2}
  Clients = {c1, c2}
  Priorities = {0, 1}
  IdModulus = 2
  Routes <- OutAndBack
  MaxTasks = 2
  MaxStops = 0
  MaxSize = 3
  Calls = {"cancel", "await", "awaitAll", "timeout"}
SPECIFICATION Spec
SYMMETRY ThreadSymmetry
INVARIANTS
  TypeOK
  OneWorkerPerTask
  PendingIsQueued
  SomeoneAttends
  UsageMatchesTasks
  StatsCountTasks
PROPERTIES
  OutcomeStays
  UrgentFirst
CHECK_DEADLOCK FALSE
