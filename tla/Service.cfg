SPECIFICATION MCSpec
CHECK_DEADLOCK FALSE
CONSTANTS
  Runs = {r1, r2}
  Limit = 1
  MaxTasks = 3
  MaxAttempts = 2
  MayStop = TRUE
  Clients = {c1, c2}
  MaxEvents = 4
  QueueSize = 1
  Batch = 2
  MaxConnects = 3
INVARIANTS
  ManagerConsistent
  StreamConsistent
PROPERTIES
  ManagerProgress
  NothingIsMissed
