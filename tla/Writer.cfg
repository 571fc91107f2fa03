SPECIFICATION MCSpec
CONSTANTS
    Clients = {c1, c2, c3}
    MaxQueue = 2
    MaxSubmits = 2
    MaxWorkers = 3
    LoopMayClose = TRUE
    TimeLimit = TRUE
    NoOne = NoOne
CHECK_DEADLOCK FALSE
INVARIANTS
  TypeOK
  OneWriteAtATime
  NothingBehindSentinel
PROPERTIES
  OrderlyShutdown
  KeepsPromise
