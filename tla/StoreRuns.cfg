SPECIFICATION MCSpec
CONSTANTS
    Runs = {r1, r2}
    Workers = {w1, w2}
    Tools = {t1, t2, t3}
    LogicalCall <- RetryOf
    NPhases = 2
    ToolBudget = 1
    TurnBudget = 1
    LeaseTTL = 1
    MaxAttempts = 2
    MaxEvents = 8
    NoRun = NoRun
    NoWorker = NoWorker
    SqlRuns = {1, 2}
    SqlWorkers = {1, 2}
    SqlRequests = {11, 12}
    SqlPhases = 3
    SqlCalls = {t1, t2}
    SqlToolBudget = 1
    SqlTurns = 1
    SqlLease = 1
    SqlClock = 3
    SqlAttempts = 2
    SqlLog = 4
    SqlRetries = 1
    Generic = {e, f}
    Official = o
    DeepSeekUrl = f
    Certifiers = {c1, c2}
    RunIds = {r1, r2}
    Records = {i, j}
    None = None
    Torn = Torn
    MaxEdits = 1
CHECK_DEADLOCK FALSE
INVARIANTS
  TypeOK
  OwnershipConsistent
  SingleWriter
  LogConsistent
  ProjectionConsistent
  SqlRowsConsistent
  AdmissionConsistent
  CertifiedStaysPut
PROPERTIES
  TerminalIsFinal
  ProjectionKept
  SqlOutcomeStays
