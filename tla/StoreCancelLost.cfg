SPECIFICATION MCSpec
CONSTANTS
    Runs = {r1}
    Workers = {w1}
    Tools = {t1, t2}
    LogicalCall <- RetryOf
    NPhases = 1
    ToolBudget = 1
    TurnBudget = 1
    LeaseTTL = 1
    MaxAttempts = 2
    MaxEvents = 6
    NoRun = NoRun
    NoWorker = NoWorker
    SqlRuns = {1, 2}
    SqlWorkers = {1}
    SqlRequests = {11}
    SqlPhases = 2
    SqlCalls = {t1}
    SqlToolBudget = 1
    SqlTurns = 0
    SqlLease = 1
    SqlClock = 0
    SqlAttempts = 1
    SqlLog = 0
    SqlRetries = 0
    Generic = {e}
    Official = o
    DeepSeekUrl = f
    Certifiers = {c1}
    RunIds = {r1}
    Records = {i}
    None = None
    Torn = Torn
    MaxEdits = 0
CHECK_DEADLOCK FALSE
INVARIANT CancelledNeverCompletes
