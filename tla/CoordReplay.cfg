SPECIFICATION MCSpec
CHECK_DEADLOCK FALSE
CONSTANTS
  NPhases = 2
  MaxAttempts = 2
  MaxCrashes = 1
  MaxFaults = 1
  MaxWork = 2
  Cancels = TRUE
  Shutdowns = TRUE
INVARIANTS
  CoordinatorConsistent
  CompletedIsWhole
  ChildrenEndFirst
  AuditIsExact
PROPERTIES
  ImplementsLifecycle
