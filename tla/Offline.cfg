SPECIFICATION MCSpec
CHECK_DEADLOCK FALSE
CONSTANTS
  LedgerProcs = {1, 2}
  Sides = {a, b}
  OwnerTokens = {1}
  MaxLaunches = 8
  MaxCrashes = 1
  TornCommits = FALSE
  Cases = 2
INVARIANTS
  LedgerConsistent
  LabelsReadOnce
  BundleConsistent
PROPERTIES
  LedgerSettles
