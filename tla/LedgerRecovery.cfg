SPECIFICATION MCSpec
CHECK_DEADLOCK FALSE
CONSTANTS
  LedgerProcs = {1, 2}
  Sides = {a, b}
  OwnerTokens = {1}
  MaxLaunches = 2
  MaxCrashes = 1
  TornCommits = TRUE
  Cases = 1
PROPERTY ExpiredConverges
