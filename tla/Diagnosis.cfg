SPECIFICATION MCSpec
CHECK_DEADLOCK FALSE
CONSTANTS
  FirstTasks = {a, b}
  ExtraTasks = {x}
  MaxInvestigators = 2
  ToolBudget = 4
  PerTask = 3
  MaxResumes = 1
  Specialists = {s1, s2}
  TokenBudget = 4
  StepLimit = 2
  LegacyResumes = 1
  PlanSize = 3
  IntakeFaults = 2
INVARIANTS
  V11Consistent
  VerdictIsFair
  LegacyResultIsHonest
  LegacyTurnsClose
  PlanConsistent
  IntakeConsistent
PROPERTIES
  ToolEvidenceStays
  LegacyLimitsHold
