SPECIFICATION MCSpec
CHECK_DEADLOCK FALSE
CONSTANTS
  Investigators = {i, j}
  Critic = k
  TokenBudget = 12
  TurnBudget = 5
  FullInput = 2
  CloseInput = 1
  CriticInput = 1
  Margin = 1
  CloseOutput = 2
  OutputLimit = 3
  CriticLimit = 3
  CriticCost = 3
  QueryLimit = 1
  MaxAttempts = 2
  MaxCorrections = 1
  MaxFaults = 1
  Sessions = {s, t}
  Queries = {p, q}
  MaxAsks = 2
  SpecialistLimit = 2
  RunLimit = 2
  StepLimit = 1
  MaxToolFaults = 2
INVARIANTS
  TokensConsistent
  ToolCallsConsistent
PROPERTIES
  RoundSettles
