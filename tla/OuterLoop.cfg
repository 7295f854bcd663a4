SPECIFICATION FairSpec
CHECK_DEADLOCK FALSE
CONSTANTS
  c1 = c1
  u1 = u1
  ToolWrites <- SomeWrites
  Critical = {c1}
  Unknowns = {u1}
  Wired <- V1Agents
  InitStates <- FirstStates
  Statuses <- SomeStatuses
  Targets <- SomeTargets
  None = None
  RetryBudget = 2
  IterationCap = 2
  MaxSessions = 2
  MaxChatTurns = 2
  MaxTxns = 5
  MaxWrites = 2
  MaxInterrupts = 1
INVARIANTS TypeOK TransactionsBracketed StepResultIsTrue BlockersAreOwn GitIsConsistent
PROPERTIES MovesAreLegal SessionEnds
