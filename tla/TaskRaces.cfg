SPECIFICATION Spec
CONSTANTS
  a = a
  b = b
  v = v
  Nodes <- PairNodes
  Deps <- PairDeps
  Verify = v
  Executors = {e1, e2}
  NoNode = NoNode
  MaxAgents = 2
  RetryBudget = 1
  BatchLimit = 1
  MaxAttempts = 3
  MaxApi = 1
  MaxCrashes = 1
  Replanning = TRUE
SYMMETRY Symmetry
INVARIANTS TypeOK OrderRespected OneExecutorPerAttempt BudgetPaysForFailures NoOrphanAttempt
PROPERTIES CompletionIsFinal KeepsOrder TaskLifeHolds
