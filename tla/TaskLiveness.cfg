SPECIFICATION FairSpec
CONSTANTS
  a = a
  b = b
  v = v
  Nodes <- PairNodes
  Deps <- PairDeps
  Verify = v
  Executors = {e1, e2}
  NoNode = NoNode
  MaxAgents = 2
  RetryBudget = 1
  BatchLimit = 1
  MaxAttempts = 3
  MaxApi = 0
  MaxCrashes = 0
  Replanning = FALSE
PROPERTIES QueuedIsDispatched ReadySettles
