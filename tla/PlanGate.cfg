SPECIFICATION PlanFairSpec
CONSTANTS
  a = a
  b = b
  Nodes = {a, b}
  Drafts <- SomeDrafts
  Graphs <- TwoGraphs
  Edges <- Requested
  Asks <- SomeAsks
  Budgets = {2, 5}
  Depth = 5
  MaxRequests = 3
  MaxCrashes = 1
INVARIANTS PlanTypeOK SatisfiedHasEvidence
PROPERTIES BudgetsRespected 
