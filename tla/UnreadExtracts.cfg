SPECIFICATION GovSpec
CONSTANTS
  e1 = e1
  e2 = e2
  k1 = k1
  Extracts = {e1, e2}
  ClientKeys = {k1}
  Scopes <- MCScopes
  Threshold = TRUE
  MaxReviews = 1
  MaxTasks = 1
  MaxAttempts = 1
  MaxEvents = 0
PROPERTY ExtractsReachThePlan
CHECK_DEADLOCK FALSE
