SPECIFICATION GovSpec
CONSTANTS
  e1 = e1
  e2 = e2
  k1 = k1
  Extracts = {e1, e2}
  ClientKeys = {k1}
  Scopes <- MCScopes
  Threshold = TRUE
  MaxReviews = 2
  MaxTasks = 1
  MaxAttempts = 2
  MaxEvents = 2
PROPERTIES GovernanceHolds  DueIsApproved
CHECK_DEADLOCK FALSE
