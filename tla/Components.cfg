SPECIFICATION MCSpec
CONSTANTS
  q1 = q1
  q2 = q2
  Commands <- MCCommands
  Callers = {q1, q2}
  Budget = 2
  MaxAttempts = 4
  m1 = m1
  m2 = m2
  m3 = m3
  x1 = x1
  x2 = x2
  ChatMessages = {m1, m2, m3}
  Notable = {m1, m2}
  Actionable = {m1}
  Extractions = {x1, x2}
  MaxToTasks = 1
  Writers = {"w1", "w2", "w3"}
  MaxRewrites = 2
  Clients = {"c1", "c2", "c3"}
  ReqKeys = {"q1", "q2"}
  RouteSets <- MCRouteSets
  Policies = {"p1", "p2"}
  Editors = {"d1", "d2", "d3"}
  PolicyKeys = {"y1", "y2"}
  MaxWork = 2
  WTasks = {"t1", "t2"}
  Pooling = {FALSE, TRUE}
  Slots <- MCSlots
  Verifiers = {"v1", "v2"}
  Preds <- MCPreds
  MaxRestarts = 1
  Installations <- MCInstallations
  Preferences = {"cli", "claude-cli"}
  Budgets = {0, 1}
  MaxBeats = 1
INVARIANTS  ConversationInv RequestsInv  AttemptsInv
PROPERTIES  PoliciesHold UncommittedStays NoBeatOfTheDead
CHECK_DEADLOCK FALSE
