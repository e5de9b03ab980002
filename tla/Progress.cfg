SPECIFICATION MCSpec
CONSTANTS
  a = a
  b = b
  d = d
  v = v
  Verify = v
  Nodes <- LateNodes
  Planned <- OnePlan
  Milestones = {}
  Late = {d}
  PlanEdges = {}
  Runners = {r1}
  MaxElaborations = 1
  Verdicts = {"open", "satisfied"}
  Tardy = TRUE
  Faults = {"failed", "failed_retryable"}
  Halves = FALSE
  MaxCycles = 2
  MaxApi = 0
  MaxCrashes = 1
  MaxLate = 0
  Messages = 4
  FirstPage = 2
  NextPage = 1
  MaxReconnects = 1
  Installations = {{}, {"codex-cli"}}
  Preferences = {"cli"}
  Budgets = {1}
  MaxBeats = 1
INVARIANTS StreamInv
PROPERTIES CommittedIsSent  PlanningEnds AttemptsGetThrough
CHECK_DEADLOCK FALSE
