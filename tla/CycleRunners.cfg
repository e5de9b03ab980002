SPECIFICATION CycleSpec
CONSTANTS
  a = a
  b = b
  d = d
  v = v
  Verify = v
  Nodes <- OneNodes
  Planned <- OnePlan
  Milestones = {}
  Late = {a}
  PlanEdges = {}
  Runners = {r1, r2}
  MaxElaborations = 3
  Verdicts = {"satisfied"}
  Tardy = FALSE
  Faults = {"failed_permanent"}
  Halves = TRUE
  MaxCycles = 2
  MaxApi = 0
  MaxCrashes = 1
  MaxLate = 0
INVARIANTS RunnersCreateOnce
