SPECIFICATION CycleSpec
CONSTANTS
  a = a
  b = b
  d = d
  v = v
  Verify = v
  Nodes <- TwoNodes
  Planned <- TwoPlan
  Milestones = {b}
  Late = {}
  PlanEdges = {}
  Runners = {r1}
  MaxElaborations = 1
  Verdicts = {"open", "satisfied"}
  Tardy = FALSE
  Faults = {"failed", "failed_permanent", "failed_retryable"}
  Halves = TRUE
  MaxCycles = 2
  MaxApi = 1
  MaxCrashes = 1
  MaxLate = 1
 
PROPERTIES PhasesInOrder
