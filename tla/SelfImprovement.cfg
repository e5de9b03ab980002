SPECIFICATION SISpec
CONSTANTS
  r1 = r1
  r2 = r2
  Runners = {r1, r2}
  MaybeBroken <- MCBroken
  Outcomes = {"succeeded", "failed"}
  MaxCycles = 2
  MaxFaults = 1
INVARIANTS RecordsInv
PROPERTIES CycleEnds
CHECK_DEADLOCK FALSE
