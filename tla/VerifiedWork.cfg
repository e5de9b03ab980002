SPECIFICATION WtSpec
CONSTANTS
  MaxWork = 2
  WTasks = {"t1", "t2"}
  Pooling = {FALSE}
  Slots <- MCSlots
  Verifiers = {"v1", "v2"}
  Preds <- MCPreds
  MaxRestarts = 0
INVARIANT VerifiedHasTheWork
CHECK_DEADLOCK FALSE
