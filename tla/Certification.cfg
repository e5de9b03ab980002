SPECIFICATION CertSpec
CONSTANTS
  t1 = t1
  t2 = t2
  k1 = k1
  Tasks <- MCTasks
  Upstream <- MCUpstream
  Critical <- MCCritical
  SelfImproving <- MCSelfImproving
  Config <- MCConfig
  Patches <- MCPatches
  Clients <- MCClients
  Batch = 2
  MaxSuccesses = 1
  MaxSubs = 2
  MaxEvents = 2
 
PROPERTIES VerdictsAreFinal PendingIsProcessed DriftIsFound
CHECK_DEADLOCK FALSE
