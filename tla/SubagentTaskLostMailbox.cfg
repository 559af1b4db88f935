SPECIFICATION FairSpec
CONSTANTS
  Process = {p1}
  QueueMessage = {m1}
  TurnMessage = {}
  NoMessage = NoMessage
  Exited = Exited
  NoLease = NoLease
  NoSnapshot = NoSnapshot
  Isolated = FALSE
  MaxRuns = 1
  MaxCrashes = 1
  MaxFaults = 0
  CancelCost = 0
CHECK_DEADLOCK FALSE
PROPERTIES ClaimRecovered
