SPECIFICATION FairSpec
CONSTANTS
  Process = {p1, p2}
  QueueMessage = {}
  TurnMessage = {}
  NoMessage = NoMessage
  Exited = Exited
  NoLease = NoLease
  NoSnapshot = NoSnapshot
  Isolated = TRUE
  MaxRuns = 1
  MaxCrashes = 1
  MaxFaults = 2
  CancelCost = 1
CHECK_DEADLOCK FALSE
PROPERTIES EventuallyTerminal
