SPECIFICATION FairSpec
CONSTANTS
  Process = {p1, p2}
  QueueMessage = {m1, m2}
  TurnMessage = {}
  NoMessage = NoMessage
  Exited = Exited
  NoLease = NoLease
  NoSnapshot = NoSnapshot
  Isolated = FALSE
  MaxRuns = 1
  MaxCrashes = 0
  MaxFaults = 1
  CancelCost = 1
CHECK_DEADLOCK FALSE
PROPERTIES EndsUnlessHeld TurnSettled CompletionRecorded
