SPECIFICATION Spec
CONSTANTS
  Process = {p1, p2}
  QueueMessage = {m1}
  TurnMessage = {t1}
  NoMessage = NoMessage
  Exited = Exited
  NoLease = NoLease
  NoSnapshot = NoSnapshot
  Isolated = FALSE
  MaxRuns = 2
  MaxCrashes = 1
  MaxFaults = 1
  CancelCost = 0
CONSTRAINT Bounded
SYMMETRY Symmetry
CHECK_DEADLOCK FALSE
INVARIANTS RunAgrees ClaimExclusive EnvelopeAgrees OneExecutionPerProcess
PROPERTIES ImplementsLifecycle
