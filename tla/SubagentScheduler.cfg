SPECIFICATION FairSpec
CONSTANTS
  Job = {j1, j2, j3}
  Worker = {w1}
  Substitute = {s1, s2}
  QueueSize = 2
  MaxParks = 2
  MaxSubmits = 4
  NoJob = NoJob
CHECK_DEADLOCK FALSE
INVARIANTS SubstituteNeeded
PROPERTIES JobsEnd CloseEnds ImplementsExecutor
