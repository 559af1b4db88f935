SPECIFICATION Spec
CONSTANTS
  a = a
  b = b
  c = c
  d = d
  Step <- MCStep
  First <- MCFirst
  Id <- MCId
  Order <- MCOrder
  Needs <- MCNeeds
  Retries <- MCRetries
  Structured = TRUE
  MaxParallel = 2
  MaxReplans = 2
  MaxSteps = 4
  MaxWrites = 1
  MaxFaults = 2
  MaxCancels = 1
  MaxCrashes = 1
CHECK_DEADLOCK FALSE
INVARIANTS HonestDone
PROPERTIES DependenciesFirst DoneOnce ExecutionEnds
