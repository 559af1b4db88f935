SPECIFICATION Spec
CONSTANTS
  Worker = {w1, w2}
  Ordinal = {1, 2}
  MaxAttempts = 2
  QueueSize = 1
  MaxFaults = 1
  MaxLapses = 1
  MaxCrashes = 1
  MaxRetries = 1
CHECK_DEADLOCK FALSE
INVARIANTS BatchStored AttemptsBounded
PROPERTIES ReviewKept JobSettles
