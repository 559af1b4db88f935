SPECIFICATION Spec
CONSTANTS
  Process = {p1, p2}
  Files = {{p1}, {p2}}
  Chunks = 3
  PageSize = 2
  MaxFaults = 2
  MaxCrashes = 1
  MaxRetries = 1
CHECK_DEADLOCK FALSE
INVARIANTS ReadyIndexed OutcomeAgrees
PROPERTIES DeleteFinal JobSettles
