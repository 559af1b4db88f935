SPECIFICATION Spec
CONSTANTS
  Process = {p1, p2}
  File = {1, 2}
  Text = {1}
  None = None
  MaxRuns = 2
  MaxEdits = 1
  MaxFaults = 1
  MaxCrashes = 1
  MaxLapses = 1
INVARIANTS EditsKept BackedUp AllOrNothing ChangesAgree
CONSTRAINT Bounded
SYMMETRY Symmetry
CHECK_DEADLOCK FALSE
