SPECIFICATION Spec
CONSTANTS
  Msg = {m1, m2}
  Note = {n1}
  Nobody = Nobody
  MaxPending = 2
  MaxCrashes = 1
  MaxFaults = 1
  MaxPauses = 1
CONSTRAINT Bounded
SYMMETRY Symmetry
CHECK_DEADLOCK FALSE
INVARIANTS FreshIsWoken NotifiedHeld InflightExact StopHolds
PROPERTIES ClaimSettles NoOvertaking ImplementsInbox
