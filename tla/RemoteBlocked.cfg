SPECIFICATION Spec
CONSTANTS
  x = x
  plan = plan
  y = y
  None = None
  Req <- MCReq
  Mixes <- MCMixes
  Asking = {plan}
  Peer = {p1}
  Conn = {c1}
  MaxFaults = 0
CHECK_DEADLOCK FALSE
INVARIANTS ReaderFree
