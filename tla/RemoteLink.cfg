SPECIFICATION Spec
CONSTANTS
  x = x
  plan = plan
  y = y
  None = None
  Req <- MCReq
  Mixes <- MCMixes
  Asking = {plan}
  Peer = {p1, p2}
  Conn = {c1, c2}
  MaxFaults = 1
CHECK_DEADLOCK FALSE
INVARIANTS RunCancellable AgentReachable
PROPERTIES RefusedOnlyOffline RequestsEnd
