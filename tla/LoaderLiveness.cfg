SPECIFICATION Spec
CONSTANTS
  Keys = {k1, k2, k3}
  Clients = {c1, c2}
  Workers = {w1, w2}
  Requests = {r1, r2, r3}
  MaxInflight = 2
  None = None
PROPERTIES
  CloseTerminates
  DemandsReturn
CHECK_DEADLOCK FALSE
