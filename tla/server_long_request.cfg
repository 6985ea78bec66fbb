\* A request that takes more than one read (violated).
SPECIFICATION Spec
CONSTANTS
  Clients = {c1, c2}
  Workers = {w1}
  Requests = {"short", "long"}
  lbacklog = 1
  MaxRequests = 3
  None = none
PROPERTIES ServesUntilClosed
CHECK_DEADLOCK FALSE
