\* Three clients of a server with two handlers, any of which may fail to start.
SPECIFICATION FairSpec
CONSTANTS
  Clients = {c1, c2, c3}
  Workers = {w1, w2}
  Requests = {"short", "long"}
  lbacklog = 1
  MaxRequests = 3
  None = none
INVARIANTS TypeOK ConnectionInOnePlace RepliesMatchRequests
PROPERTIES EveryRequestAnswered EveryConnectionClosed
CHECK_DEADLOCK FALSE
