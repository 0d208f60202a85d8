SPECIFICATION Spec
CONSTANTS
  Clients = {c1}
  Workers = {w1, w2}
  Requests = {r1, r2}
INVARIANT FrontExists
CHECK_DEADLOCK FALSE
