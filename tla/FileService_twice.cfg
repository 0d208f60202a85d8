SPECIFICATION Spec
CONSTANTS
  Clients = {c1}
  Workers = {w1, w2}
  Files = {f1}
  Requests = {r1, r2}
  Reads = {r1}
  None = None
  Vista = TRUE
  Env = {"nested", "reopen"}
CHECK_DEADLOCK FALSE
INVARIANT CalledBackOnce
