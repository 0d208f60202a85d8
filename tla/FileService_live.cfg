SPECIFICATION FairSpec
CONSTANTS
  Clients = {c1, c2}
  Workers = {w1, w2}
  Files = {f1}
  Requests = {r1, r2}
  Reads = {r1}
  None = None
  Vista = TRUE
  Env = {"nested", "reopen"}
INVARIANTS JoinAttended DrainNotStarved
PROPERTIES RequestAnswered ShutdownReturns ImplementsAsyncIO
CHECK_DEADLOCK FALSE
