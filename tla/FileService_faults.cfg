SPECIFICATION Spec
CONSTANTS
  Clients = {c1, c2}
  Workers = {w1, w2}
  Files = {f1}
  Requests = {r1, r2}
  Reads = {r1}
  None = None
  Vista = FALSE
  Env = {"nested", "stopInside", "throw", "reopen", "overlap", "startFails", "postFails"}
INVARIANTS TypeOK OneOwner NoneForgotten CallbackCount
CHECK_DEADLOCK FALSE
