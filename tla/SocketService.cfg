SPECIFICATION FairSpec
CONSTANTS
  c1 = c1
  c2 = c2
  w1 = w1
  Clients = {c1, c2}
  Workers = {w1, w2}
  s1 = s1
  s2 = s2
  Sockets = {s1, s2}
  r1 = r1
  r2 = r2
  Requests = {r1, r2}
  Programs <- ServerClientsAndFiles
  None = None
  Env <- Careful
INVARIANTS TypeOK OneOwner Prepared
PROPERTIES RequestAnswered ImplementsAsyncIO
CHECK_DEADLOCK FALSE
