SPECIFICATION Spec
CONSTANTS
  Clients = {c1, c2}
  Workers = {w1, w2}
  Tasks = {t1, t2, t3, t4, t5}
  NoTask = NoTask
  MinThreads = 1
  MaxThreads = 2
  Timeout = 1
  QueueMax = 1
  Env <- EveryEnv
SYMMETRY Symmetry
INVARIANTS DrainAlone StallHasCause
PROPERTIES OnlyMinThreadsLeave LeftBehindByTimeout
\* Lost threads and tasks that call their own pool stop it: StallHasCause.
CHECK_DEADLOCK FALSE
