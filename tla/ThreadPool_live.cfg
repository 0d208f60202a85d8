SPECIFICATION FairSpec
CONSTANTS
  Clients = {c1, c2}
  Workers = {w1, w2}
  Tasks = {t1, t2, t3}
  NoTask = NoTask
  MinThreads = 1
  MaxThreads = 2
  Timeout = 0
  QueueMax = 1
  Env <- NoEnv
PROPERTIES AcceptedTaskRuns CallsReturn ImplementsFairTaskPool
\* The program may stop calling the pool.
CHECK_DEADLOCK FALSE
