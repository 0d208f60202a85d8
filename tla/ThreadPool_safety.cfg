SPECIFICATION Spec
CONSTANTS
  Clients = {c1, c2}
  Workers = {w1, w2, w3}
  Tasks = {t1, t2, t3, t4}
  NoTask = NoTask
  MinThreads = 1
  MaxThreads = 3
  Timeout = 0
  QueueMax = 2
  Env <- Nested
SYMMETRY Symmetry
INVARIANTS TypeOK CountsExact NoEmptyPop WaitersJustified QueueAttended QueueBounded
PROPERTIES ShutdownIsFinal ImplementsTaskPool
\* The program may stop calling the pool.
CHECK_DEADLOCK FALSE
