------------------------------- MODULE TaskPool -------------------------------
(***************************************************************************)
(* What a user of ge's ThreadPool may rely on, with no threads, no mutex   *)
(* and no condition variable: tasks are accepted into a FIFO queue while   *)
(* the pool is open, at most Limit of them run at a time, they start in    *)
(* the order they were accepted, each at most once, and none starts after  *)
(* the pool was closed.  ThreadPool.tla is shown to implement it.          *)
(***************************************************************************)
EXTENDS Naturals, Sequences, FiniteSets

CONSTANTS Tasks,     \* the Runnable objects handed to the pool
          Limit,     \* how many tasks may run at the same time
          Capacity   \* length of the queue at its fullest; 0: no bound

VARIABLES pending,   \* accepted tasks that have not started, oldest first
          state,     \* where each task is in its life
          closed     \* no task starts any more

abstractVars == <<pending, state, closed>>

Active == {t \in Tasks : state[t] = "running"}

AbstractInit ==
  /\ pending = <<>>
  /\ state = [t \in Tasks |-> "fresh"]
  /\ closed = FALSE

\* The pool takes a task that was never offered before.
Accept(t) ==
  /\ state[t] = "fresh"
  /\ ~closed
  /\ Capacity # 0 => Len(pending) < Capacity
  /\ pending' = Append(pending, t)
  /\ state' = [state EXCEPT ![t] = "queued"]
  /\ UNCHANGED closed

\* The oldest accepted task starts.
Start ==
  /\ ~closed
  /\ pending # <<>>
  /\ Cardinality(Active) < Limit
  /\ pending' = Tail(pending)
  /\ state' = [state EXCEPT ![Head(pending)] = "running"]
  /\ UNCHANGED closed

\* A task returns, or ends by throwing.
Finish(t) ==
  /\ state[t] = "running"
  /\ state' = [state EXCEPT ![t] = "finished"]
  /\ UNCHANGED <<pending, closed>>

\* A task offered to a closed pool is turned away.
Refuse(t) ==
  /\ closed
  /\ state[t] = "fresh"
  /\ state' = [state EXCEPT ![t] = "dropped"]
  /\ UNCHANGED <<pending, closed>>

Close ==
  /\ ~closed
  /\ closed' = TRUE
  /\ UNCHANGED <<pending, state>>

\* The pool is destroyed: nothing runs and what never started is discarded.
Discard ==
  /\ closed
  /\ Active = {}
  /\ pending' = <<>>
  /\ state' = [t \in Tasks |-> IF state[t] = "queued" THEN "dropped"
                                                      ELSE state[t]]
  /\ UNCHANGED closed

AbstractNext ==
  \/ Start
  \/ Close
  \/ Discard
  \/ \E t \in Tasks : Accept(t) \/ Finish(t) \/ Refuse(t)

AbstractSpec == AbstractInit /\ [][AbstractNext]_abstractVars

\* The pool is never idle for ever while it has work it may start.
FairSpec == AbstractSpec /\ WF_abstractVars(Start)
=============================================================================
