------------------------- MODULE FileServiceBlocking -------------------------
(***************************************************************************)
(* ge's FileService on unix systems other than Linux                       *)
(* (src/unix/gepriv/aio/FileServiceBlocking.cpp): a queue of requests      *)
(* under a condition variable, and workers that are to take a request,     *)
(* make the blocking system call and call the user back.  They wait while  *)
(* there IS a request, so that no step past _queue.front() is reachable    *)
(* and none is modelled.                                                   *)
(*                                                                         *)
(* One action is one stretch of code under _cond, or a round of the        *)
(* unlocked loops of startServing and shutdown.                            *)
(***************************************************************************)
EXTENDS Naturals, Sequences, FiniteSets

CONSTANTS Clients,   \* threads of the program
          Workers,   \* the AioWorkers of startServing(desiredThreads)
          Requests   \* calls of fileRead and fileWrite, each made once

VARIABLES shutdown,  \* _isShutdown
          threads,   \* _threads
          queue,     \* _queue
          waiters,   \* workers blocked in _cond.wait() that were not signalled
          worker,    \* where each worker is
          caller     \* where each client is in shutdown()

vars == <<shutdown, threads, queue, waiters, worker, caller>>

Init ==
  /\ shutdown = FALSE
  /\ threads = {}
  /\ queue = <<>>
  /\ waiters = {}
  /\ worker = [w \in Workers |-> "none"]
  /\ caller = [c \in Clients |-> "out"]

\* A round of the loop of startServing, which does not look at _isShutdown.
StartWorker(w) ==
  /\ w \notin threads
  /\ \A c \in Clients : caller[c] = "out"
  /\ threads' = threads \union {w}
  /\ worker' = [worker EXCEPT ![w] = "lock"]
  /\ UNCHANGED <<shutdown, queue, waiters, caller>>

\* fileRead and fileWrite; after a shutdown they throw.
Request(r) ==
  /\ \A i \in DOMAIN queue : queue[i] # r
  /\ ~shutdown
  /\ queue' = Append(queue, r)
  /\ \/ waiters = {} /\ UNCHANGED waiters
     \/ \E w \in waiters : waiters' = waiters \ {w}
  /\ UNCHANGED <<shutdown, threads, worker, caller>>

\* shutdown up to the joins, and the destructor, which is the same.
Shutdown(c) ==
  /\ caller[c] = "out"
  /\ shutdown' = TRUE
  /\ IF threads = {}
     THEN UNCHANGED <<waiters, caller>>
     ELSE waiters' = {} /\ caller' = [caller EXCEPT ![c] = "join"]
  /\ UNCHANGED <<threads, queue, worker>>

JoinAll(c) ==
  /\ caller[c] = "join"
  /\ \A w \in threads : worker[w] = "ended"
  /\ threads' = {}
  /\ caller' = [caller EXCEPT ![c] = "out"]
  /\ UNCHANGED <<shutdown, queue, waiters, worker>>

\* process() from lock() or the return of _cond.wait() to unlock() or the
\* next wait: while (!_isShutdown && !_queue.isEmpty()) _cond.wait();
Process(w) ==
  /\ worker[w] \in {"lock", "wait"} /\ w \notin waiters
  /\ \/ /\ ~shutdown /\ queue # <<>>
        /\ waiters' = waiters \union {w}
        /\ worker' = [worker EXCEPT ![w] = "wait"]
     \/ /\ shutdown \/ queue = <<>>
        /\ worker' = [worker EXCEPT ![w] = IF shutdown THEN "ended" ELSE "abort"]
        /\ UNCHANGED waiters
  /\ UNCHANGED <<shutdown, threads, queue, caller>>

\* _cond.wait() returns unasked.
WakeUp(w) ==
  /\ w \in waiters
  /\ waiters' = waiters \ {w}
  /\ UNCHANGED <<shutdown, threads, queue, worker, caller>>

Next ==
  \/ \E w \in Workers : StartWorker(w) \/ Process(w) \/ WakeUp(w)
  \/ \E r \in Requests : Request(r)
  \/ \E c \in Clients : Shutdown(c) \/ JoinAll(c)

Spec == Init /\ [][Next]_vars

\* DLinkedList::front() asserts m_head != NULL: process() calls it for a
\* request that is there.
FrontExists == \A w \in Workers : worker[w] # "abort"
=============================================================================
