-------------------------- MODULE ThreadPoolProofs --------------------------
(***************************************************************************)
(* Proofs about ThreadPool for any number of clients, workers and tasks    *)
(* and any limits: first its invariants and action properties, then that   *)
(* it implements TaskPool.                                                 *)
(***************************************************************************)
EXTENDS ThreadPool, FiniteSetTheorems, SequenceTheorems, TLAPS

(* The threads of a state class and their number.                          *)

\* The workers in a class of states can be counted.
LEMMA SubsetOfWorkers ==
  ASSUME NEW S \in SUBSET Workers
  PROVE  IsFiniteSet(S) /\ Cardinality(S) \in Nat
BY PoolAssumption, FS_Subset, FS_CardinalityType DEF PoolAssumption

HowMany(f, C) == Cardinality({v \in Workers : f[v] \in C})

\* How the number of workers in a class of states changes when one worker
\* moves.
LEMMA MoveOne ==
  ASSUME NEW f \in [Workers -> WorkerStates], NEW w \in Workers,
         NEW s \in WorkerStates, NEW C
  PROVE  HowMany([f EXCEPT ![w] = s], C) =
                         IF f[w] \notin C /\ s \in C THEN HowMany(f, C) + 1
                         ELSE IF f[w] \in C /\ s \notin C THEN HowMany(f, C) - 1
                         ELSE HowMany(f, C)
<1> DEFINE before == {v \in Workers : f[v] \in C}
           g == [f EXCEPT ![w] = s]
           after  == {v \in Workers : g[v] \in C}
<1>1. IsFiniteSet(before) /\ IsFiniteSet(after)
  BY SubsetOfWorkers
<1>2. ASSUME f[w] \in C <=> s \in C  PROVE after = before
  BY <1>2
<1>3. ASSUME f[w] \notin C, s \in C
      PROVE  Cardinality(after) = Cardinality(before) + 1
  <2>1. after = before \union {w} /\ w \notin before
    BY <1>3
  <2> QED BY <2>1, <1>1, FS_AddElement
<1>4. ASSUME f[w] \in C, s \notin C
      PROVE  Cardinality(after) = Cardinality(before) - 1
  <2>1. after = before \ {w} /\ w \in before
    BY <1>4
  <2> QED BY <2>1, <1>1, FS_RemoveElement
<1> QED BY <1>2, <1>3, <1>4 DEF HowMany

-----------------------------------------------------------------------------
(* The inductive invariant.                                                *)

\* A blocked execute() carries a task, a worker that runs has one.
TasksCarried ==
  /\ \A a \in Threads : caller[a] = "execute" =>
       /\ arg[a] \in Tasks
       /\ "queueMax" \in stored
       /\ stored = Fields \/ "earlyUse" \in Env
  /\ \A w \in Workers : worker[w] = "run" => job[w] \in Tasks

\* Only the code of a task is inside a call of the pool on a worker thread.
NestedCalls == \A w \in Workers : caller[w] # "out" => worker[w] = "run"

\* While the destructor runs no other client is inside the pool, and it
\* walks the queue when no thread is counted.
DestroyAlone ==
  \A c \in Threads : caller[c] \in {"destroy", "drain"} =>
    /\ c \in Clients /\ ~alive /\ shutdown
    /\ \A b \in Clients \ {c} : caller[b] = "out"
    /\ caller[c] = "drain" => running = 0

StopsAreShut ==
  \A a \in Threads : caller[a] = "shutdown" => shutdown

\* Only a worker that may time out waits with a timeout.
TimedWaits ==
  \A w \in Workers : worker[w] = "idle" /\ timeLeft[w] # 0 =>
    Timeout # 0 /\ minThread[w]

\* The pool has a thread while it has work.
Staffed == Steady /\ queue # <<>> /\ ~shutdown => running > 0

IInv ==
  /\ TypeOK
  /\ TasksCarried
  /\ TimedWaits
  /\ CountsExact
  /\ NestedCalls
  /\ DestroyAlone
  /\ StopsAreShut
  /\ WaitersJustified
  /\ NoEmptyPop
  /\ Staffed
  /\ QueueBounded

InitStep(c) == InitPool(c) \/ StoreField(c) \/ InitReturns(c)

\* The steps of Next, with what every one of them may assume.
ExecuteReady(a, t) ==
  /\ caller[a] \in {"out", "execute"}
  /\ a \in Clients => caller[a] = "execute" \/ alive
  /\ a \in Workers => worker[a] = "run"
  /\ a \notin waiters
  /\ stored = Fields \/ "earlyUse" \in Env
  /\ fate[t] = "fresh" \/ (caller[a] = "execute" /\ arg[a] = t)

StopReady(a, after, return) ==
  /\ after \in Stopping
  /\ return = IF after = "shutdown" THEN "out" ELSE "drain"
  /\ caller[a] \in {"out", "whenEmpty"}
  /\ a \in Clients => caller[a] = "whenEmpty" \/ alive
  /\ a \in Workers => worker[a] = "run"
  /\ a \notin waiters
  /\ \/ after = "shutdown" /\ UNCHANGED alive
     \/ /\ after = "destroy" /\ a \in Clients /\ alive' = FALSE
        /\ \A b \in Clients : caller[b] = "out"

WaitsForEmpty(a) ==
  /\ caller[a] \in {"out", "whenEmpty"}
  /\ a \in Clients => caller[a] = "whenEmpty" \/ alive
  /\ a \in Workers => worker[a] = "run"
  /\ a \notin waiters
  /\ queue # <<>>
  /\ waiters' = waiters \union {a}
  /\ caller' = [caller EXCEPT ![a] = "whenEmpty"]
  /\ UNCHANGED <<poolVars, workerVars, arg, alive, fate>>

LeaveReady(w) ==
  /\ w \notin waiters
  /\ \/ worker[w] = "next" /\ UNCHANGED idle
     \/ worker[w] = "idle" /\ idle' = idle - 1
  /\ timeLeft' = [timeLeft EXCEPT ![w] = 0]
  /\ waiters' = {}
  /\ UNCHANGED <<stored, shutdown, callerVars>>

\* NoEmptyPop in one step: PopEmpty is not among the ways to leave.
Leaves(w) ==
  /\ LeaveReady(w)
  /\ \/ ~shutdown /\ TakeFront(w)
     \/ /\ shutdown \/ (Timeout # 0 /\ minThread[w] /\ worker[w] = "idle")
        /\ EndThread(w)

IdleAgain(w, left) ==
  /\ worker[w] = "idle"
  /\ w \notin waiters
  /\ MustWait(w, left)
  /\ left \in Nat
  /\ timeLeft' = [timeLeft EXCEPT ![w] = IF @ = 0 THEN 0 ELSE left]
  /\ waiters' = waiters \union {w}
  /\ UNCHANGED <<poolVars, worker, minThread, job, callerVars, fate>>

\* A thread in no call and not idle is not waiting.
LEMMA NotWaiting ==
  ASSUME IInv, NEW x \in Threads, caller[x] = "out",
         x \in Workers => worker[x] # "idle"
  PROVE  x \notin waiters
BY DEF IInv, WaitersJustified

\* Nor is a worker that does not run a task and is not idle.
LEMMA NotIdleWaiting ==
  ASSUME IInv, NEW w \in Workers, worker[w] \notin {"idle", "run"}
  PROVE  w \notin waiters
BY DEF IInv, WaitersJustified, NestedCalls, Threads

\* Next as a list of cases, with what each of them may assume.
LEMMA Steps ==
  ASSUME IInv, Next
  PROVE  \/ \E c \in Clients : InitStep(c)
         \/ \E a \in Threads, t \in Tasks :
              /\ ExecuteReady(a, t)
              /\ \/ Block(a, t) /\ UNCHANGED alive
                 \/ Refuse(a, t) /\ UNCHANGED alive
                 \/ Notify(a, t)
                 \/ \E w \in Workers : Spawn(a, t, w)
         \/ \E a \in Threads, after, return \in CallerStates :
              StopReady(a, after, return) /\ Stop(a, after, return)
         \/ \E a \in Threads : \/ ShutdownWake(a, "shutdown", "out")
                               \/ ShutdownWake(a, "destroy", "drain")
         \/ \E a \in Threads : WaitsForEmpty(a)
         \/ \E c \in Threads : Drain(c)
         \/ \E w \in Workers, left \in Nat :
              \/ GoIdle(w, left) /\ worker[w] = "next"
                 /\ UNCHANGED <<stored, shutdown, callerVars>>
              \/ IdleAgain(w, left)
              \/ Leaves(w)
         \/ \E x \in Threads : WakeUp(x)
         \/ \E w \in Workers : TaskReturns(w) \/ TaskThrows(w)
<1> USE DEF Stopping, CallerStates, WorkerStates
<1>1. ASSUME NEW a \in Threads, NEW t \in Tasks, Execute(a, t)
      PROVE  ExecuteReady(a, t) /\ ExecuteBody(a, t)
  BY <1>1, NotWaiting, PoolAssumption
     DEF Execute, MayCall, ExecuteReady, Threads, PoolAssumption
<1>2. ASSUME NEW a \in Threads, ExecuteWake(a)
      PROVE  /\ arg[a] \in Tasks
             /\ ExecuteReady(a, arg[a]) /\ ExecuteBody(a, arg[a])
  BY <1>2 DEF ExecuteWake, ExecuteReady, IInv, TasksCarried, NestedCalls
<1>3. ASSUME NEW a \in Threads, NEW kind, MayCall(a, kind)
      PROVE  /\ caller[a] = "out" /\ a \notin waiters
             /\ a \in Clients => alive
             /\ a \in Workers => worker[a] = "run"
  BY <1>3, NotWaiting, PoolAssumption DEF MayCall, Threads, PoolAssumption
<1>4. ASSUME NEW a \in Threads, Shutdown(a)
      PROVE  StopReady(a, "shutdown", "out") /\ Stop(a, "shutdown", "out")
  BY <1>4, <1>3 DEF Shutdown, StopReady
<1>5. ASSUME NEW a \in Threads, ShutdownWhenEmpty(a) \/ WhenEmptyWake(a)
      PROVE  \/ WaitsForEmpty(a)
             \/ StopReady(a, "shutdown", "out") /\ Stop(a, "shutdown", "out")
  <2>1. /\ caller[a] \in {"out", "whenEmpty"}
        /\ a \in Clients => caller[a] = "whenEmpty" \/ alive
        /\ a \in Workers => worker[a] = "run"
        /\ a \notin waiters
        /\ WhenEmptyBody(a) /\ UNCHANGED alive
    BY <1>5, <1>3 DEF ShutdownWhenEmpty, WhenEmptyWake, IInv, NestedCalls
  <2>2. CASE queue = <<>>
    BY <2>1, <2>2 DEF WhenEmptyBody, StopReady
  <2>3. CASE queue # <<>>
    BY <2>1, <2>3 DEF WhenEmptyBody, WaitsForEmpty
  <2> QED BY <2>2, <2>3
<1>6. ASSUME NEW c \in Clients, Destroy(c)
      PROVE  StopReady(c, "destroy", "drain") /\ Stop(c, "destroy", "drain")
  <2>1. c \in Threads /\ c \notin Workers /\ caller[c] = "out"
    BY <1>6, PoolAssumption DEF Destroy, Threads, PoolAssumption
  <2> QED BY <1>6, <2>1, NotWaiting DEF Destroy, StopReady
<1>7. ASSUME NEW w \in Workers, GetNext(w)
      PROVE  \E left \in Nat :
               \/ GoIdle(w, left) /\ worker[w] = "next"
                  /\ UNCHANGED <<stored, shutdown, callerVars>>
               \/ Leaves(w)
  <2> DEFINE left == IF Untimed(w) THEN 1 ELSE timeout
  <2>1. left \in Nat /\ left # 0
    BY PoolAssumption DEF PoolAssumption, Untimed, timeout, StoredBy
  <2>2. w \notin waiters
    BY <1>7, NotIdleWaiting DEF GetNext
  <2>3. CASE GoIdle(w, left)
    BY <1>7, <2>1, <2>3 DEF GetNext
  <2>4. CASE ~MustWait(w, left) /\ Leave(w, left) /\ UNCHANGED idle
    <3>1. LeaveReady(w)
      BY <1>7, <2>2, <2>4 DEF GetNext, LeaveReady, Leave, SignalAll
    <3> QED
      BY <3>1, <2>1, <2>4 DEF Leaves, Leave, MustWait, PopEmpty
  <2> QED BY <1>7, <2>3, <2>4 DEF GetNext
<1>8. ASSUME NEW w \in Workers, IdleWake(w)
      PROVE  \E left \in Nat :
               \/ IdleAgain(w, left)
               \/ Leaves(w)
  <2>1. PICK left \in IF timeLeft[w] = 0 THEN {1} ELSE 0..timeLeft[w] :
          \/ /\ MustWait(w, left)
             /\ timeLeft' = [timeLeft EXCEPT ![w] = IF @ = 0 THEN 0 ELSE left]
             /\ waiters' = waiters \union {w}
             /\ UNCHANGED <<running, idle, queue, worker, minThread, job, fate>>
          \/ ~MustWait(w, left) /\ Leave(w, left) /\ idle' = idle - 1
    BY <1>8 DEF IdleWake
  <2>2. left \in Nat
    BY <2>1 DEF IInv, TypeOK
  <2>4. /\ worker[w] = "idle" /\ w \notin waiters
        /\ UNCHANGED <<stored, shutdown, callerVars>>
    BY <1>8 DEF IdleWake
  <2>3. left = 0 => Timeout # 0 /\ minThread[w]
    BY <2>1, <2>4 DEF IInv, TimedWaits
  <2>5. CASE MustWait(w, left)
    BY <2>1, <2>2, <2>4, <2>5 DEF IdleAgain, poolVars
  <2>6. CASE ~MustWait(w, left)
    <3>1. LeaveReady(w)
      BY <2>1, <2>4, <2>6 DEF LeaveReady, Leave, SignalAll
    <3> QED
      BY <3>1, <2>1, <2>2, <2>3, <2>4, <2>6
         DEF Leaves, Leave, MustWait, PopEmpty
  <2> QED BY <2>5, <2>6
<1>9. ASSUME NEW a \in Threads, CallStep(a)
      PROVE  \/ \E t \in Tasks : Execute(a, t)
             \/ ExecuteWake(a)
             \/ Shutdown(a)
             \/ ShutdownWake(a, "shutdown", "out")
             \/ ShutdownWake(a, "destroy", "drain")
             \/ ShutdownWhenEmpty(a) \/ WhenEmptyWake(a)
             \/ Drain(a)
  BY <1>9 DEF CallStep
<1>10. CASE \E c \in Clients : InitStep(c) \/ Destroy(c)
  BY <1>10, <1>6 DEF Threads
<1>11. CASE \E a \in Threads : CallStep(a) \/ WakeUp(a)
  BY <1>11, <1>1, <1>2, <1>4, <1>5, <1>9 DEF ExecuteBody
<1>12. CASE \E w \in Workers : WorkerStep(w)
  BY <1>12, <1>7, <1>8 DEF WorkerStep
<1> QED BY <1>10, <1>11, <1>12 DEF Next, InitStep

-----------------------------------------------------------------------------
(* One lemma for each part of the invariant: a step preserves it.          *)

\* What the counters say about the threads.
LEMMA Counted ==
  ASSUME IInv
  PROVE  /\ \A w \in Workers : worker[w] # "none" => running > 0
         /\ \A w \in Workers : worker[w] = "idle" => idle > 0
         /\ running > 0 => \E w \in Workers : worker[w] # "none"
         /\ idle > 0 => \E w \in Workers : worker[w] = "idle"
<1>1. \A S \in SUBSET Workers : Cardinality(S) > 0 <=> S # {}
  BY SubsetOfWorkers, FS_EmptySet
<1>2. InState({"idle"}) \in SUBSET Workers
  BY DEF InState
<1>3. InState(WorkerStates \ {"none"}) \in SUBSET Workers
  BY DEF InState
<1> QED BY <1>1, <1>2, <1>3 DEF IInv, CountsExact, InState, TypeOK

\* What a step of init() changes: a field, or where the caller is.
LEMMA InitChanges ==
  ASSUME IInv, NEW c \in Clients, InitStep(c)
  PROVE  /\ c \in Threads /\ c \notin Workers /\ c \notin waiters
         /\ caller[c] \in {"out", "init"} /\ caller'[c] \in {"out", "init"}
         /\ \A b \in Threads \ {c} : caller'[b] = caller[b]
         /\ DOMAIN caller' = Threads
         /\ stored \subseteq stored'
         /\ UNCHANGED <<shutdown, running, idle, queue, waiters, workerVars,
                        arg, alive, fate>>
<1>1. c \in Threads /\ c \notin Workers
  BY PoolAssumption DEF PoolAssumption, Threads
<1>2. caller[c] \in {"out", "init"}
  BY DEF InitStep, InitPool, StoreField, InitReturns
<1>3. c \notin waiters
  BY <1>1, <1>2 DEF IInv, WaitersJustified
<1> QED
  BY <1>1, <1>2, <1>3
     DEF InitStep, InitPool, StoreField, InitReturns, IInv, TypeOK, poolVars,
         callerVars

\* A step leaves only running workers inside a call of the pool.
LEMMA NestedStep ==
  ASSUME IInv, Next  PROVE NestedCalls'
<1> USE DEF IInv, TypeOK, NestedCalls, Threads, poolVars, workerVars, callerVars
<1>1. ASSUME NEW c \in Clients, InitStep(c)
      PROVE  NestedCalls'
  BY <1>1, InitChanges
<1>2. ASSUME NEW a \in Threads, NEW t \in Tasks, ExecuteReady(a, t),
       Block(a, t), UNCHANGED alive
      PROVE  NestedCalls'
  BY <1>2 DEF Block, ExecuteReady
<1>3. ASSUME NEW a \in Threads, NEW t \in Tasks, ExecuteReady(a, t),
       Refuse(a, t), UNCHANGED alive
      PROVE  NestedCalls'
  BY <1>3 DEF Refuse, Returns
<1>4. ASSUME NEW a \in Threads, NEW t \in Tasks, ExecuteReady(a, t),
       Notify(a, t)
      PROVE  NestedCalls'
  BY <1>4 DEF Notify, Enqueue, Returns, SignalAll
<1>5. ASSUME NEW a \in Threads, NEW t \in Tasks, ExecuteReady(a, t),
       NEW w \in Workers, Spawn(a, t, w)
      PROVE  NestedCalls'
  BY <1>5 DEF Spawn, Enqueue, Returns
<1>6. ASSUME NEW a \in Threads, NEW after, NEW return \in CallerStates,
       StopReady(a, after, return), Stop(a, after, return)
      PROVE  NestedCalls'
  BY <1>6 DEF Stop, StopReady, ThreadsLeft
<1>7. ASSUME NEW a \in Threads, ShutdownWake(a, "shutdown", "out")
      PROVE  NestedCalls'
  BY <1>7 DEF ShutdownWake, ThreadsLeft
<1>8. ASSUME NEW a \in Threads, ShutdownWake(a, "destroy", "drain")
      PROVE  NestedCalls'
  BY <1>8 DEF ShutdownWake, ThreadsLeft
<1>9. ASSUME NEW a \in Threads, WaitsForEmpty(a)
      PROVE  NestedCalls'
  BY <1>9 DEF WaitsForEmpty
<1>10. ASSUME NEW c \in Threads, Drain(c)
      PROVE  NestedCalls'
  BY <1>10 DEF Drain
<1>11. ASSUME NEW w \in Workers, NEW left \in Nat, worker[w] = "next",
       GoIdle(w, left), UNCHANGED <<stored, shutdown, callerVars>>
      PROVE  NestedCalls'
  BY <1>11 DEF GoIdle
<1>12. ASSUME NEW w \in Workers, NEW left \in Nat, IdleAgain(w, left)
      PROVE  NestedCalls'
  BY <1>12 DEF IdleAgain
<1>13. ASSUME NEW w \in Workers, LeaveReady(w), TakeFront(w), ~shutdown
      PROVE  NestedCalls'
  BY <1>13 DEF LeaveReady, TakeFront
<1>14. ASSUME NEW w \in Workers, LeaveReady(w), EndThread(w),
       shutdown \/ (Timeout # 0 /\ minThread[w])
      PROVE  NestedCalls'
  BY <1>14 DEF LeaveReady, EndThread
<1>15. ASSUME NEW x \in Threads, WakeUp(x)
      PROVE  NestedCalls'
  BY <1>15 DEF WakeUp
<1>16. ASSUME NEW w \in Workers, TaskReturns(w) \/ TaskThrows(w)
      PROVE  NestedCalls'
  BY <1>16 DEF TaskReturns, TaskThrows
<1> QED
  BY Steps, <1>1, <1>2, <1>3, <1>4, <1>5, <1>6, <1>7, <1>8, <1>9, <1>10,
     <1>11, <1>12, <1>13, <1>14, <1>15, <1>16 DEF Leaves

\* A step leaves whoever is in a shutdown function with a pool that is shut down.
LEMMA StopsStep ==
  ASSUME IInv, Next  PROVE StopsAreShut'
<1> USE DEF IInv, TypeOK, StopsAreShut, poolVars, workerVars, callerVars
<1>1. ASSUME NEW c \in Clients, InitStep(c)
      PROVE  StopsAreShut'
  BY <1>1 DEF InitStep, InitPool, StoreField, InitReturns
<1>2. ASSUME NEW a \in Threads, NEW t \in Tasks, ExecuteReady(a, t),
       Block(a, t), UNCHANGED alive
      PROVE  StopsAreShut'
  BY <1>2 DEF Block
<1>3. ASSUME NEW a \in Threads, NEW t \in Tasks, ExecuteReady(a, t),
       Refuse(a, t), UNCHANGED alive
      PROVE  StopsAreShut'
  BY <1>3 DEF Refuse, Returns
<1>4. ASSUME NEW a \in Threads, NEW t \in Tasks, ExecuteReady(a, t),
       Notify(a, t)
      PROVE  StopsAreShut'
  BY <1>4 DEF Notify, Enqueue, Returns, SignalAll
<1>5. ASSUME NEW a \in Threads, NEW t \in Tasks, ExecuteReady(a, t),
       NEW w \in Workers, Spawn(a, t, w)
      PROVE  StopsAreShut'
  BY <1>5 DEF Spawn, Enqueue, Returns
<1>6. ASSUME NEW a \in Threads, NEW after, NEW return \in CallerStates,
       StopReady(a, after, return), Stop(a, after, return)
      PROVE  StopsAreShut'
  BY <1>6 DEF Stop, StopReady, ThreadsLeft
<1>7. ASSUME NEW a \in Threads, ShutdownWake(a, "shutdown", "out")
      PROVE  StopsAreShut'
  BY <1>7 DEF ShutdownWake, ThreadsLeft
<1>8. ASSUME NEW a \in Threads, ShutdownWake(a, "destroy", "drain")
      PROVE  StopsAreShut'
  BY <1>8 DEF ShutdownWake, ThreadsLeft
<1>9. ASSUME NEW a \in Threads, WaitsForEmpty(a)
      PROVE  StopsAreShut'
  BY <1>9 DEF WaitsForEmpty
<1>10. ASSUME NEW c \in Threads, Drain(c)
      PROVE  StopsAreShut'
  BY <1>10 DEF Drain
<1>11. ASSUME NEW w \in Workers, NEW left \in Nat, worker[w] = "next",
       GoIdle(w, left), UNCHANGED <<stored, shutdown, callerVars>>
      PROVE  StopsAreShut'
  BY <1>11 DEF GoIdle
<1>12. ASSUME NEW w \in Workers, NEW left \in Nat, IdleAgain(w, left)
      PROVE  StopsAreShut'
  BY <1>12 DEF IdleAgain
<1>13. ASSUME NEW w \in Workers, LeaveReady(w), TakeFront(w), ~shutdown
      PROVE  StopsAreShut'
  BY <1>13 DEF LeaveReady, TakeFront
<1>14. ASSUME NEW w \in Workers, LeaveReady(w), EndThread(w),
       shutdown \/ (Timeout # 0 /\ minThread[w])
      PROVE  StopsAreShut'
  BY <1>14 DEF LeaveReady, EndThread
<1>15. ASSUME NEW x \in Threads, WakeUp(x)
      PROVE  StopsAreShut'
  BY <1>15 DEF WakeUp
<1>16. ASSUME NEW w \in Workers, TaskReturns(w) \/ TaskThrows(w)
      PROVE  StopsAreShut'
  BY <1>16 DEF TaskReturns, TaskThrows
<1> QED
  BY Steps, <1>1, <1>2, <1>3, <1>4, <1>5, <1>6, <1>7, <1>8, <1>9, <1>10,
     <1>11, <1>12, <1>13, <1>14, <1>15, <1>16 DEF Leaves

\* A step leaves blocked callers and running workers with a task.
LEMMA CarriedStep ==
  ASSUME IInv, Next  PROVE TasksCarried'
<1> USE DEF IInv, TypeOK, TasksCarried, poolVars, workerVars, callerVars
<1>1. ASSUME NEW c \in Clients, InitStep(c)
      PROVE  TasksCarried'
  BY <1>1 DEF InitStep, InitPool, StoreField, InitReturns
<1>2. ASSUME NEW a \in Threads, NEW t \in Tasks, ExecuteReady(a, t),
       Block(a, t), UNCHANGED alive
      PROVE  TasksCarried'
  BY <1>2 DEF Block, ExecuteReady, QueueFull, queueMax, StoredBy
<1>3. ASSUME NEW a \in Threads, NEW t \in Tasks, ExecuteReady(a, t),
       Refuse(a, t), UNCHANGED alive
      PROVE  TasksCarried'
  BY <1>3 DEF Refuse, Returns
<1>4. ASSUME NEW a \in Threads, NEW t \in Tasks, ExecuteReady(a, t),
       Notify(a, t)
      PROVE  TasksCarried'
  BY <1>4 DEF Notify, Enqueue, Returns, SignalAll
<1>5. ASSUME NEW a \in Threads, NEW t \in Tasks, ExecuteReady(a, t),
       NEW w \in Workers, Spawn(a, t, w)
      PROVE  TasksCarried'
  BY <1>5 DEF Spawn, Enqueue, Returns
<1>6. ASSUME NEW a \in Threads, NEW after, NEW return \in CallerStates,
       StopReady(a, after, return), Stop(a, after, return)
      PROVE  TasksCarried'
  BY <1>6 DEF Stop, StopReady, ThreadsLeft
<1>7. ASSUME NEW a \in Threads, ShutdownWake(a, "shutdown", "out")
      PROVE  TasksCarried'
  BY <1>7 DEF ShutdownWake, ThreadsLeft
<1>8. ASSUME NEW a \in Threads, ShutdownWake(a, "destroy", "drain")
      PROVE  TasksCarried'
  BY <1>8 DEF ShutdownWake, ThreadsLeft
<1>9. ASSUME NEW a \in Threads, WaitsForEmpty(a)
      PROVE  TasksCarried'
  BY <1>9 DEF WaitsForEmpty
<1>10. ASSUME NEW c \in Threads, Drain(c)
      PROVE  TasksCarried'
  BY <1>10 DEF Drain
<1>11. ASSUME NEW w \in Workers, NEW left \in Nat, worker[w] = "next",
       GoIdle(w, left), UNCHANGED <<stored, shutdown, callerVars>>
      PROVE  TasksCarried'
  BY <1>11 DEF GoIdle
<1>12. ASSUME NEW w \in Workers, NEW left \in Nat, IdleAgain(w, left)
      PROVE  TasksCarried'
  BY <1>12 DEF IdleAgain
<1>13. ASSUME NEW w \in Workers, LeaveReady(w), TakeFront(w), ~shutdown
      PROVE  TasksCarried'
  <2>1. Head(queue) \in Tasks
    BY <1>13, HeadTailProperties DEF TakeFront
  <2> QED BY <1>13, <2>1 DEF LeaveReady, TakeFront
<1>14. ASSUME NEW w \in Workers, LeaveReady(w), EndThread(w),
       shutdown \/ (Timeout # 0 /\ minThread[w])
      PROVE  TasksCarried'
  BY <1>14 DEF LeaveReady, EndThread
<1>15. ASSUME NEW x \in Threads, WakeUp(x)
      PROVE  TasksCarried'
  BY <1>15 DEF WakeUp
<1>16. ASSUME NEW w \in Workers, TaskReturns(w) \/ TaskThrows(w)
      PROVE  TasksCarried'
  BY <1>16 DEF TaskReturns, TaskThrows
<1> QED
  BY Steps, <1>1, <1>2, <1>3, <1>4, <1>5, <1>6, <1>7, <1>8, <1>9, <1>10,
     <1>11, <1>12, <1>13, <1>14, <1>15, <1>16 DEF Leaves

\* A step leaves the destructor alone in the pool.
LEMMA DestroyStep ==
  ASSUME IInv, Next  PROVE DestroyAlone'
<1> USE DEF IInv, TypeOK, DestroyAlone, Threads, poolVars, workerVars, callerVars
<1>1. ASSUME NEW c \in Clients, InitStep(c)
      PROVE  DestroyAlone'
  BY <1>1 DEF InitStep, InitPool, StoreField, InitReturns
<1>2. ASSUME NEW a \in Threads, NEW t \in Tasks, ExecuteReady(a, t),
       Block(a, t), UNCHANGED alive
      PROVE  DestroyAlone'
  BY <1>2 DEF Block
<1>3. ASSUME NEW a \in Threads, NEW t \in Tasks, ExecuteReady(a, t),
       Refuse(a, t), UNCHANGED alive
      PROVE  DestroyAlone'
  BY <1>3 DEF Refuse, Returns
<1>4. ASSUME NEW a \in Threads, NEW t \in Tasks, ExecuteReady(a, t),
       Notify(a, t)
      PROVE  DestroyAlone'
  BY <1>4 DEF Notify, Enqueue, Returns, SignalAll
<1>5. ASSUME NEW a \in Threads, NEW t \in Tasks, ExecuteReady(a, t),
       NEW w \in Workers, Spawn(a, t, w)
      PROVE  DestroyAlone'
  BY <1>5 DEF Spawn, Enqueue, Returns
<1>6. ASSUME NEW a \in Threads, NEW after, NEW return \in CallerStates,
       StopReady(a, after, return), Stop(a, after, return)
      PROVE  DestroyAlone'
  BY <1>6 DEF Stop, StopReady, ThreadsLeft
<1>7. ASSUME NEW a \in Threads, ShutdownWake(a, "shutdown", "out")
      PROVE  DestroyAlone'
  BY <1>7 DEF ShutdownWake, ThreadsLeft
<1>8. ASSUME NEW a \in Threads, ShutdownWake(a, "destroy", "drain")
      PROVE  DestroyAlone'
  BY <1>8 DEF ShutdownWake, ThreadsLeft
<1>9. ASSUME NEW a \in Threads, WaitsForEmpty(a)
      PROVE  DestroyAlone'
  BY <1>9 DEF WaitsForEmpty
<1>10. ASSUME NEW c \in Threads, Drain(c)
      PROVE  DestroyAlone'
  BY <1>10 DEF Drain
<1>11. ASSUME NEW w \in Workers, NEW left \in Nat, worker[w] = "next",
       GoIdle(w, left), UNCHANGED <<stored, shutdown, callerVars>>
      PROVE  DestroyAlone'
  BY <1>11 DEF GoIdle
<1>12. ASSUME NEW w \in Workers, NEW left \in Nat, IdleAgain(w, left)
      PROVE  DestroyAlone'
  BY <1>12 DEF IdleAgain
<1>13. ASSUME NEW w \in Workers, LeaveReady(w), TakeFront(w), ~shutdown
      PROVE  DestroyAlone'
  BY <1>13 DEF LeaveReady, TakeFront
<1>14. ASSUME NEW w \in Workers, LeaveReady(w), EndThread(w),
       shutdown \/ (Timeout # 0 /\ minThread[w])
      PROVE  DestroyAlone'
  <2>1. running > 0
    BY <1>14, Counted DEF LeaveReady
  <2> QED BY <1>14, <2>1 DEF LeaveReady, EndThread
<1>15. ASSUME NEW x \in Threads, WakeUp(x)
      PROVE  DestroyAlone'
  BY <1>15 DEF WakeUp
<1>16. ASSUME NEW w \in Workers, TaskReturns(w) \/ TaskThrows(w)
      PROVE  DestroyAlone'
  BY <1>16 DEF TaskReturns, TaskThrows
<1> QED
  BY Steps, <1>1, <1>2, <1>3, <1>4, <1>5, <1>6, <1>7, <1>8, <1>9, <1>10,
     <1>11, <1>12, <1>13, <1>14, <1>15, <1>16 DEF Leaves





\* The counters are exact again after one worker moved and they followed.
LEMMA CountersFollow ==
  ASSUME IInv, NEW w \in Workers, NEW s \in WorkerStates,
         worker' = [worker EXCEPT ![w] = s],
         running' = IF worker[w] = "none" /\ s # "none" THEN running + 1
                    ELSE IF worker[w] # "none" /\ s = "none" THEN running - 1
                    ELSE running,
         idle' = IF worker[w] # "idle" /\ s = "idle" THEN idle + 1
                 ELSE IF worker[w] = "idle" /\ s # "idle" THEN idle - 1
                 ELSE idle
  PROVE  /\ running' = Cardinality(InState(WorkerStates \ {"none"}))'
         /\ idle' = Cardinality(InState({"idle"}))'
<1> DEFINE counted == WorkerStates \ {"none"}
<1>1. /\ worker \in [Workers -> WorkerStates] /\ worker[w] \in WorkerStates
      /\ running = HowMany(worker, counted)
      /\ idle = HowMany(worker, {"idle"})
  BY DEF IInv, TypeOK, CountsExact, InState, HowMany
<1>2. running' = HowMany(worker', counted)
  <2>1. /\ worker[w] \in counted <=> worker[w] # "none"
        /\ s \in counted <=> s # "none"
    BY <1>1
  <2> HIDE DEF counted
  <2>2. HowMany(worker', counted) =
          IF worker[w] \notin counted /\ s \in counted
          THEN HowMany(worker, counted) + 1
          ELSE IF worker[w] \in counted /\ s \notin counted
          THEN HowMany(worker, counted) - 1
          ELSE HowMany(worker, counted)
    BY <1>1, MoveOne
  <2> QED BY <1>1, <2>1, <2>2
<1>3. idle' = HowMany(worker', {"idle"})
  <2>1. HowMany(worker', {"idle"}) =
          IF worker[w] \notin {"idle"} /\ s \in {"idle"}
          THEN HowMany(worker, {"idle"}) + 1
          ELSE IF worker[w] \in {"idle"} /\ s \notin {"idle"}
          THEN HowMany(worker, {"idle"}) - 1
          ELSE HowMany(worker, {"idle"})
    BY <1>1, MoveOne
  <2> QED BY <1>1, <2>1
<1> QED BY <1>2, <1>3 DEF InState, HowMany

\* A step keeps m_runningThreads and m_idleThreads exact.
LEMMA CountsStep ==
  ASSUME IInv, Next  PROVE CountsExact'
<1> USE DEF IInv, TypeOK, CountsExact, InState, poolVars, workerVars, callerVars
<1>1. ASSUME NEW c \in Clients, InitStep(c)
      PROVE  CountsExact'
  BY <1>1 DEF InitStep, InitPool, StoreField, InitReturns
<1>2. ASSUME NEW a \in Threads, NEW t \in Tasks, ExecuteReady(a, t),
       Block(a, t), UNCHANGED alive
      PROVE  CountsExact'
  BY <1>2 DEF Block
<1>3. ASSUME NEW a \in Threads, NEW t \in Tasks, ExecuteReady(a, t),
       Refuse(a, t), UNCHANGED alive
      PROVE  CountsExact'
  BY <1>3 DEF Refuse, Returns
<1>4. ASSUME NEW a \in Threads, NEW t \in Tasks, ExecuteReady(a, t),
       Notify(a, t)
      PROVE  CountsExact'
  BY <1>4 DEF Notify, Enqueue, Returns, SignalAll
<1>5. ASSUME NEW a \in Threads, NEW t \in Tasks, ExecuteReady(a, t),
       NEW w \in Workers, Spawn(a, t, w)
      PROVE  CountsExact'
  <2>1. \E s \in {"next", "lost"} : worker' = [worker EXCEPT ![w] = s]
    BY <1>5 DEF Spawn
  <2>2. /\ worker[w] = "none" /\ running' = running + 1
        /\ idle' = idle /\ running < maxThreads
    BY <1>5 DEF Spawn, CreatesThread
  <2>3. running' <= MaxThreads
    BY <2>2, PoolAssumption DEF PoolAssumption, maxThreads, StoredBy
  <2> QED BY <2>1, <2>2, <2>3, CountersFollow DEF WorkerStates
<1>6. ASSUME NEW a \in Threads, NEW after, NEW return \in CallerStates,
       StopReady(a, after, return), Stop(a, after, return)
      PROVE  CountsExact'
  BY <1>6 DEF Stop, StopReady, ThreadsLeft
<1>7. ASSUME NEW a \in Threads, ShutdownWake(a, "shutdown", "out")
      PROVE  CountsExact'
  BY <1>7 DEF ShutdownWake, ThreadsLeft
<1>8. ASSUME NEW a \in Threads, ShutdownWake(a, "destroy", "drain")
      PROVE  CountsExact'
  BY <1>8 DEF ShutdownWake, ThreadsLeft
<1>9. ASSUME NEW a \in Threads, WaitsForEmpty(a)
      PROVE  CountsExact'
  BY <1>9 DEF WaitsForEmpty
<1>10. ASSUME NEW c \in Threads, Drain(c)
      PROVE  CountsExact'
  BY <1>10 DEF Drain
<1>11. ASSUME NEW w \in Workers, NEW left \in Nat, worker[w] = "next",
       GoIdle(w, left), UNCHANGED <<stored, shutdown, callerVars>>
      PROVE  CountsExact'
  <2>1. /\ worker' = [worker EXCEPT ![w] = "idle"]
        /\ running' = running /\ idle' = idle + 1
    BY <1>11 DEF GoIdle
  <2> QED BY <1>11, <2>1, CountersFollow DEF WorkerStates
<1>12. ASSUME NEW w \in Workers, NEW left \in Nat, IdleAgain(w, left)
      PROVE  CountsExact'
  BY <1>12 DEF IdleAgain
<1>13. ASSUME NEW w \in Workers, LeaveReady(w), TakeFront(w), ~shutdown
      PROVE  CountsExact'
  <2>1. /\ worker' = [worker EXCEPT ![w] = "run"] /\ running' = running
        /\ \/ worker[w] = "next" /\ idle' = idle
           \/ worker[w] = "idle" /\ idle' = idle - 1
    BY <1>13 DEF LeaveReady, TakeFront
  <2> QED BY <2>1, CountersFollow DEF WorkerStates
<1>14. ASSUME NEW w \in Workers, LeaveReady(w), EndThread(w),
       shutdown \/ (Timeout # 0 /\ minThread[w])
      PROVE  CountsExact'
  <2>1. /\ worker' = [worker EXCEPT ![w] = "none"] /\ running' = running - 1
        /\ \/ worker[w] = "next" /\ idle' = idle
           \/ worker[w] = "idle" /\ idle' = idle - 1
    BY <1>14 DEF LeaveReady, EndThread
  <2>2. running - 1 <= MaxThreads
    BY PoolAssumption DEF PoolAssumption
  <2> QED BY <2>1, <2>2, CountersFollow DEF WorkerStates
<1>15. ASSUME NEW x \in Threads, WakeUp(x)
      PROVE  CountsExact'
  BY <1>15 DEF WakeUp
<1>16. ASSUME NEW w \in Workers, TaskReturns(w) \/ TaskThrows(w)
      PROVE  CountsExact'
  <2>1. \E s \in {"next", "lost"} : worker' = [worker EXCEPT ![w] = s]
    BY <1>16 DEF TaskReturns, TaskThrows
  <2>2. worker[w] = "run" /\ running' = running /\ idle' = idle
    BY <1>16 DEF TaskReturns, TaskThrows
  <2> QED BY <2>1, <2>2, CountersFollow DEF WorkerStates
<1> QED
  BY Steps, <1>1, <1>2, <1>3, <1>4, <1>5, <1>6, <1>7, <1>8, <1>9, <1>10,
     <1>11, <1>12, <1>13, <1>14, <1>15, <1>16 DEF Leaves

\* A step keeps every field of its type.
LEMMA TypeStep ==
  ASSUME IInv, Next  PROVE TypeOK'
<1> USE DEF IInv, TypeOK, poolVars, workerVars, callerVars, Fates, CallerStates
<1>1. ASSUME NEW c \in Clients, InitStep(c)
      PROVE  TypeOK'
  BY <1>1 DEF InitStep, InitPool, StoreField, InitReturns
<1>2. ASSUME NEW a \in Threads, NEW t \in Tasks, ExecuteReady(a, t),
       Block(a, t), UNCHANGED alive
      PROVE  TypeOK'
  BY <1>2 DEF Block
<1>3. ASSUME NEW a \in Threads, NEW t \in Tasks, ExecuteReady(a, t),
       Refuse(a, t), UNCHANGED alive
      PROVE  TypeOK'
  BY <1>3 DEF Refuse, Returns
<1>4. ASSUME NEW a \in Threads, NEW t \in Tasks, ExecuteReady(a, t),
       Notify(a, t)
      PROVE  TypeOK'
  <2>1. Append(queue, t) \in Seq(Tasks)
    BY AppendProperties
  <2> QED BY <1>4, <2>1 DEF Notify, Enqueue, Returns, SignalAll
<1>5. ASSUME NEW a \in Threads, NEW t \in Tasks, ExecuteReady(a, t),
       NEW w \in Workers, Spawn(a, t, w)
      PROVE  TypeOK'
  <2>1. Append(queue, t) \in Seq(Tasks)
    BY AppendProperties
  <2>2. minThread' \in [Workers -> BOOLEAN]
    <3> DEFINE flag == running < minThreads
    <3>1. flag \in BOOLEAN
      BY DEF flag
    <3>2. minThread' = [minThread EXCEPT ![w] = flag]
      BY <1>5 DEF Spawn
    <3> HIDE DEF flag
    <3> QED BY <3>1, <3>2
  <2>3. running' = running + 1
    BY <1>5 DEF Spawn
  <2>4. \E s \in {"next", "lost"} : worker' = [worker EXCEPT ![w] = s]
    BY <1>5 DEF Spawn
  <2>5. worker' \in [Workers -> WorkerStates]
    BY <2>4 DEF WorkerStates
  <2>6. /\ queue' = Append(queue, t)
        /\ fate' = [fate EXCEPT ![t] = "queued"]
        /\ caller' = [caller EXCEPT ![a] = "out"]
        /\ arg' = [arg EXCEPT ![a] = NoTask]
        /\ UNCHANGED <<stored, shutdown, idle, waiters, timeLeft, job, alive>>
    BY <1>5 DEF Spawn, Enqueue, Returns
  <2> QED BY <2>1, <2>2, <2>3, <2>5, <2>6
<1>6. ASSUME NEW a \in Threads, NEW after, NEW return \in CallerStates,
       StopReady(a, after, return), Stop(a, after, return)
      PROVE  TypeOK'
  BY <1>6 DEF Stop, StopReady, ThreadsLeft, Stopping, Threads
<1>7. ASSUME NEW a \in Threads, ShutdownWake(a, "shutdown", "out")
      PROVE  TypeOK'
  BY <1>7 DEF ShutdownWake, ThreadsLeft
<1>8. ASSUME NEW a \in Threads, ShutdownWake(a, "destroy", "drain")
      PROVE  TypeOK'
  BY <1>8 DEF ShutdownWake, ThreadsLeft
<1>9. ASSUME NEW a \in Threads, WaitsForEmpty(a)
      PROVE  TypeOK'
  BY <1>9 DEF WaitsForEmpty
<1>10. ASSUME NEW c \in Threads, Drain(c)
      PROVE  TypeOK'
  BY <1>10 DEF Drain
<1>11. ASSUME NEW w \in Workers, NEW left \in Nat, worker[w] = "next",
       GoIdle(w, left), UNCHANGED <<stored, shutdown, callerVars>>
      PROVE  TypeOK'
  BY <1>11 DEF GoIdle, WorkerStates, Threads
<1>12. ASSUME NEW w \in Workers, NEW left \in Nat, IdleAgain(w, left)
      PROVE  TypeOK'
  BY <1>12 DEF IdleAgain, Threads
<1>13. ASSUME NEW w \in Workers, LeaveReady(w), TakeFront(w), ~shutdown
      PROVE  TypeOK'
  <2>1. Head(queue) \in Tasks /\ Tail(queue) \in Seq(Tasks)
    BY <1>13, HeadTailProperties DEF TakeFront
  <2>2. worker[w] = "idle" => idle > 0
    BY Counted
  <2>3. idle' \in Nat
    BY <1>13, <2>2 DEF LeaveReady
  <2> QED BY <1>13, <2>1, <2>3 DEF LeaveReady, TakeFront, WorkerStates
<1>14. ASSUME NEW w \in Workers, LeaveReady(w), EndThread(w),
       shutdown \/ (Timeout # 0 /\ minThread[w])
      PROVE  TypeOK'
  <2>1. worker[w] = "idle" => idle > 0
    BY Counted
  <2>2. running > 0
    BY <1>14, Counted DEF LeaveReady
  <2>3. idle' \in Nat /\ running' \in Nat
    BY <1>14, <2>1, <2>2 DEF LeaveReady, EndThread
  <2> QED BY <1>14, <2>3 DEF LeaveReady, EndThread, WorkerStates
<1>15. ASSUME NEW x \in Threads, WakeUp(x)
      PROVE  TypeOK'
  BY <1>15 DEF WakeUp
<1>16. ASSUME NEW w \in Workers, TaskReturns(w) \/ TaskThrows(w)
      PROVE  TypeOK'
  BY <1>16 DEF TaskReturns, TaskThrows, WorkerStates
<1> QED
  BY Steps, <1>1, <1>2, <1>3, <1>4, <1>5, <1>6, <1>7, <1>8, <1>9, <1>10,
     <1>11, <1>12, <1>13, <1>14, <1>15, <1>16 DEF Leaves

\* A step that pops the queue finds a task in it.
LEMMA PopStep ==
  ASSUME IInv, Next  PROVE NoEmptyPop'
<1> USE DEF IInv, TypeOK, NoEmptyPop, InState, poolVars, workerVars, callerVars
<1>1. ASSUME NEW c \in Clients, InitStep(c)
      PROVE  NoEmptyPop'
  BY <1>1 DEF InitStep, InitPool, StoreField, InitReturns
<1>2. ASSUME NEW a \in Threads, NEW t \in Tasks, ExecuteReady(a, t),
       Block(a, t), UNCHANGED alive
      PROVE  NoEmptyPop'
  BY <1>2 DEF Block
<1>3. ASSUME NEW a \in Threads, NEW t \in Tasks, ExecuteReady(a, t),
       Refuse(a, t), UNCHANGED alive
      PROVE  NoEmptyPop'
  BY <1>3 DEF Refuse, Returns
<1>4. ASSUME NEW a \in Threads, NEW t \in Tasks, ExecuteReady(a, t),
       Notify(a, t)
      PROVE  NoEmptyPop'
  BY <1>4 DEF Notify, Enqueue, Returns, SignalAll
<1>5. ASSUME NEW a \in Threads, NEW t \in Tasks, ExecuteReady(a, t),
       NEW w \in Workers, Spawn(a, t, w)
      PROVE  NoEmptyPop'
  BY <1>5 DEF Spawn, Enqueue, Returns
<1>6. ASSUME NEW a \in Threads, NEW after, NEW return \in CallerStates,
       StopReady(a, after, return), Stop(a, after, return)
      PROVE  NoEmptyPop'
  BY <1>6 DEF Stop, StopReady, ThreadsLeft
<1>7. ASSUME NEW a \in Threads, ShutdownWake(a, "shutdown", "out")
      PROVE  NoEmptyPop'
  BY <1>7 DEF ShutdownWake, ThreadsLeft
<1>8. ASSUME NEW a \in Threads, ShutdownWake(a, "destroy", "drain")
      PROVE  NoEmptyPop'
  BY <1>8 DEF ShutdownWake, ThreadsLeft
<1>9. ASSUME NEW a \in Threads, WaitsForEmpty(a)
      PROVE  NoEmptyPop'
  BY <1>9 DEF WaitsForEmpty
<1>10. ASSUME NEW c \in Threads, Drain(c)
      PROVE  NoEmptyPop'
  BY <1>10 DEF Drain
<1>11. ASSUME NEW w \in Workers, NEW left \in Nat, worker[w] = "next",
       GoIdle(w, left), UNCHANGED <<stored, shutdown, callerVars>>
      PROVE  NoEmptyPop'
  BY <1>11 DEF GoIdle
<1>12. ASSUME NEW w \in Workers, NEW left \in Nat, IdleAgain(w, left)
      PROVE  NoEmptyPop'
  BY <1>12 DEF IdleAgain
<1>13. ASSUME NEW w \in Workers, LeaveReady(w), TakeFront(w), ~shutdown
      PROVE  NoEmptyPop'
  BY <1>13 DEF LeaveReady, TakeFront
<1>14. ASSUME NEW w \in Workers, LeaveReady(w), EndThread(w),
       shutdown \/ (Timeout # 0 /\ minThread[w])
      PROVE  NoEmptyPop'
  BY <1>14 DEF LeaveReady, EndThread
<1>15. ASSUME NEW x \in Threads, WakeUp(x)
      PROVE  NoEmptyPop'
  BY <1>15 DEF WakeUp
<1>16. ASSUME NEW w \in Workers, TaskReturns(w) \/ TaskThrows(w)
      PROVE  NoEmptyPop'
  BY <1>16 DEF TaskReturns, TaskThrows
<1> QED
  BY Steps, <1>1, <1>2, <1>3, <1>4, <1>5, <1>6, <1>7, <1>8, <1>9, <1>10,
     <1>11, <1>12, <1>13, <1>14, <1>15, <1>16 DEF Leaves

\* A step that ends the reason of a wait signals the thread that waits.
LEMMA WaitersStep ==
  ASSUME IInv, Next  PROVE WaitersJustified'
<1> USE DEF IInv, TypeOK, WaitersJustified, QueueFull, queueMax, StoredBy,
            Threads, poolVars, workerVars, callerVars
<1>1. ASSUME NEW c \in Clients, InitStep(c)
      PROVE  WaitersJustified'
  BY <1>1, InitChanges
<1>2. ASSUME NEW a \in Threads, NEW t \in Tasks, ExecuteReady(a, t),
       Block(a, t), UNCHANGED alive
      PROVE  WaitersJustified'
  BY <1>2 DEF Block, ExecuteReady
<1>3. ASSUME NEW a \in Threads, NEW t \in Tasks, ExecuteReady(a, t),
       Refuse(a, t), UNCHANGED alive
      PROVE  WaitersJustified'
  BY <1>3 DEF Refuse, Returns, ExecuteReady
<1>4. ASSUME NEW a \in Threads, NEW t \in Tasks, ExecuteReady(a, t),
       Notify(a, t)
      PROVE  WaitersJustified'
  BY <1>4 DEF Notify, Enqueue, Returns, SignalAll, ExecuteReady
<1>5. ASSUME NEW a \in Threads, NEW t \in Tasks, ExecuteReady(a, t),
       NEW w \in Workers, Spawn(a, t, w)
      PROVE  WaitersJustified'
  <2>1. \A x \in waiters : ~(x \in Workers /\ worker[x] = "idle")
    BY <1>5, Counted DEF Spawn, CreatesThread
  <2>2. \A x \in waiters : caller[x] # "execute" /\ x # a
    BY <1>5, <2>1 DEF Spawn, Enqueue, ExecuteReady
  <2>3. /\ waiters' = waiters /\ running' = running + 1 /\ stored' = stored
        /\ queue' = Append(queue, t) /\ caller' = [caller EXCEPT ![a] = "out"]
    BY <1>5 DEF Spawn, Enqueue, Returns
  <2>4. queue' # <<>>
    BY <2>3, AppendProperties
  <2>5. ASSUME NEW x \in waiters
        PROVE  \/ caller'[x] \in {"shutdown", "destroy"} /\ running' > 0
               \/ caller'[x] = "whenEmpty" /\ queue' # <<>>
    BY <2>1, <2>2, <2>3, <2>4
  <2> QED BY <2>3, <2>5
<1>6. ASSUME NEW a \in Threads, NEW after, NEW return \in CallerStates,
       StopReady(a, after, return), Stop(a, after, return)
      PROVE  WaitersJustified'
  BY <1>6 DEF Stop, StopReady, ThreadsLeft, Stopping
<1>7. ASSUME NEW a \in Threads, ShutdownWake(a, "shutdown", "out")
      PROVE  WaitersJustified'
  BY <1>7 DEF ShutdownWake, ThreadsLeft
<1>8. ASSUME NEW a \in Threads, ShutdownWake(a, "destroy", "drain")
      PROVE  WaitersJustified'
  BY <1>8 DEF ShutdownWake, ThreadsLeft
<1>9. ASSUME NEW a \in Threads, WaitsForEmpty(a)
      PROVE  WaitersJustified'
  BY <1>9 DEF WaitsForEmpty
<1>10. ASSUME NEW c \in Threads, Drain(c)
      PROVE  WaitersJustified'
  <2>1. /\ c \in Clients /\ running = 0
        /\ \A b \in Clients \ {c} : caller[b] = "out"
    BY <1>10 DEF Drain, DestroyAlone
  <2>2. \A w \in Workers : worker[w] = "none" /\ caller[w] = "out"
    BY <2>1, Counted DEF NestedCalls
  <2>3. waiters = {}
    BY <1>10, <2>1, <2>2 DEF Drain
  <2> QED BY <1>10, <2>3 DEF Drain
<1>11. ASSUME NEW w \in Workers, NEW left \in Nat, worker[w] = "next",
       GoIdle(w, left), UNCHANGED <<stored, shutdown, callerVars>>
      PROVE  WaitersJustified'
  BY <1>11 DEF GoIdle, MustWait
<1>12. ASSUME NEW w \in Workers, NEW left \in Nat, IdleAgain(w, left)
      PROVE  WaitersJustified'
  BY <1>12 DEF IdleAgain, MustWait
<1>13. ASSUME NEW w \in Workers, LeaveReady(w), TakeFront(w), ~shutdown
      PROVE  WaitersJustified'
  BY <1>13 DEF LeaveReady
<1>14. ASSUME NEW w \in Workers, LeaveReady(w), EndThread(w),
       shutdown \/ (Timeout # 0 /\ minThread[w])
      PROVE  WaitersJustified'
  BY <1>14 DEF LeaveReady
<1>15. ASSUME NEW x \in Threads, WakeUp(x)
      PROVE  WaitersJustified'
  BY <1>15 DEF WakeUp
<1>16. ASSUME NEW w \in Workers, TaskReturns(w) \/ TaskThrows(w)
      PROVE  WaitersJustified'
  BY <1>16 DEF TaskReturns, TaskThrows
<1> QED
  BY Steps, <1>1, <1>2, <1>3, <1>4, <1>5, <1>6, <1>7, <1>8, <1>9, <1>10,
     <1>11, <1>12, <1>13, <1>14, <1>15, <1>16 DEF Leaves

\* A step leaves no queued task without a thread.
LEMMA StaffedStep ==
  ASSUME IInv, Next  PROVE Staffed'
<1> USE DEF IInv, TypeOK, Staffed, Steady, poolVars, workerVars, callerVars
<1>1. ASSUME NEW c \in Clients, InitStep(c)
      PROVE  Staffed'
  BY <1>1 DEF InitStep, InitPool, StoreField, InitReturns
<1>2. ASSUME NEW a \in Threads, NEW t \in Tasks, ExecuteReady(a, t),
       Block(a, t), UNCHANGED alive
      PROVE  Staffed'
  BY <1>2 DEF Block, ExecuteReady
<1>3. ASSUME NEW a \in Threads, NEW t \in Tasks, ExecuteReady(a, t),
       Refuse(a, t), UNCHANGED alive
      PROVE  Staffed'
  BY <1>3 DEF Refuse, Returns, ExecuteReady
<1>4. ASSUME NEW a \in Threads, NEW t \in Tasks, ExecuteReady(a, t),
       Notify(a, t)
      PROVE  Staffed'
  <2>1. /\ running' = running
        /\ idle > 0 \/ running >= maxThreads
    BY <1>4, PoolAssumption
       DEF Notify, CreatesThread, PoolAssumption, maxThreads, StoredBy
  <2>2. CASE idle > 0
    <3>1. PICK w \in Workers : worker[w] = "idle"
      BY <2>2, Counted
    <3> QED BY <2>1, <3>1, Counted
  <2>3. CASE running >= maxThreads /\ Steady
    <3>1. stored = Fields
      BY <1>4, <2>3 DEF ExecuteReady
    <3> QED
      BY <2>1, <2>3, <3>1, PoolAssumption
         DEF maxThreads, StoredBy, Fields, PoolAssumption
  <2> QED BY <2>1, <2>2, <2>3
<1>5. ASSUME NEW a \in Threads, NEW t \in Tasks, ExecuteReady(a, t),
       NEW w \in Workers, Spawn(a, t, w)
      PROVE  Staffed'
  BY <1>5 DEF Spawn
<1>6. ASSUME NEW a \in Threads, NEW after, NEW return \in CallerStates,
       StopReady(a, after, return), Stop(a, after, return)
      PROVE  Staffed'
  BY <1>6 DEF Stop
<1>7. ASSUME NEW a \in Threads, ShutdownWake(a, "shutdown", "out")
      PROVE  Staffed'
  BY <1>7 DEF ShutdownWake, StopsAreShut
<1>8. ASSUME NEW a \in Threads, ShutdownWake(a, "destroy", "drain")
      PROVE  Staffed'
  BY <1>8 DEF ShutdownWake, DestroyAlone
<1>9. ASSUME NEW a \in Threads, WaitsForEmpty(a)
      PROVE  Staffed'
  BY <1>9 DEF WaitsForEmpty
<1>10. ASSUME NEW c \in Threads, Drain(c)
      PROVE  Staffed'
  BY <1>10 DEF Drain
<1>11. ASSUME NEW w \in Workers, NEW left \in Nat, worker[w] = "next",
       GoIdle(w, left), UNCHANGED <<stored, shutdown, callerVars>>
      PROVE  Staffed'
  BY <1>11 DEF GoIdle, MustWait
<1>12. ASSUME NEW w \in Workers, NEW left \in Nat, IdleAgain(w, left)
      PROVE  Staffed'
  BY <1>12 DEF IdleAgain, MustWait
<1>13. ASSUME NEW w \in Workers, LeaveReady(w), TakeFront(w), ~shutdown
      PROVE  Staffed'
  BY <1>13 DEF LeaveReady, TakeFront
<1>14. ASSUME NEW w \in Workers, LeaveReady(w), EndThread(w),
       shutdown \/ (Timeout # 0 /\ minThread[w])
      PROVE  Staffed'
  BY <1>14 DEF LeaveReady, EndThread
<1>15. ASSUME NEW x \in Threads, WakeUp(x)
      PROVE  Staffed'
  BY <1>15 DEF WakeUp
<1>16. ASSUME NEW w \in Workers, TaskReturns(w) \/ TaskThrows(w)
      PROVE  Staffed'
  BY <1>16 DEF TaskReturns, TaskThrows
<1> QED
  BY Steps, <1>1, <1>2, <1>3, <1>4, <1>5, <1>6, <1>7, <1>8, <1>9, <1>10,
     <1>11, <1>12, <1>13, <1>14, <1>15, <1>16 DEF Leaves

\* A step leaves no worker in a timed wait that may not time out.
LEMMA TimedStep ==
  ASSUME IInv, Next  PROVE TimedWaits'
<1> USE DEF IInv, TypeOK, TimedWaits, poolVars, workerVars, callerVars
<1>1. ASSUME NEW c \in Clients, InitStep(c)
      PROVE  TimedWaits'
  BY <1>1 DEF InitStep, InitPool, StoreField, InitReturns
<1>2. ASSUME NEW a \in Threads, NEW t \in Tasks, ExecuteReady(a, t),
       Block(a, t), UNCHANGED alive
      PROVE  TimedWaits'
  BY <1>2 DEF Block, ExecuteReady
<1>3. ASSUME NEW a \in Threads, NEW t \in Tasks, ExecuteReady(a, t),
       Refuse(a, t), UNCHANGED alive
      PROVE  TimedWaits'
  BY <1>3 DEF Refuse, Returns
<1>4. ASSUME NEW a \in Threads, NEW t \in Tasks, ExecuteReady(a, t),
       Notify(a, t)
      PROVE  TimedWaits'
  BY <1>4 DEF Notify, Enqueue, Returns, SignalAll
<1>5. ASSUME NEW a \in Threads, NEW t \in Tasks, ExecuteReady(a, t),
       NEW w \in Workers, Spawn(a, t, w)
      PROVE  TimedWaits'
  BY <1>5 DEF Spawn, Enqueue, Returns
<1>6. ASSUME NEW a \in Threads, NEW after, NEW return \in CallerStates,
       StopReady(a, after, return), Stop(a, after, return)
      PROVE  TimedWaits'
  BY <1>6 DEF Stop, StopReady, ThreadsLeft
<1>7. ASSUME NEW a \in Threads, ShutdownWake(a, "shutdown", "out")
      PROVE  TimedWaits'
  BY <1>7 DEF ShutdownWake, ThreadsLeft
<1>8. ASSUME NEW a \in Threads, ShutdownWake(a, "destroy", "drain")
      PROVE  TimedWaits'
  BY <1>8 DEF ShutdownWake, ThreadsLeft
<1>9. ASSUME NEW a \in Threads, WaitsForEmpty(a)
      PROVE  TimedWaits'
  BY <1>9 DEF WaitsForEmpty
<1>10. ASSUME NEW c \in Threads, Drain(c)
      PROVE  TimedWaits'
  BY <1>10 DEF Drain
<1>11. ASSUME NEW w \in Workers, NEW left \in Nat, worker[w] = "next",
       GoIdle(w, left), UNCHANGED <<stored, shutdown, callerVars>>
      PROVE  TimedWaits'
  BY <1>11, PoolAssumption DEF GoIdle, Untimed, timeout, StoredBy, PoolAssumption
<1>12. ASSUME NEW w \in Workers, NEW left \in Nat, IdleAgain(w, left)
      PROVE  TimedWaits'
  BY <1>12 DEF IdleAgain
<1>13. ASSUME NEW w \in Workers, LeaveReady(w), TakeFront(w), ~shutdown
      PROVE  TimedWaits'
  BY <1>13 DEF LeaveReady, TakeFront
<1>14. ASSUME NEW w \in Workers, LeaveReady(w), EndThread(w),
       shutdown \/ (Timeout # 0 /\ minThread[w])
      PROVE  TimedWaits'
  BY <1>14 DEF LeaveReady, EndThread
<1>15. ASSUME NEW x \in Threads, WakeUp(x)
      PROVE  TimedWaits'
  BY <1>15 DEF WakeUp
<1>16. ASSUME NEW w \in Workers, TaskReturns(w) \/ TaskThrows(w)
      PROVE  TimedWaits'
  BY <1>16 DEF TaskReturns, TaskThrows
<1> QED
  BY Steps, <1>1, <1>2, <1>3, <1>4, <1>5, <1>6, <1>7, <1>8, <1>9, <1>10,
     <1>11, <1>12, <1>13, <1>14, <1>15, <1>16 DEF Leaves

\* A step puts no task into a full queue.
LEMMA BoundedStep ==
  ASSUME IInv, Next  PROVE QueueBounded'
<1> USE PoolAssumption
    DEF IInv, TypeOK, QueueBounded, PoolAssumption, poolVars, workerVars, callerVars
<1>1. ASSUME NEW c \in Clients, InitStep(c)
      PROVE  QueueBounded'
  BY <1>1 DEF InitStep, InitPool, StoreField, InitReturns
<1>2. ASSUME NEW a \in Threads, NEW t \in Tasks, ExecuteReady(a, t),
       Block(a, t), UNCHANGED alive
      PROVE  QueueBounded'
  BY <1>2 DEF Block
<1>3. ASSUME NEW a \in Threads, NEW t \in Tasks, ExecuteReady(a, t),
       Refuse(a, t), UNCHANGED alive
      PROVE  QueueBounded'
  BY <1>3 DEF Refuse, Returns
<1>4. ASSUME NEW a \in Threads, NEW t \in Tasks, ExecuteReady(a, t),
       Notify(a, t)
      PROVE  QueueBounded'
  <2>1. Len(Append(queue, t)) = Len(queue) + 1
    BY AppendProperties
  <2>2. stored = Fields \/ "earlyUse" \in Env
    BY <1>4 DEF ExecuteReady, TasksCarried
  <2> QED
    BY <1>4, <2>1, <2>2, LenProperties DEF Notify, Enqueue, QueueFull, queueMax,
          StoredBy, Fields
<1>5. ASSUME NEW a \in Threads, NEW t \in Tasks, ExecuteReady(a, t),
       NEW w \in Workers, Spawn(a, t, w)
      PROVE  QueueBounded'
  <2>1. Len(Append(queue, t)) = Len(queue) + 1
    BY AppendProperties
  <2>2. stored = Fields \/ "earlyUse" \in Env
    BY <1>5 DEF ExecuteReady, TasksCarried
  <2>3. queue' = Append(queue, t) /\ ~QueueFull
    BY <1>5 DEF Spawn, Enqueue
  <2> QED BY <2>1, <2>2, <2>3, LenProperties DEF QueueFull, queueMax,
          StoredBy, Fields
<1>6. ASSUME NEW a \in Threads, NEW after, NEW return \in CallerStates,
       StopReady(a, after, return), Stop(a, after, return)
      PROVE  QueueBounded'
  BY <1>6 DEF Stop, StopReady, ThreadsLeft
<1>7. ASSUME NEW a \in Threads, ShutdownWake(a, "shutdown", "out")
      PROVE  QueueBounded'
  BY <1>7 DEF ShutdownWake, ThreadsLeft
<1>8. ASSUME NEW a \in Threads, ShutdownWake(a, "destroy", "drain")
      PROVE  QueueBounded'
  BY <1>8 DEF ShutdownWake, ThreadsLeft
<1>9. ASSUME NEW a \in Threads, WaitsForEmpty(a)
      PROVE  QueueBounded'
  BY <1>9 DEF WaitsForEmpty
<1>10. ASSUME NEW c \in Threads, Drain(c)
      PROVE  QueueBounded'
  BY <1>10 DEF Drain
<1>11. ASSUME NEW w \in Workers, NEW left \in Nat, worker[w] = "next",
       GoIdle(w, left), UNCHANGED <<stored, shutdown, callerVars>>
      PROVE  QueueBounded'
  BY <1>11 DEF GoIdle
<1>12. ASSUME NEW w \in Workers, NEW left \in Nat, IdleAgain(w, left)
      PROVE  QueueBounded'
  BY <1>12 DEF IdleAgain
<1>13. ASSUME NEW w \in Workers, LeaveReady(w), TakeFront(w), ~shutdown
      PROVE  QueueBounded'
  <2>1. Len(Tail(queue)) = Len(queue) - 1 /\ queue' = Tail(queue)
    BY <1>13, HeadTailProperties DEF TakeFront
  <2> QED BY <2>1, LenProperties
<1>14. ASSUME NEW w \in Workers, LeaveReady(w), EndThread(w),
       shutdown \/ (Timeout # 0 /\ minThread[w])
      PROVE  QueueBounded'
  BY <1>14 DEF LeaveReady, EndThread
<1>15. ASSUME NEW x \in Threads, WakeUp(x)
      PROVE  QueueBounded'
  BY <1>15 DEF WakeUp
<1>16. ASSUME NEW w \in Workers, TaskReturns(w) \/ TaskThrows(w)
      PROVE  QueueBounded'
  BY <1>16 DEF TaskReturns, TaskThrows
<1> QED
  BY Steps, <1>1, <1>2, <1>3, <1>4, <1>5, <1>6, <1>7, <1>8, <1>9, <1>10,
     <1>11, <1>12, <1>13, <1>14, <1>15, <1>16 DEF Leaves

\* The invariant holds for a pool that has been constructed.
LEMMA InitIInv == Init => IInv
<1> SUFFICES ASSUME Init PROVE IInv
  OBVIOUS
<1> USE PoolAssumption DEF Init, PoolAssumption
<1>1. TypeOK
  <2>1. queue \in Seq(Tasks)
    BY EmptySeq
  <2>2. /\ worker \in [Workers -> WorkerStates]
        /\ caller \in [Threads -> CallerStates]
        /\ fate \in [Tasks -> Fates]
    BY DEF WorkerStates, CallerStates, Fates
  <2>3. /\ minThread \in [Workers -> BOOLEAN]
        /\ timeLeft \in [Workers -> Nat]
        /\ job \in [Workers -> Tasks \union {NoTask}]
        /\ arg \in [Threads -> Tasks \union {NoTask}]
    OBVIOUS
  <2> QED BY <2>1, <2>2, <2>3 DEF TypeOK
<1>2. CountsExact
  <2>1. InState({"idle"}) = {} /\ InState(WorkerStates \ {"none"}) = {}
    BY DEF InState
  <2>2. Cardinality({}) = 0
    BY FS_EmptySet
  <2>3. Cardinality(InState({"idle"})) = 0
    BY <2>1, <2>2
  <2>4. Cardinality(InState(WorkerStates \ {"none"})) = 0
    BY <2>1, <2>2
  <2>5. running = 0 /\ idle = 0 /\ running <= MaxThreads
    OBVIOUS
  <2> QED BY <2>3, <2>4, <2>5 DEF CountsExact
<1>3. TasksCarried /\ TimedWaits /\ NestedCalls /\ DestroyAlone /\ StopsAreShut
  BY DEF TasksCarried, TimedWaits, NestedCalls, DestroyAlone, StopsAreShut,
         Threads
<1>4. WaitersJustified /\ NoEmptyPop /\ Staffed /\ QueueBounded
  BY DEF WaitersJustified, NoEmptyPop, Staffed, QueueBounded, InState
<1> QED BY <1>1, <1>2, <1>3, <1>4 DEF IInv

\* A step preserves the invariant.
LEMMA IInvStep == IInv /\ [Next]_vars => IInv'
<1>1. ASSUME IInv, Next  PROVE IInv'
  BY <1>1, TypeStep, CarriedStep, CountsStep, NestedStep, DestroyStep, StopsStep,
     WaitersStep, PopStep, StaffedStep, TimedStep, BoundedStep DEF IInv
<1>2. ASSUME IInv, UNCHANGED vars  PROVE IInv'
  <2> USE <1>2 DEF IInv, vars, poolVars, workerVars, callerVars
  <2>1. TypeOK' /\ TasksCarried' /\ TimedWaits' /\ CountsExact'
    BY DEF TypeOK, TasksCarried, TimedWaits, CountsExact, InState
  <2>2. NestedCalls' /\ DestroyAlone' /\ StopsAreShut'
    BY DEF NestedCalls, DestroyAlone, StopsAreShut
  <2>3. WaitersJustified' /\ NoEmptyPop' /\ QueueBounded'
    BY DEF WaitersJustified, NoEmptyPop, InState, QueueBounded, QueueFull,
           queueMax, StoredBy
  <2>4. Staffed'
    BY DEF Staffed, Steady
  <2> QED BY <2>1, <2>2, <2>3, <2>4
<1> QED BY <1>1, <1>2

\* The invariant holds in every behaviour of the pool.
LEMMA Invariance == Spec => []IInv
BY InitIInv, IInvStep, PTL DEF Spec

-----------------------------------------------------------------------------
(* The theorems.                                                           *)

\* Every field of the pool keeps its type; the unsigned counters are never
\* decremented below 0.
THEOREM TypeCorrect == Spec => []TypeOK
<1>1. IInv => TypeOK
  BY DEF IInv
<1> QED BY <1>1, Invariance, PTL

\* m_runningThreads and m_idleThreads count the threads they are about.
THEOREM CountersExact == Spec => []CountsExact
<1>1. IInv => CountsExact
  BY DEF IInv
<1> QED BY <1>1, Invariance, PTL

\* getNextWorkItem never takes the front of an empty queue.
THEOREM PopsOnlyTasks == Spec => []NoEmptyPop
<1>1. IInv => NoEmptyPop
  BY DEF IInv
<1> QED BY <1>1, Invariance, PTL

\* No wakeup is lost: whoever waits unsignalled waits for what is not so.
THEOREM NoLostWakeup == Spec => []WaitersJustified
<1>1. IInv => WaitersJustified
  BY DEF IInv
<1> QED BY <1>1, Invariance, PTL

\* Without timeouts a queued task always has a worker coming for it.
THEOREM TasksAttended == Spec => []QueueAttended
<1>1. ASSUME IInv  PROVE QueueAttended
  <2> SUFFICES ASSUME Steady, queue # <<>>, ~shutdown,
                      InState({"lost"}) = {}, ~AllInOwnPool
               PROVE  \E w \in Workers : Attentive(w)
    BY DEF QueueAttended
  <2>1. running > 0
    BY <1>1 DEF IInv, Staffed
  <2>2. PICK v \in Workers : worker[v] # "none"
    BY <1>1, <2>1, Counted
  <2>3. v \in InState(WorkerStates \ {"none"})
    BY <1>1, <2>2 DEF InState, IInv, TypeOK
  <2>4. PICK w \in InState(WorkerStates \ {"none"}) :
               ~(worker[w] = "run" /\ caller[w] # "out")
    BY <2>3 DEF AllInOwnPool
  <2>5. w \in Workers /\ worker[w] \in {"next", "run", "idle"}
    BY <1>1, <2>4 DEF InState, IInv, TypeOK, NoEmptyPop, WorkerStates
  <2>6. worker[w] = "idle" => w \notin waiters
    BY <1>1, <2>5 DEF IInv, WaitersJustified, NestedCalls, Threads
  <2> QED BY <2>4, <2>5, <2>6 DEF Attentive
<1> QED BY <1>1, Invariance, PTL

\* The queue never holds more than m_queueMax tasks.
THEOREM QueueStaysBounded == Spec => []QueueBounded
<1>1. IInv => QueueBounded
  BY DEF IInv
<1> QED BY <1>1, Invariance, PTL

\* The destructor is alone in the pool when it empties the queue unlocked.
THEOREM DrainsAlone == Spec => []DrainAlone
<1>1. ASSUME IInv  PROVE DrainAlone
  <2> SUFFICES ASSUME NEW c \in Clients, caller[c] = "drain"
               PROVE  /\ InState(WorkerStates \ {"none"}) = {}
                      /\ \A b \in Threads \ {c} : caller[b] = "out"
    BY DEF DrainAlone
  <2>1. running = 0 /\ \A b \in Clients \ {c} : caller[b] = "out"
    BY <1>1 DEF IInv, DestroyAlone, Threads
  <2>2. \A w \in Workers : worker[w] = "none"
    BY <1>1, <2>1, Counted
  <2>3. \A w \in Workers : caller[w] = "out"
    BY <1>1, <2>2 DEF IInv, NestedCalls
  <2> QED BY <2>1, <2>2, <2>3 DEF InState, Threads
<1> QED BY <1>1, Invariance, PTL

\* A pool whose threads are all stuck has one of the listed causes.
LEMMA StallCauses == IInv => StallHasCause
<1> SUFFICES ASSUME IInv, Stalled, InState({"lost", "run"}) = {}
             PROVE  \/ shutdown /\ \E a \in Threads : caller[a] = "whenEmpty"
                    \/ /\ ~Steady /\ ~shutdown
                       /\ InState(WorkerStates \ {"none"}) = {}
  BY DEF StallHasCause
\* Every worker there is waits on m_cond, outside any other call.
<1>1. \A w \in Workers : worker[w] = "none" \/ (worker[w] = "idle" /\ w \in waiters)
  BY DEF IInv, TypeOK, WorkerStates, Stalled, InState, NoEmptyPop
<1>2. \A w \in Workers : caller[w] = "out"
  BY <1>1 DEF IInv, NestedCalls
<1>3. \A w \in Workers \cap waiters : queue = <<>> /\ ~shutdown
  BY <1>2 DEF IInv, WaitersJustified
\* Then work that is left has no worker, and that is never so in a steady pool.
<1>4. ASSUME queue # <<>>, ~shutdown
      PROVE  ~Steady /\ InState(WorkerStates \ {"none"}) = {}
  <2>1. \A w \in Workers : worker[w] = "none"
    BY <1>1, <1>3, <1>4
  <2>2. InState(WorkerStates \ {"none"}) = {}
    BY <2>1 DEF InState
  <2>3. ~(running > 0)
    BY <2>1, Counted
  <2> QED BY <1>4, <2>2, <2>3 DEF IInv, Staffed
<1>5. CASE queue # <<>> /\ ~shutdown
  BY <1>4, <1>5
<1>6. CASE \E a \in Threads : caller[a] # "out"
  <2>1. PICK a \in Threads : caller[a] # "out"
    BY <1>6
  <2>2. a \in waiters
    BY <2>1 DEF Stalled
  <2>3. CASE caller[a] = "execute" /\ QueueFull /\ ~shutdown
    <3>1. queue # <<>>
      BY <2>3 DEF QueueFull
    <3> QED BY <3>1, <2>3, <1>4
  <2>4. CASE caller[a] \in {"shutdown", "destroy"} /\ running > 0
    <3>1. shutdown
      BY <2>4 DEF IInv, StopsAreShut, DestroyAlone
    <3>2. PICK w \in Workers : worker[w] # "none"
      BY <2>4, Counted
    <3>3. w \in Workers \cap waiters
      BY <3>2, <1>1
    <3> QED BY <3>1, <3>3, <1>3
  <2>5. CASE caller[a] = "whenEmpty" /\ queue # <<>>
    BY <2>5, <1>4
  <2> QED BY <2>1, <2>2, <2>3, <2>4, <2>5, <1>2 DEF IInv, WaitersJustified
<1> QED BY <1>5, <1>6 DEF Stalled

\* The pool stalls only for the reasons StallHasCause lists.
THEOREM StallsExplained == Spec => []StallHasCause
BY StallCauses, Invariance, PTL

\* A step that returns from a shutdown function leaves no thread, and none comes back.
LEMMA FinalStep ==
  ASSUME IInv, Next  PROVE ShutdownJoins
<1> USE DEF IInv, TypeOK, ShutdownJoins, Stopping, InState, WorkerStates,
            poolVars, workerVars, callerVars
<1>1. ASSUME NEW c \in Clients, InitStep(c)
      PROVE  ShutdownJoins
  BY <1>1 DEF InitStep, InitPool, StoreField, InitReturns
<1>2. ASSUME NEW a \in Threads, NEW t \in Tasks, ExecuteReady(a, t),
       Block(a, t), UNCHANGED alive
      PROVE  ShutdownJoins
  BY <1>2 DEF Block, ExecuteReady
<1>3. ASSUME NEW a \in Threads, NEW t \in Tasks, ExecuteReady(a, t),
       Refuse(a, t), UNCHANGED alive
      PROVE  ShutdownJoins
  BY <1>3 DEF Refuse, Returns, ExecuteReady
<1>4. ASSUME NEW a \in Threads, NEW t \in Tasks, ExecuteReady(a, t),
       Notify(a, t)
      PROVE  ShutdownJoins
  BY <1>4 DEF Notify, Enqueue, Returns, ExecuteReady
<1>5. ASSUME NEW a \in Threads, NEW t \in Tasks, ExecuteReady(a, t),
       NEW w \in Workers, Spawn(a, t, w)
      PROVE  ShutdownJoins
  <2>1. ~shutdown /\ caller' = [caller EXCEPT ![a] = "out"] /\ shutdown' = shutdown
    BY <1>5 DEF Spawn, Enqueue, Returns
  <2> QED BY <1>5, <2>1 DEF ExecuteReady
<1>6. ASSUME NEW a \in Threads, NEW after, NEW return \in CallerStates,
       StopReady(a, after, return), Stop(a, after, return)
      PROVE  ShutdownJoins
  <2>1. ~ThreadsLeft => \A w \in Workers : worker[w] = "none"
    BY Counted DEF ThreadsLeft
  <2> QED BY <1>6, <2>1 DEF Stop, StopReady
<1>7. ASSUME NEW a \in Threads, ShutdownWake(a, "shutdown", "out")
      PROVE  ShutdownJoins
  <2>1. ~ThreadsLeft => \A w \in Workers : worker[w] = "none"
    BY Counted DEF ThreadsLeft
  <2> QED BY <1>7, <2>1 DEF ShutdownWake
<1>8. ASSUME NEW a \in Threads, ShutdownWake(a, "destroy", "drain")
      PROVE  ShutdownJoins
  <2>1. ~ThreadsLeft => \A w \in Workers : worker[w] = "none"
    BY Counted DEF ThreadsLeft
  <2> QED BY <1>8, <2>1 DEF ShutdownWake
<1>9. ASSUME NEW a \in Threads, WaitsForEmpty(a)
      PROVE  ShutdownJoins
  BY <1>9 DEF WaitsForEmpty
<1>10. ASSUME NEW c \in Threads, Drain(c)
      PROVE  ShutdownJoins
  BY <1>10 DEF Drain
<1>11. ASSUME NEW w \in Workers, NEW left \in Nat, worker[w] = "next",
       GoIdle(w, left), UNCHANGED <<stored, shutdown, callerVars>>
      PROVE  ShutdownJoins
  BY <1>11 DEF GoIdle
<1>12. ASSUME NEW w \in Workers, NEW left \in Nat, IdleAgain(w, left)
      PROVE  ShutdownJoins
  BY <1>12 DEF IdleAgain
<1>13. ASSUME NEW w \in Workers, LeaveReady(w), TakeFront(w), ~shutdown
      PROVE  ShutdownJoins
  BY <1>13 DEF LeaveReady, TakeFront
<1>14. ASSUME NEW w \in Workers, LeaveReady(w), EndThread(w),
       shutdown \/ (Timeout # 0 /\ minThread[w])
      PROVE  ShutdownJoins
  BY <1>14 DEF LeaveReady, EndThread
<1>15. ASSUME NEW x \in Threads, WakeUp(x)
      PROVE  ShutdownJoins
  BY <1>15 DEF WakeUp
<1>16. ASSUME NEW w \in Workers, TaskReturns(w) \/ TaskThrows(w)
      PROVE  ShutdownJoins
  BY <1>16 DEF TaskReturns, TaskThrows
<1> QED
  BY Steps, <1>1, <1>2, <1>3, <1>4, <1>5, <1>6, <1>7, <1>8, <1>9, <1>10,
     <1>11, <1>12, <1>13, <1>14, <1>15, <1>16 DEF Leaves

\* A shutdown function that waited returns when all threads have left, and
\* none ever comes back.
THEOREM ShutdownsFinal == Spec => ShutdownIsFinal
<1>1. IInv /\ [Next]_vars => [ShutdownJoins]_vars
  BY FinalStep
<1> QED BY <1>1, Invariance, PTL DEF Spec, ShutdownIsFinal

MinThreadLeaves ==
  \A w \in Workers : worker[w] # "none" /\ worker'[w] = "none" /\ ~shutdown
    => minThread[w] /\ Timeout # 0

\* A step in which a worker times out is one of a worker of the minimum.
LEMMA MinThreadStep ==
  ASSUME IInv, Next  PROVE MinThreadLeaves
<1> USE DEF IInv, TypeOK, MinThreadLeaves, poolVars, workerVars, callerVars
<1>1. ASSUME NEW c \in Clients, InitStep(c)
      PROVE  MinThreadLeaves
  BY <1>1 DEF InitStep, InitPool, StoreField, InitReturns
<1>2. ASSUME NEW a \in Threads, NEW t \in Tasks, ExecuteReady(a, t),
       Block(a, t), UNCHANGED alive
      PROVE  MinThreadLeaves
  BY <1>2 DEF Block
<1>3. ASSUME NEW a \in Threads, NEW t \in Tasks, ExecuteReady(a, t),
       Refuse(a, t), UNCHANGED alive
      PROVE  MinThreadLeaves
  BY <1>3 DEF Refuse, Returns
<1>4. ASSUME NEW a \in Threads, NEW t \in Tasks, ExecuteReady(a, t),
       Notify(a, t)
      PROVE  MinThreadLeaves
  BY <1>4 DEF Notify, Enqueue, Returns, SignalAll
<1>5. ASSUME NEW a \in Threads, NEW t \in Tasks, ExecuteReady(a, t),
       NEW w \in Workers, Spawn(a, t, w)
      PROVE  MinThreadLeaves
  <2>1. \E s \in {"next", "lost"} : worker' = [worker EXCEPT ![w] = s]
    BY <1>5 DEF Spawn
  <2> QED BY <2>1
<1>6. ASSUME NEW a \in Threads, NEW after, NEW return \in CallerStates,
       StopReady(a, after, return), Stop(a, after, return)
      PROVE  MinThreadLeaves
  BY <1>6 DEF Stop, StopReady, ThreadsLeft
<1>7. ASSUME NEW a \in Threads, ShutdownWake(a, "shutdown", "out")
      PROVE  MinThreadLeaves
  BY <1>7 DEF ShutdownWake, ThreadsLeft
<1>8. ASSUME NEW a \in Threads, ShutdownWake(a, "destroy", "drain")
      PROVE  MinThreadLeaves
  BY <1>8 DEF ShutdownWake, ThreadsLeft
<1>9. ASSUME NEW a \in Threads, WaitsForEmpty(a)
      PROVE  MinThreadLeaves
  BY <1>9 DEF WaitsForEmpty
<1>10. ASSUME NEW c \in Threads, Drain(c)
      PROVE  MinThreadLeaves
  BY <1>10 DEF Drain
<1>11. ASSUME NEW w \in Workers, NEW left \in Nat, worker[w] = "next",
       GoIdle(w, left), UNCHANGED <<stored, shutdown, callerVars>>
      PROVE  MinThreadLeaves
  BY <1>11 DEF GoIdle
<1>12. ASSUME NEW w \in Workers, NEW left \in Nat, IdleAgain(w, left)
      PROVE  MinThreadLeaves
  BY <1>12 DEF IdleAgain
<1>13. ASSUME NEW w \in Workers, LeaveReady(w), TakeFront(w), ~shutdown
      PROVE  MinThreadLeaves
  BY <1>13 DEF LeaveReady, TakeFront
<1>14. ASSUME NEW w \in Workers, LeaveReady(w), EndThread(w),
       shutdown \/ (Timeout # 0 /\ minThread[w])
      PROVE  MinThreadLeaves
  BY <1>14 DEF LeaveReady, EndThread
<1>15. ASSUME NEW x \in Threads, WakeUp(x)
      PROVE  MinThreadLeaves
  BY <1>15 DEF WakeUp
<1>16. ASSUME NEW w \in Workers, TaskReturns(w) \/ TaskThrows(w)
      PROVE  MinThreadLeaves
  BY <1>16 DEF TaskReturns, TaskThrows
<1> QED
  BY Steps, <1>1, <1>2, <1>3, <1>4, <1>5, <1>6, <1>7, <1>8, <1>9, <1>10,
     <1>11, <1>12, <1>13, <1>14, <1>15, <1>16 DEF Leaves

\* Only a thread made below the minimum ever gives up waiting for work.
THEOREM MinThreadsGiveUp == Spec => OnlyMinThreadsLeave
<1>1. IInv /\ [Next]_vars => [MinThreadLeaves]_vars
  BY MinThreadStep
<1> QED BY <1>1, Invariance, PTL DEF Spec, OnlyMinThreadsLeave, MinThreadLeaves


-----------------------------------------------------------------------------
(* Work that is left behind.                                               *)

GivesUp ==
  \E w \in Workers : /\ worker[w] = "idle" /\ worker'[w] = "none"
                     /\ w \notin waiters /\ minThread[w]
                     /\ queue' = queue

LeavesWork == LeftBehind' /\ ~LeftBehind /\ maxThreads > 0 => GivesUp

\* What holds before and after a step that leaves work behind.
Leaving ==
  /\ \A v \in Workers : worker'[v] = "none"
  /\ queue' # <<>> /\ ~shutdown'
  /\ queue = <<>> \/ shutdown \/ \E v \in Workers : worker[v] # "none"

\* A positive m_runningThreads counts a worker that is there.
LEMMA SomeThread ==
  ASSUME IInv, running > 0  PROVE \E v \in Workers : worker[v] # "none"
<1>1. InState(WorkerStates \ {"none"}) # {}
  BY FS_EmptySet DEF IInv, CountsExact
<1> QED BY <1>1 DEF InState

\* A positive m_idleThreads counts a worker that is idle.
LEMMA IdleThread ==
  ASSUME IInv, idle # 0  PROVE \E v \in Workers : worker[v] = "idle"
<1>1. InState({"idle"}) # {}
  BY FS_EmptySet DEF IInv, CountsExact
<1> QED BY <1>1 DEF InState

\* A step that leaves work in an open pool without a thread is such a time-out.
LEMMA LeavingStep ==
  ASSUME IInv, Next, maxThreads > 0, Leaving  PROVE GivesUp
<1> USE DEF IInv, TypeOK, Leaving, poolVars, workerVars, callerVars
<1>1. ASSUME NEW c \in Clients, InitStep(c)
      PROVE  GivesUp
  BY <1>1 DEF InitStep, InitPool, StoreField, InitReturns
<1>2. ASSUME NEW a \in Threads, NEW t \in Tasks, ExecuteReady(a, t),
       Block(a, t), UNCHANGED alive
      PROVE  GivesUp
  BY <1>2 DEF Block
<1>3. ASSUME NEW a \in Threads, NEW t \in Tasks, ExecuteReady(a, t),
       Refuse(a, t), UNCHANGED alive
      PROVE  GivesUp
  BY <1>3 DEF Refuse, Returns
<1>4. ASSUME NEW a \in Threads, NEW t \in Tasks, ExecuteReady(a, t),
       Notify(a, t)
      PROVE  GivesUp
  <2>1. idle # 0 \/ running > 0
    BY <1>4, PoolAssumption
       DEF Notify, CreatesThread, maxThreads, StoredBy, PoolAssumption
  <2>2. worker' = worker
    BY <1>4 DEF Notify
  <2> QED BY <2>1, <2>2, SomeThread, IdleThread
<1>5. ASSUME NEW a \in Threads, NEW t \in Tasks, ExecuteReady(a, t),
       NEW w \in Workers, Spawn(a, t, w)
      PROVE  GivesUp
  <2>1. \E s \in {"next", "lost"} : worker' = [worker EXCEPT ![w] = s]
    BY <1>5 DEF Spawn
  <2> QED BY <2>1
<1>6. ASSUME NEW a \in Threads, NEW after, NEW return \in CallerStates,
       StopReady(a, after, return), Stop(a, after, return)
      PROVE  GivesUp
  BY <1>6 DEF Stop, StopReady, ThreadsLeft
<1>7. ASSUME NEW a \in Threads, ShutdownWake(a, "shutdown", "out")
      PROVE  GivesUp
  BY <1>7 DEF ShutdownWake, ThreadsLeft
<1>8. ASSUME NEW a \in Threads, ShutdownWake(a, "destroy", "drain")
      PROVE  GivesUp
  BY <1>8 DEF ShutdownWake, ThreadsLeft
<1>9. ASSUME NEW a \in Threads, WaitsForEmpty(a)
      PROVE  GivesUp
  BY <1>9 DEF WaitsForEmpty
<1>10. ASSUME NEW c \in Threads, Drain(c)
      PROVE  GivesUp
  BY <1>10 DEF Drain
<1>11. ASSUME NEW w \in Workers, NEW left \in Nat, worker[w] = "next",
       GoIdle(w, left), UNCHANGED <<stored, shutdown, callerVars>>
      PROVE  GivesUp
  BY <1>11 DEF GoIdle
<1>12. ASSUME NEW w \in Workers, NEW left \in Nat, IdleAgain(w, left)
      PROVE  GivesUp
  BY <1>12 DEF IdleAgain
<1>13. ASSUME NEW w \in Workers, LeaveReady(w), TakeFront(w), ~shutdown
      PROVE  GivesUp
  BY <1>13 DEF LeaveReady, TakeFront
<1>14. ASSUME NEW w \in Workers, LeaveReady(w), EndThread(w),
       shutdown \/ (Timeout # 0 /\ minThread[w] /\ worker[w] = "idle")
      PROVE  GivesUp
  <2>1. ~shutdown /\ minThread[w] /\ worker[w] = "idle"
    BY <1>14 DEF LeaveReady
  <2>2. /\ worker' = [worker EXCEPT ![w] = "none"] /\ queue' = queue
        /\ w \notin waiters
    BY <1>14 DEF LeaveReady, EndThread
  <2> QED BY <2>1, <2>2 DEF GivesUp
<1>15. ASSUME NEW x \in Threads, WakeUp(x)
      PROVE  GivesUp
  BY <1>15 DEF WakeUp
<1>16. ASSUME NEW w \in Workers, TaskReturns(w) \/ TaskThrows(w)
      PROVE  GivesUp
  BY <1>16 DEF TaskReturns, TaskThrows
<1> QED
  BY Steps, <1>1, <1>2, <1>3, <1>4, <1>5, <1>6, <1>7, <1>8, <1>9, <1>10,
     <1>11, <1>12, <1>13, <1>14, <1>15, <1>16 DEF Leaves

\* Tasks are left behind only by the time-out of the last worker.
THEOREM WorkLeftByTimeout == Spec => LeftBehindByTimeout
<1>1. ASSUME IInv, Next  PROVE LeavesWork
  <2>0. /\ worker \in [Workers -> WorkerStates]
        /\ worker' \in [Workers -> WorkerStates]
    BY <1>1, IInvStep DEF IInv, TypeOK
  <2>1. ASSUME LeftBehind', ~LeftBehind  PROVE Leaving
    <3>1. \A v \in Workers : worker'[v] = "none"
      BY <2>0, <2>1 DEF LeftBehind, InState
    <3> QED BY <3>1, <2>0, <2>1 DEF Leaving, LeftBehind, InState
  <2> QED BY <2>1, <1>1, LeavingStep DEF LeavesWork
<1>2. ASSUME IInv, UNCHANGED vars  PROVE LeavesWork
  BY <1>2 DEF LeavesWork, LeftBehind, InState, vars, poolVars, workerVars
<1>3. IInv /\ [Next]_vars => [LeavesWork]_vars
  BY <1>1, <1>2
<1> QED BY <1>3, Invariance, PTL
        DEF Spec, LeftBehindByTimeout, LeavesWork, GivesUp

-----------------------------------------------------------------------------
(* What the history of the tasks says about queue, workers and callers.    *)

\* The tasks of the queue are the accepted ones, none of them twice.
QueueOfQueued ==
  /\ \A t \in Tasks : fate[t] = "queued" <=> \E i \in DOMAIN queue : queue[i] = t
  /\ \A i, j \in DOMAIN queue : queue[i] = queue[j] => i = j

\* The running tasks are the jobs of the workers that run, no two the same.
JobsRunning ==
  /\ \A t \in Tasks :
       fate[t] = "running" <=> \E w \in Workers : worker[w] = "run" /\ job[w] = t
  /\ \A v, w \in Workers :
       worker[v] = "run" /\ worker[w] = "run" /\ job[v] = job[w] => v = w

\* A blocked execute() is the only one that offers its task.
CallsOffer ==
  /\ \A a \in Threads : caller[a] = "execute" => fate[arg[a]] = "calling"
  /\ \A a, b \in Threads :
       caller[a] = "execute" /\ caller[b] = "execute" /\ arg[a] = arg[b] => a = b

FateInv == QueueOfQueued /\ JobsRunning /\ CallsOffer

\* The offered task is new, or the one this thread was blocked with.
LEMMA Offered ==
  ASSUME IInv, CallsOffer, NEW a \in Threads, NEW t \in Tasks, ExecuteReady(a, t)
  PROVE  /\ fate[t] \in {"fresh", "calling"}
         /\ \A b \in Threads \ {a} : caller[b] = "execute" => arg[b] # t
<1>1. CASE fate[t] = "fresh"
  BY <1>1 DEF CallsOffer
<1>2. CASE caller[a] = "execute" /\ arg[a] = t
  BY <1>2 DEF CallsOffer
<1> QED BY <1>1, <1>2 DEF ExecuteReady

-----------------------------------------------------------------------------
(* One lemma for each part: a step preserves it.                           *)

\* A step leaves each offered task to one caller.
LEMMA OffersStep ==
  ASSUME IInv, FateInv, Next  PROVE CallsOffer'
<1> USE DEF IInv, TypeOK, FateInv, CallsOffer, Fates, poolVars, workerVars, callerVars
<1>1. ASSUME NEW c \in Clients, InitStep(c)
      PROVE  CallsOffer'
  <2>1. \A b \in Threads : caller'[b] = "execute" => caller[b] = "execute"
    BY <1>1, InitChanges
  <2>2. arg' = arg /\ fate' = fate
    BY <1>1, InitChanges DEF workerVars
  <2> QED BY <2>1, <2>2
<1>2. ASSUME NEW a \in Threads, NEW t \in Tasks, ExecuteReady(a, t),
       Block(a, t), UNCHANGED alive
      PROVE  CallsOffer'
  BY <1>2, Offered DEF Block, ExecuteReady
<1>3. ASSUME NEW a \in Threads, NEW t \in Tasks, ExecuteReady(a, t),
       Refuse(a, t), UNCHANGED alive
      PROVE  CallsOffer'
  BY <1>3, Offered DEF Refuse, Returns
<1>4. ASSUME NEW a \in Threads, NEW t \in Tasks, ExecuteReady(a, t),
       Notify(a, t)
      PROVE  CallsOffer'
  BY <1>4, Offered DEF Notify, Enqueue, Returns, SignalAll
<1>5. ASSUME NEW a \in Threads, NEW t \in Tasks, ExecuteReady(a, t),
       NEW w \in Workers, Spawn(a, t, w)
      PROVE  CallsOffer'
  BY <1>5, Offered DEF Spawn, Enqueue, Returns
<1>6. ASSUME NEW a \in Threads, NEW after, NEW return \in CallerStates,
       StopReady(a, after, return), Stop(a, after, return)
      PROVE  CallsOffer'
  BY <1>6 DEF Stop, StopReady, ThreadsLeft
<1>7. ASSUME NEW a \in Threads, ShutdownWake(a, "shutdown", "out")
      PROVE  CallsOffer'
  BY <1>7 DEF ShutdownWake, ThreadsLeft
<1>8. ASSUME NEW a \in Threads, ShutdownWake(a, "destroy", "drain")
      PROVE  CallsOffer'
  BY <1>8 DEF ShutdownWake, ThreadsLeft
<1>9. ASSUME NEW a \in Threads, WaitsForEmpty(a)
      PROVE  CallsOffer'
  BY <1>9 DEF WaitsForEmpty
<1>10. ASSUME NEW c \in Threads, Drain(c)
      PROVE  CallsOffer'
  BY <1>10 DEF Drain, TasksCarried
<1>11. ASSUME NEW w \in Workers, NEW left \in Nat, worker[w] = "next",
       GoIdle(w, left), UNCHANGED <<stored, shutdown, callerVars>>
      PROVE  CallsOffer'
  BY <1>11 DEF GoIdle
<1>12. ASSUME NEW w \in Workers, NEW left \in Nat, IdleAgain(w, left)
      PROVE  CallsOffer'
  BY <1>12 DEF IdleAgain
<1>13. ASSUME NEW w \in Workers, LeaveReady(w), TakeFront(w), ~shutdown
      PROVE  CallsOffer'
  <2>1. fate[Head(queue)] = "queued" /\ Head(queue) \in Tasks
    BY <1>13, HeadTailProperties DEF TakeFront, QueueOfQueued
  <2> QED BY <1>13, <2>1 DEF LeaveReady, TakeFront
<1>14. ASSUME NEW w \in Workers, LeaveReady(w), EndThread(w),
       shutdown \/ (Timeout # 0 /\ minThread[w])
      PROVE  CallsOffer'
  BY <1>14 DEF LeaveReady, EndThread
<1>15. ASSUME NEW x \in Threads, WakeUp(x)
      PROVE  CallsOffer'
  BY <1>15 DEF WakeUp
<1>16. ASSUME NEW w \in Workers, TaskReturns(w) \/ TaskThrows(w)
      PROVE  CallsOffer'
  BY <1>16 DEF TaskReturns, TaskThrows, TasksCarried, JobsRunning
<1> QED
  BY Steps, <1>1, <1>2, <1>3, <1>4, <1>5, <1>6, <1>7, <1>8, <1>9, <1>10,
     <1>11, <1>12, <1>13, <1>14, <1>15, <1>16 DEF Leaves

\* A step keeps the running tasks and the jobs of the workers the same.
LEMMA JobsStep ==
  ASSUME IInv, FateInv, Next  PROVE JobsRunning'
<1> USE DEF IInv, TypeOK, FateInv, JobsRunning, Fates, poolVars, workerVars, callerVars
<1>1. ASSUME NEW c \in Clients, InitStep(c)
      PROVE  JobsRunning'
  BY <1>1 DEF InitStep, InitPool, StoreField, InitReturns
<1>2. ASSUME NEW a \in Threads, NEW t \in Tasks, ExecuteReady(a, t),
       Block(a, t), UNCHANGED alive
      PROVE  JobsRunning'
  BY <1>2, Offered, ZenonT(30) DEF Block
<1>3. ASSUME NEW a \in Threads, NEW t \in Tasks, ExecuteReady(a, t),
       Refuse(a, t), UNCHANGED alive
      PROVE  JobsRunning'
  BY <1>3, Offered, SMTT(20) DEF Refuse, Returns
<1>4. ASSUME NEW a \in Threads, NEW t \in Tasks, ExecuteReady(a, t),
       Notify(a, t)
      PROVE  JobsRunning'
  BY <1>4, Offered, ZenonT(30) DEF Notify, Enqueue, Returns, SignalAll
<1>5. ASSUME NEW a \in Threads, NEW t \in Tasks, ExecuteReady(a, t),
       NEW w \in Workers, Spawn(a, t, w)
      PROVE  JobsRunning'
  <2>1. PICK s \in {"next", "lost"} : worker' = [worker EXCEPT ![w] = s]
    BY <1>5 DEF Spawn
  <2>2. /\ job' = job /\ fate' = [fate EXCEPT ![t] = "queued"]
        /\ worker[w] = "none" /\ fate[t] # "running"
    BY <1>5, Offered DEF Spawn, Enqueue
  <2> QED BY <2>1, <2>2
<1>6. ASSUME NEW a \in Threads, NEW after, NEW return \in CallerStates,
       StopReady(a, after, return), Stop(a, after, return)
      PROVE  JobsRunning'
  BY <1>6 DEF Stop, StopReady, ThreadsLeft
<1>7. ASSUME NEW a \in Threads, ShutdownWake(a, "shutdown", "out")
      PROVE  JobsRunning'
  BY <1>7 DEF ShutdownWake, ThreadsLeft
<1>8. ASSUME NEW a \in Threads, ShutdownWake(a, "destroy", "drain")
      PROVE  JobsRunning'
  BY <1>8 DEF ShutdownWake, ThreadsLeft
<1>9. ASSUME NEW a \in Threads, WaitsForEmpty(a)
      PROVE  JobsRunning'
  BY <1>9 DEF WaitsForEmpty
<1>10. ASSUME NEW c \in Threads, Drain(c)
      PROVE  JobsRunning'
  BY <1>10 DEF Drain
<1>11. ASSUME NEW w \in Workers, NEW left \in Nat, worker[w] = "next",
       GoIdle(w, left), UNCHANGED <<stored, shutdown, callerVars>>
      PROVE  JobsRunning'
  BY <1>11 DEF GoIdle
<1>12. ASSUME NEW w \in Workers, NEW left \in Nat, IdleAgain(w, left)
      PROVE  JobsRunning'
  BY <1>12 DEF IdleAgain
<1>13. ASSUME NEW w \in Workers, LeaveReady(w), TakeFront(w), ~shutdown
      PROVE  JobsRunning'
  <2>1. fate[Head(queue)] = "queued" /\ Head(queue) \in Tasks
    BY <1>13, HeadTailProperties DEF TakeFront, QueueOfQueued
  <2> QED BY <1>13, <2>1 DEF LeaveReady, TakeFront
<1>14. ASSUME NEW w \in Workers, LeaveReady(w), EndThread(w),
       shutdown \/ (Timeout # 0 /\ minThread[w])
      PROVE  JobsRunning'
  BY <1>14 DEF LeaveReady, EndThread
<1>15. ASSUME NEW x \in Threads, WakeUp(x)
      PROVE  JobsRunning'
  BY <1>15 DEF WakeUp
<1>16. ASSUME NEW w \in Workers, TaskReturns(w) \/ TaskThrows(w)
      PROVE  JobsRunning'
  <2>1. PICK s \in {"next", "lost"}, d \in {"done", "thrown"} :
          /\ worker' = [worker EXCEPT ![w] = s]
          /\ fate' = [fate EXCEPT ![job[w]] = d]
    BY <1>16 DEF TaskReturns, TaskThrows
  <2>2. /\ job' = [job EXCEPT ![w] = NoTask]
        /\ worker[w] = "run" /\ job[w] \in Tasks
    BY <1>16 DEF TaskReturns, TaskThrows, TasksCarried
  <2> QED BY <2>1, <2>2
<1> QED
  BY Steps, <1>1, <1>2, <1>3, <1>4, <1>5, <1>6, <1>7, <1>8, <1>9, <1>10,
     <1>11, <1>12, <1>13, <1>14, <1>15, <1>16 DEF Leaves

\* execute() puts a task that was not accepted before at the end.
LEMMA QueuedTask ==
  ASSUME IInv, QueueOfQueued, NEW a \in Threads, NEW t \in Tasks, Enqueue(a, t),
         fate[t] \in {"fresh", "calling"}
  PROVE  QueueOfQueued'
<1> USE DEF IInv, TypeOK, QueueOfQueued, Enqueue, Fates
<1>1. /\ Len(queue') = Len(queue) + 1 /\ Len(queue) \in Nat
      /\ DOMAIN queue' = 1 .. Len(queue') /\ DOMAIN queue = 1 .. Len(queue)
      /\ \A i \in 1 .. Len(queue) : queue'[i] = queue[i] /\ queue[i] \in Tasks
      /\ queue'[Len(queue')] = t
  BY AppendProperties
<1>2. \A i \in DOMAIN queue : queue[i] # t
  OBVIOUS
<1>3. fate' = [fate EXCEPT ![t] = "queued"]
  OBVIOUS
<1>4. \A u \in Tasks : fate'[u] = "queued" <=> fate[u] = "queued" \/ u = t
  BY <1>3
<1>5. DOMAIN queue' = DOMAIN queue \union {Len(queue')}
  BY <1>1
<1>6. \A u \in Tasks : (\E i \in DOMAIN queue' : queue'[i] = u) <=>
                      (\E i \in DOMAIN queue : queue[i] = u) \/ u = t
  BY <1>1, <1>5
<1>7. \A i, j \in DOMAIN queue' : queue'[i] = queue'[j] => i = j
  BY <1>1, <1>2, <1>5
<1> QED BY <1>4, <1>6, <1>7

\* A step keeps the queue and the accepted tasks the same, and none twice.
LEMMA QueueStep ==
  ASSUME IInv, FateInv, Next  PROVE QueueOfQueued'
<1> USE DEF IInv, TypeOK, FateInv, QueueOfQueued, Fates, poolVars, workerVars, callerVars
<1>1. ASSUME NEW c \in Clients, InitStep(c)
      PROVE  QueueOfQueued'
  BY <1>1 DEF InitStep, InitPool, StoreField, InitReturns
<1>2. ASSUME NEW a \in Threads, NEW t \in Tasks, ExecuteReady(a, t),
       Block(a, t), UNCHANGED alive
      PROVE  QueueOfQueued'
  BY <1>2, Offered DEF Block
<1>3. ASSUME NEW a \in Threads, NEW t \in Tasks, ExecuteReady(a, t),
       Refuse(a, t), UNCHANGED alive
      PROVE  QueueOfQueued'
  BY <1>3, Offered DEF Refuse, Returns
<1>4. ASSUME NEW a \in Threads, NEW t \in Tasks, ExecuteReady(a, t),
       Notify(a, t)
      PROVE  QueueOfQueued'
  BY <1>4, Offered, QueuedTask DEF Notify
<1>5. ASSUME NEW a \in Threads, NEW t \in Tasks, ExecuteReady(a, t),
       NEW w \in Workers, Spawn(a, t, w)
      PROVE  QueueOfQueued'
  BY <1>5, Offered, QueuedTask DEF Spawn
<1>6. ASSUME NEW a \in Threads, NEW after, NEW return \in CallerStates,
       StopReady(a, after, return), Stop(a, after, return)
      PROVE  QueueOfQueued'
  BY <1>6 DEF Stop, StopReady, ThreadsLeft
<1>7. ASSUME NEW a \in Threads, ShutdownWake(a, "shutdown", "out")
      PROVE  QueueOfQueued'
  BY <1>7 DEF ShutdownWake, ThreadsLeft
<1>8. ASSUME NEW a \in Threads, ShutdownWake(a, "destroy", "drain")
      PROVE  QueueOfQueued'
  BY <1>8 DEF ShutdownWake, ThreadsLeft
<1>9. ASSUME NEW a \in Threads, WaitsForEmpty(a)
      PROVE  QueueOfQueued'
  BY <1>9 DEF WaitsForEmpty
<1>10. ASSUME NEW c \in Threads, Drain(c)
      PROVE  QueueOfQueued'
  BY <1>10 DEF Drain
<1>11. ASSUME NEW w \in Workers, NEW left \in Nat, worker[w] = "next",
       GoIdle(w, left), UNCHANGED <<stored, shutdown, callerVars>>
      PROVE  QueueOfQueued'
  BY <1>11 DEF GoIdle
<1>12. ASSUME NEW w \in Workers, NEW left \in Nat, IdleAgain(w, left)
      PROVE  QueueOfQueued'
  BY <1>12 DEF IdleAgain
<1>13. ASSUME NEW w \in Workers, LeaveReady(w), TakeFront(w), ~shutdown
      PROVE  QueueOfQueued'
  <2>1. /\ Tail(queue) \in Seq(Tasks) /\ Len(queue) \in Nat \ {0}
        /\ Len(Tail(queue)) = Len(queue) - 1
        /\ \A i \in 1 .. Len(queue) - 1 : Tail(queue)[i] = queue[i + 1]
        /\ Head(queue) = queue[1] /\ queue[1] \in Tasks
        /\ queue' = Tail(queue) /\ fate' = [fate EXCEPT ![queue[1]] = "running"]
    BY <1>13, HeadTailProperties DEF LeaveReady, TakeFront
  <2>2. /\ DOMAIN queue = 1 .. Len(queue) /\ DOMAIN queue' = 1 .. Len(queue) - 1
    BY <2>1
  <2>3. ASSUME NEW i \in DOMAIN queue'
        PROVE  i + 1 \in DOMAIN queue /\ queue'[i] = queue[i + 1] /\ queue[i + 1] # queue[1]
    BY <2>1, <2>2, <2>3
  <2>4. \A i, j \in DOMAIN queue' : queue'[i] = queue'[j] => i = j
    BY <2>1, <2>2, <2>3
  <2>5. ASSUME NEW t \in Tasks, t # queue[1], NEW i \in DOMAIN queue, queue[i] = t
        PROVE  \E j \in DOMAIN queue' : queue'[j] = t
    <3>1. i # 1 /\ i - 1 \in DOMAIN queue'
      BY <2>1, <2>2, <2>5
    <3> QED BY <2>1, <2>3, <2>5, <3>1
  <2> QED BY <2>1, <2>3, <2>4, <2>5
<1>14. ASSUME NEW w \in Workers, LeaveReady(w), EndThread(w),
       shutdown \/ (Timeout # 0 /\ minThread[w])
      PROVE  QueueOfQueued'
  BY <1>14 DEF LeaveReady, EndThread
<1>15. ASSUME NEW x \in Threads, WakeUp(x)
      PROVE  QueueOfQueued'
  BY <1>15 DEF WakeUp
<1>16. ASSUME NEW w \in Workers, TaskReturns(w) \/ TaskThrows(w)
      PROVE  QueueOfQueued'
  <2>1. PICK d \in {"done", "thrown"} : fate' = [fate EXCEPT ![job[w]] = d]
    BY <1>16 DEF TaskReturns, TaskThrows
  <2>2. /\ queue' = queue
        /\ job[w] \in Tasks /\ fate[job[w]] = "running"
    BY <1>16 DEF TaskReturns, TaskThrows, TasksCarried, JobsRunning
  <2> QED BY <2>1, <2>2
<1> QED
  BY Steps, <1>1, <1>2, <1>3, <1>4, <1>5, <1>6, <1>7, <1>8, <1>9, <1>10,
     <1>11, <1>12, <1>13, <1>14, <1>15, <1>16 DEF Leaves

\* The history agrees with a pool that has been constructed.
LEMMA InitFateInv == Init => FateInv
BY DEF Init, FateInv, QueueOfQueued, JobsRunning, CallsOffer

\* The history agrees with the pool in every behaviour.
LEMMA FateInvariance == Spec => []FateInv
<1>1. IInv /\ FateInv /\ [Next]_vars => FateInv'
  <2>1. ASSUME IInv, FateInv, Next  PROVE FateInv'
    BY <2>1, OffersStep, JobsStep, QueueStep DEF FateInv
  <2>2. ASSUME FateInv, UNCHANGED vars  PROVE FateInv'
    BY <2>2 DEF FateInv, QueueOfQueued, JobsRunning, CallsOffer, vars, poolVars,
                workerVars, callerVars
  <2> QED BY <2>1, <2>2
<1> QED BY <1>1, InitFateInv, Invariance, PTL DEF Spec

-----------------------------------------------------------------------------
(* The steps under the refinement mapping.                                 *)

\* AbstractFate of one task.
Seen(f) ==
  CASE f \in {"fresh", "calling"} -> "fresh"
    [] f \in {"done", "thrown"} -> "finished"
    [] f \in {"refused", "drained"} -> "dropped"
    [] OTHER -> f

\* The mapping of the tasks, task by task.
LEMMA SeenFate == AbstractFate = [t \in Tasks |-> Seen(fate[t])]
BY DEF AbstractFate, Seen

\* What TaskPool sees of each fate.
LEMMA SeenOf ==
  /\ Seen("fresh") = "fresh" /\ Seen("calling") = "fresh"
  /\ Seen("queued") = "queued" /\ Seen("running") = "running"
  /\ Seen("done") = "finished" /\ Seen("thrown") = "finished"
  /\ Seen("refused") = "dropped" /\ Seen("drained") = "dropped"
BY DEF Seen

\* A step that changes the fate of one task.
LEMMA FateMoves ==
  ASSUME IInv, NEW t \in Tasks, NEW f, fate' = [fate EXCEPT ![t] = f]
  PROVE  AbstractFate' = [AbstractFate EXCEPT ![t] = Seen(f)]
<1>1. AbstractFate' = [u \in Tasks |-> Seen(fate'[u])]
  BY DEF AbstractFate, Seen
<1>2. \A u \in Tasks : fate'[u] = IF u = t THEN f ELSE fate[u]
  BY DEF IInv, TypeOK
<1> QED BY <1>1, <1>2, SeenFate

\* A step that leaves the history alone leaves what TaskPool sees of it alone.
LEMMA FateStays ==
  ASSUME fate' = fate
  PROVE  AbstractFate' = AbstractFate
BY DEF AbstractFate

\* execute() may add to the queue.
LEMMA Accepts ==
  ASSUME IInv, FateInv, IInv', "earlyUse" \notin Env \/ QueueMax = 0,
         NEW a \in Threads, NEW t \in Tasks, ExecuteReady(a, t), Enqueue(a, t),
         shutdown' = shutdown
  PROVE  Abstract!Accept(t)
<1>1. AbstractFate' = [AbstractFate EXCEPT ![t] = "queued"]
  <2>1. fate' = [fate EXCEPT ![t] = "queued"]
    BY DEF Enqueue
  <2>2. AbstractFate' = [AbstractFate EXCEPT ![t] = Seen("queued")]
    BY <2>1, FateMoves
  <2> QED BY <2>2, SeenOf
<1>2. AbstractFate[t] = "fresh"
  BY Offered, SeenFate, SeenOf DEF FateInv
<1>3. QueueMax # 0 => Len(queue) < QueueMax
  <2>1. QueueMax # 0 => Len(queue') <= QueueMax
    BY DEF IInv, QueueBounded
  <2>2. Len(queue') = Len(queue) + 1 /\ Len(queue) \in Nat
    BY AppendProperties DEF Enqueue, IInv, TypeOK
  <2> QED BY <2>1, <2>2, PoolAssumption DEF PoolAssumption
<1> QED BY <1>1, <1>2, <1>3 DEF Enqueue, Abstract!Accept

\* As many tasks are active as workers run, and one of MaxThreads does not.
LEMMA RoomToStart ==
  ASSUME IInv, FateInv, NEW w \in Workers, worker[w] \in {"next", "idle"}
  PROVE  Cardinality(Abstract!Active) < MaxThreads
<1> DEFINE runs == InState({"run"})
           counted == InState(WorkerStates \ {"none"})
           act == Abstract!Active
           who == [t \in act |-> CHOOSE v \in Workers : worker[v] = "run" /\ job[v] = t]
<1>1. act = {t \in Tasks : fate[t] = "running"}
  BY SeenFate, SeenOf DEF Abstract!Active, Seen, IInv, TypeOK, Fates
<1>2. \A t \in act : /\ who[t] \in runs /\ job[who[t]] = t
  BY <1>1 DEF FateInv, JobsRunning, InState
<1>3. who \in Injection(act, runs)
  BY <1>2 DEF Injection, IsInjective
<1>4. IsFiniteSet(runs) /\ IsFiniteSet(counted)
  BY SubsetOfWorkers DEF InState
<1>5. Cardinality(act) <= Cardinality(runs) /\ IsFiniteSet(act)
  BY <1>3, <1>4, FS_Injection
<1>6. w \in counted /\ runs \subseteq counted /\ w \notin runs
  BY DEF InState, WorkerStates
<1>7. Cardinality(counted) <= MaxThreads
  BY DEF IInv, CountsExact
<1> HIDE DEF act, runs, counted
<1>8. Cardinality(runs) < Cardinality(counted)
  <2>1. runs \in SUBSET counted /\ runs # counted
    BY <1>6
  <2> QED BY <1>4, <2>1, FS_Subset, FS_CardinalityType
<1>9. Cardinality(act) \in Nat /\ Cardinality(runs) \in Nat /\ Cardinality(counted) \in Nat
  BY <1>4, <1>5, FS_CardinalityType
<1> QED BY <1>5, <1>7, <1>8, <1>9, PoolAssumption DEF PoolAssumption, act

\* Every step of the pool is a step of TaskPool, or a stutter.
LEMMA AbstractStep ==
  ASSUME IInv, FateInv, IInv', Next, "earlyUse" \notin Env \/ QueueMax = 0
  PROVE  [Abstract!AbstractNext]_<<queue, AbstractFate, shutdown>>
<1> DEFINE Maps == [Abstract!AbstractNext]_<<queue, AbstractFate, shutdown>>
<1> USE DEF Abstract!AbstractNext, poolVars, workerVars, callerVars
<1>1. ASSUME NEW c \in Clients, InitStep(c)
      PROVE  Maps
  BY <1>1, InitChanges, FateStays DEF InitStep, InitPool, StoreField,
                                      InitReturns
<1>2. ASSUME NEW a \in Threads, NEW t \in Tasks, ExecuteReady(a, t),
       Block(a, t), UNCHANGED alive
      PROVE  Maps
  <2>1. AbstractFate' = [AbstractFate EXCEPT ![t] = "fresh"]
    <3>1. fate' = [fate EXCEPT ![t] = "calling"]
      BY <1>2 DEF Block
    <3>2. AbstractFate' = [AbstractFate EXCEPT ![t] = Seen("calling")]
      BY <3>1, FateMoves
    <3> QED BY <3>2, SeenOf
  <2>2. AbstractFate[t] = "fresh"
    BY <1>2, Offered, SeenFate, SeenOf DEF FateInv
  <2>3. AbstractFate' = AbstractFate
    BY <2>1, <2>2, SeenFate
  <2> QED BY <1>2, <2>3 DEF Block
<1>3. ASSUME NEW a \in Threads, NEW t \in Tasks, ExecuteReady(a, t),
       Refuse(a, t), UNCHANGED alive
      PROVE  Maps
  <2>1. AbstractFate' = [AbstractFate EXCEPT ![t] = "dropped"]
    <3>1. fate' = [fate EXCEPT ![t] = "refused"]
      BY <1>3 DEF Refuse
    <3>2. AbstractFate' = [AbstractFate EXCEPT ![t] = Seen("refused")]
      BY <3>1, FateMoves
    <3> QED BY <3>2, SeenOf
  <2>2. AbstractFate[t] = "fresh"
    BY <1>3, Offered, SeenFate, SeenOf DEF FateInv
  <2>3. Abstract!Refuse(t)
    BY <1>3, <2>1, <2>2 DEF Refuse, Abstract!Refuse
  <2> QED BY <2>3
<1>4. ASSUME NEW a \in Threads, NEW t \in Tasks, ExecuteReady(a, t),
       Notify(a, t)
      PROVE  Maps
  <2>1. Abstract!Accept(t)
    BY <1>4, Accepts DEF Notify
  <2> QED BY <2>1
<1>5. ASSUME NEW a \in Threads, NEW t \in Tasks, ExecuteReady(a, t),
       NEW w \in Workers, Spawn(a, t, w)
      PROVE  Maps
  <2>1. Abstract!Accept(t)
    BY <1>5, Accepts DEF Spawn
  <2> QED BY <2>1
<1>6. ASSUME NEW a \in Threads, NEW after, NEW return \in CallerStates,
       StopReady(a, after, return), Stop(a, after, return)
      PROVE  Maps
  <2>1. queue' = queue /\ AbstractFate' = AbstractFate /\ shutdown' = TRUE
    BY <1>6, FateStays DEF Stop
  <2>2. CASE shutdown
    BY <2>1, <2>2 DEF IInv, TypeOK
  <2>3. CASE ~shutdown
    BY <2>1, <2>3 DEF Abstract!Close
  <2> QED BY <2>2, <2>3 DEF IInv, TypeOK
<1>7. ASSUME NEW a \in Threads, ShutdownWake(a, "shutdown", "out")
      PROVE  Maps
  BY <1>7, FateStays DEF ShutdownWake
<1>8. ASSUME NEW a \in Threads, ShutdownWake(a, "destroy", "drain")
      PROVE  Maps
  BY <1>8, FateStays DEF ShutdownWake
<1>9. ASSUME NEW a \in Threads, WaitsForEmpty(a)
      PROVE  Maps
  BY <1>9, FateStays DEF WaitsForEmpty
<1>10. ASSUME NEW c \in Threads, Drain(c)
      PROVE  Maps
  <2>1. shutdown /\ running = 0
    BY <1>10 DEF Drain, IInv, DestroyAlone
  <2>2. \A t \in Tasks : fate[t] # "running"
    BY <2>1, Counted DEF FateInv, JobsRunning
  <2>3. Abstract!Active = {}
    BY <2>2, SeenFate, SeenOf DEF Abstract!Active, Seen, IInv, TypeOK, Fates
  <2>4. \A t \in Tasks : Seen(fate'[t]) = IF Seen(fate[t]) = "queued" THEN "dropped"
                                                               ELSE Seen(fate[t])
    BY <1>10, SeenOf DEF Drain, Seen, IInv, TypeOK, Fates
  <2>5. AbstractFate' = [t \in Tasks |-> Seen(fate'[t])]
    BY DEF AbstractFate, Seen
  <2>6. AbstractFate' = [t \in Tasks |-> IF AbstractFate[t] = "queued" THEN "dropped"
                                                             ELSE AbstractFate[t]]
    BY <2>4, <2>5, SeenFate
  <2>7. Abstract!Discard
    BY <1>10, <2>1, <2>3, <2>6 DEF Drain, Abstract!Discard
  <2> QED BY <2>7
<1>11. ASSUME NEW w \in Workers, NEW left \in Nat, worker[w] = "next",
       GoIdle(w, left), UNCHANGED <<stored, shutdown, callerVars>>
      PROVE  Maps
  BY <1>11, FateStays DEF GoIdle
<1>12. ASSUME NEW w \in Workers, NEW left \in Nat, IdleAgain(w, left)
      PROVE  Maps
  BY <1>12, FateStays DEF IdleAgain
<1>13. ASSUME NEW w \in Workers, LeaveReady(w), TakeFront(w), ~shutdown
      PROVE  Maps
  <2>1. Head(queue) \in Tasks
    BY <1>13, HeadTailProperties DEF TakeFront, IInv, TypeOK
  <2>2. AbstractFate' = [AbstractFate EXCEPT ![Head(queue)] = "running"]
    <3>1. fate' = [fate EXCEPT ![Head(queue)] = "running"]
      BY <1>13 DEF TakeFront
    <3>2. AbstractFate' = [AbstractFate EXCEPT ![Head(queue)] = Seen("running")]
      BY <2>1, <3>1, FateMoves
    <3> QED BY <3>2, SeenOf
  <2>3. Cardinality(Abstract!Active) < MaxThreads
    BY <1>13, RoomToStart DEF LeaveReady
  <2>4. Abstract!Cardinality(Abstract!Active) = Cardinality(Abstract!Active)
    BY DEF Abstract!Cardinality, Cardinality
  <2>5. Abstract!Start
    BY <1>13, <2>2, <2>3, <2>4 DEF LeaveReady, TakeFront, Abstract!Start
  <2> QED BY <2>5
<1>14. ASSUME NEW w \in Workers, LeaveReady(w), EndThread(w),
       shutdown \/ (Timeout # 0 /\ minThread[w])
      PROVE  Maps
  BY <1>14, FateStays DEF LeaveReady, EndThread
<1>15. ASSUME NEW x \in Threads, WakeUp(x)
      PROVE  Maps
  BY <1>15, FateStays DEF WakeUp
<1>16. ASSUME NEW w \in Workers, TaskReturns(w) \/ TaskThrows(w)
      PROVE  Maps
  <2>1. job[w] \in Tasks /\ fate[job[w]] = "running"
    BY <1>16 DEF TaskReturns, TaskThrows, IInv, TasksCarried, FateInv, JobsRunning
  <2>2. AbstractFate' = [AbstractFate EXCEPT ![job[w]] = "finished"]
    BY <1>16, <2>1, FateMoves, SeenOf DEF TaskReturns, TaskThrows
  <2>3. AbstractFate[job[w]] = "running"
    BY <2>1, SeenFate, SeenOf
  <2>4. Abstract!Finish(job[w])
    BY <1>16, <2>2, <2>3 DEF TaskReturns, TaskThrows, Abstract!Finish
  <2> QED BY <2>1, <2>4
<1> QED
  BY Steps, <1>1, <1>2, <1>3, <1>4, <1>5, <1>6, <1>7, <1>8, <1>9, <1>10,
     <1>11, <1>12, <1>13, <1>14, <1>15, <1>16 DEF Leaves

\* ThreadPool implements TaskPool.  A pool that is used before init() has no
\* bound on its queue, so that QueueMax is none of its promises then.
THEOREM PoolImplementsTaskPool ==
  ASSUME "earlyUse" \notin Env \/ QueueMax = 0
  PROVE  Spec => ImplementsTaskPool
<1>1. Init => Abstract!AbstractInit
  <2>1. ASSUME Init  PROVE AbstractFate = [t \in Tasks |-> "fresh"]
    BY <2>1, SeenFate, SeenOf DEF Init
  <2> QED BY <2>1 DEF Init, Abstract!AbstractInit
<1>2. IInv /\ FateInv /\ IInv' /\ [Next]_vars
        => [Abstract!AbstractNext]_Abstract!abstractVars
  <2>1. ASSUME UNCHANGED vars  PROVE UNCHANGED <<queue, AbstractFate, shutdown>>
    BY <2>1, FateStays DEF vars, poolVars
  <2> QED BY <2>1, AbstractStep DEF Abstract!abstractVars
<1> QED BY <1>1, <1>2, Invariance, FateInvariance, PTL
        DEF Spec, ImplementsTaskPool, Abstract!AbstractSpec
=============================================================================
