------------------------------ MODULE ThreadPool ------------------------------
(***************************************************************************)
(* ge's ThreadPool (src/ge/thread/ThreadPool.cpp): a bounded queue of      *)
(* tasks, worker threads that are created on demand by execute() and may   *)
(* time out, and one condition variable m_cond on which idle workers,      *)
(* executors blocked on a full queue and callers of shutdown() all wait.   *)
(*                                                                         *)
(* Every field but those that init() stores is guarded by m_cond, so one   *)
(* action is one stretch of code between two points where the mutex is     *)
(* free: from lock() or the return of m_cond.wait() to unlock() or the     *)
(* next m_cond.wait().  init() takes no lock: each store is an action.     *)
(***************************************************************************)
EXTENDS Naturals, Sequences, FiniteSets

CONSTANTS Clients,      \* threads of the program that use the pool
          Workers,      \* identities of the threads the pool may create
          Tasks,        \* Runnable objects, each handed to execute() once
          NoTask,       \* not a task
          MinThreads,   \* m_minThreads
          MaxThreads,   \* m_maxThreads
          Timeout,      \* m_timeout, in ticks of the clock; 0: never
          QueueMax,     \* m_queueMax; 0: no bound
          Env           \* what the program around the pool may do

Threads == Clients \union Workers

\* "throw": a task lets an exception escape.  "startFails": Thread::start
\* throws.  "earlyUse": a default-constructed pool is used before some call
\* of init() has made all its stores.
\* "taskExecutes", "taskStops": a task calls execute(), or a shutdown
\* function, of the pool that runs it.
EnvChoices ==
  {"throw", "startFails", "earlyUse", "taskExecutes", "taskStops"}

ASSUME PoolAssumption ==
  /\ IsFiniteSet(Workers)
  /\ Clients \intersect Workers = {}
  /\ NoTask \notin Tasks
  /\ MinThreads \in Nat /\ MaxThreads \in Nat
  /\ Timeout \in Nat /\ QueueMax \in Nat
  /\ MaxThreads <= Cardinality(Workers)
  /\ Env \subseteq EnvChoices

VARIABLES
  stored,      \* the fields of init() that hold their value
  shutdown,    \* m_shutdown
  running,     \* m_runningThreads
  idle,        \* m_idleThreads
  queue,       \* m_workQueue
  waiters,     \* threads blocked on m_cond that were not signalled yet
  worker,      \* what each worker thread is doing
  minThread,   \* ThreadPoolTask::m_minThread of each worker
  timeLeft,    \* timeLeft of each worker in a timed wait, and 0 outside
  job,         \* the task each worker runs
  caller,      \* the pool function each thread is inside of
  arg,         \* the task a blocked execute() carries
  alive,       \* the destructor has not been entered
  fate         \* history: where each task is in its life

poolVars == <<stored, shutdown, running, idle, queue>>
workerVars == <<worker, minThread, timeLeft, job>>
callerVars == <<caller, arg, alive>>
vars == <<poolVars, waiters, workerVars, callerVars, fate>>

WorkerStates ==
  {"none",   \* no such thread
   "next",   \* about to lock m_cond in getNextWorkItem
   "idle",   \* in m_cond.wait() of getNextWorkItem, signalled or not
   "run",    \* inside Runnable::run of its job
   "lost",   \* counted in m_runningThreads but no such thread (any more)
   "abort"}  \* failed assert(m_head != NULL) of DLinkedList::front

CallerStates ==
  {"out", "init", "execute", "shutdown", "whenEmpty", "destroy", "drain"}

Fates ==
  {"fresh", "calling", "queued", "running",
   "done", "thrown", "refused", "drained"}

Fields == {"init", "minThreads", "maxThreads", "timeout", "queueMax"}

\* The constructor without arguments leaves every limit at 0 until init()
\* stores it; all callers of init() pass the same limits.
StoredBy(field, value) == IF field \in stored THEN value ELSE 0

minThreads == StoredBy("minThreads", MinThreads)
maxThreads == StoredBy("maxThreads", MaxThreads)
timeout    == StoredBy("timeout", Timeout)
queueMax   == StoredBy("queueMax", QueueMax)

-----------------------------------------------------------------------------
Init ==
  /\ stored \in {{}, Fields}
  /\ shutdown = FALSE
  /\ running = 0
  /\ idle = 0
  /\ queue = <<>>
  /\ waiters = {}
  /\ worker = [w \in Workers |-> "none"]
  /\ minThread = [w \in Workers |-> FALSE]
  /\ timeLeft = [w \in Workers |-> 0]
  /\ job = [w \in Workers |-> NoTask]
  /\ caller = [a \in Threads |-> "out"]
  /\ arg = [a \in Threads |-> NoTask]
  /\ alive = TRUE
  /\ fate = [t \in Tasks |-> "fresh"]

\* ThreadPool::init, past its test of m_init: two callers may both get
\* here.  A caller that finds m_init set returns at once.
InitPool(c) ==
  /\ "init" \notin stored
  /\ alive
  /\ caller[c] = "out"
  /\ caller' = [caller EXCEPT ![c] = "init"]
  /\ UNCHANGED <<poolVars, waiters, workerVars, arg, alive, fate>>

\* One of its stores, which nothing keeps in order for another thread.  One
\* that repeats the store of another caller changes nothing.
StoreField(c) ==
  /\ caller[c] = "init"
  /\ \E field \in Fields \ stored : stored' = stored \union {field}
  /\ UNCHANGED <<shutdown, running, idle, queue, waiters, workerVars,
                 callerVars, fate>>

InitReturns(c) ==
  /\ caller[c] = "init"
  /\ stored = Fields
  /\ caller' = [caller EXCEPT ![c] = "out"]
  /\ UNCHANGED <<poolVars, waiters, workerVars, arg, alive, fate>>

\* A thread that may call `kind' of pool function now: a client while the
\* pool exists, or the code of a task that a worker runs.
MayCall(a, kind) ==
  /\ caller[a] = "out"
  /\ stored = Fields \/ "earlyUse" \in Env
  /\ \/ a \in Clients /\ alive
     \/ a \in Workers /\ worker[a] = "run" /\ kind \in Env

\* Condition::signalAll on m_cond.  Workers, executors and shutdown waiters
\* share the condition, so signal() would not do (Mut: the mutant).
MutSignalOne ==
  IF waiters = {} THEN UNCHANGED waiters
                  ELSE \E x \in waiters : waiters' = waiters \ {x}

SignalAll == waiters' = {}

\* while (m_runningThreads > 0)
MutOnlyIdleLeft == idle > 0

ThreadsLeft == running > 0

-----------------------------------------------------------------------------
(* execute: the body of its wait loop and what follows the loop.           *)

MutQueueOverFull == queueMax # 0 /\ Len(queue) > queueMax

QueueFull == queueMax # 0 /\ Len(queue) = queueMax

Returns(a) ==
  /\ caller' = [caller EXCEPT ![a] = "out"]
  /\ arg' = [arg EXCEPT ![a] = NoTask]

Block(a, t) ==
  /\ QueueFull
  /\ ~shutdown
  /\ waiters' = waiters \union {a}
  /\ caller' = [caller EXCEPT ![a] = "execute"]
  /\ arg' = [arg EXCEPT ![a] = t]
  /\ fate' = [fate EXCEPT ![t] = "calling"]
  /\ UNCHANGED <<poolVars, workerVars>>

\* The pool was shut down: the task is not taken, and the result is FALSE
\* as it is for a task that was taken.
Refuse(a, t) ==
  /\ shutdown
  /\ Returns(a)
  /\ fate' = [fate EXCEPT ![t] = "refused"]
  /\ UNCHANGED <<poolVars, waiters, workerVars>>

\* Mutants: at the front of the queue; without the test of m_shutdown.
MutEnqueueFront(a, t) ==
  /\ ~shutdown
  /\ ~QueueFull
  /\ queue' = <<t>> \o queue
  /\ fate' = [fate EXCEPT ![t] = "queued"]
  /\ Returns(a)

MutEnqueueAlways(a, t) ==
  /\ ~QueueFull
  /\ queue' = Append(queue, t)
  /\ fate' = [fate EXCEPT ![t] = "queued"]
  /\ Returns(a)

Enqueue(a, t) ==
  /\ ~shutdown
  /\ ~QueueFull
  /\ queue' = Append(queue, t)
  /\ fate' = [fate EXCEPT ![t] = "queued"]
  /\ Returns(a)

MutNeverCreates == idle = 0 /\ running > maxThreads

CreatesThread == idle = 0 /\ running < maxThreads

\* No worker is idle and there is room: a new thread, and no signal.  When
\* Thread::start throws, the exception leaves execute() with the task in
\* the queue and the thread counted.
Spawn(a, t, w) ==
  /\ Enqueue(a, t)
  /\ CreatesThread
  /\ worker[w] = "none"
  /\ \/ worker' = [worker EXCEPT ![w] = "next"]
     \/ "startFails" \in Env /\ worker' = [worker EXCEPT ![w] = "lost"]
  /\ minThread' = [minThread EXCEPT ![w] = running < minThreads]
  /\ running' = running + 1
  /\ UNCHANGED <<stored, shutdown, idle, waiters, timeLeft, job, alive>>

Notify(a, t) ==
  /\ Enqueue(a, t)
  /\ ~CreatesThread
  /\ SignalAll
  /\ UNCHANGED <<stored, shutdown, running, idle, workerVars, alive>>

ExecuteBody(a, t) ==
  \/ Block(a, t) /\ UNCHANGED alive
  \/ Refuse(a, t) /\ UNCHANGED alive
  \/ Notify(a, t)
  \/ \E w \in Workers : Spawn(a, t, w)

Execute(a, t) ==
  /\ MayCall(a, "taskExecutes")
  /\ fate[t] = "fresh"
  /\ ExecuteBody(a, t)

ExecuteWake(a) ==
  /\ caller[a] = "execute"
  /\ a \notin waiters
  /\ ExecuteBody(a, arg[a])

-----------------------------------------------------------------------------
(* shutdown, shutdownWhenEmpty and the destructor.                         *)

\* m_shutdown = true; signalAll(); while (m_runningThreads > 0) wait();
MutStopSilently(a, after, return) ==
  /\ shutdown' = TRUE
  /\ waiters' = IF ThreadsLeft THEN waiters \union {a} ELSE waiters
  /\ caller' = [caller EXCEPT ![a] = IF ThreadsLeft THEN after ELSE return]
  /\ UNCHANGED <<stored, running, idle, queue, workerVars, arg, fate>>

Stop(a, after, return) ==
  /\ shutdown' = TRUE
  /\ waiters' = IF ThreadsLeft THEN {a} ELSE {}
  /\ caller' = [caller EXCEPT ![a] = IF ThreadsLeft THEN after ELSE return]
  /\ UNCHANGED <<stored, running, idle, queue, workerVars, arg, fate>>

Shutdown(a) ==
  /\ MayCall(a, "taskStops")
  /\ Stop(a, "shutdown", "out")
  /\ UNCHANGED alive

\* The wait for the workers, resumed.
ShutdownWake(a, at, return) ==
  /\ caller[a] = at
  /\ a \notin waiters
  /\ IF ThreadsLeft
     THEN waiters' = waiters \union {a} /\ UNCHANGED caller
     ELSE caller' = [caller EXCEPT ![a] = return] /\ UNCHANGED waiters
  /\ UNCHANGED <<poolVars, workerVars, arg, alive, fate>>

\* The wait for an empty queue, and what follows once it is empty.
WhenEmptyBody(a) ==
  IF queue # <<>>
  THEN /\ waiters' = waiters \union {a}
       /\ caller' = [caller EXCEPT ![a] = "whenEmpty"]
       /\ UNCHANGED <<poolVars, workerVars, arg, fate>>
  ELSE Stop(a, "shutdown", "out")

ShutdownWhenEmpty(a) ==
  /\ MayCall(a, "taskStops")
  /\ WhenEmptyBody(a)
  /\ UNCHANGED alive

WhenEmptyWake(a) ==
  /\ caller[a] = "whenEmpty"
  /\ a \notin waiters
  /\ WhenEmptyBody(a)
  /\ UNCHANGED alive

\* The destructor.  C++ lets no other client be inside the object.
Destroy(c) ==
  /\ alive
  /\ \A b \in Clients : caller[b] = "out"
  /\ Stop(c, "destroy", "drain")
  /\ alive' = FALSE

\* The loop of the destructor over the queue, which takes no lock.
Drain(c) ==
  /\ caller[c] = "drain"
  /\ queue' = <<>>
  /\ fate' = [t \in Tasks |-> IF fate[t] = "queued" THEN "drained"
                                                    ELSE fate[t]]
  /\ caller' = [caller EXCEPT ![c] = "out"]
  /\ UNCHANGED <<stored, shutdown, running, idle, waiters, workerVars, arg,
                 alive>>

-----------------------------------------------------------------------------
(* A worker: ThreadPoolTask::run and getNextWorkItem.                      *)

\* getNextWorkItem(forbidTimeout) is called with !m_minThread.
MutUntimed(w) == timeout = 0 \/ minThread[w]

Untimed(w) == timeout = 0 \/ ~minThread[w]

\* ret = m_workQueue.front(); m_workQueue.popFront();
TakeFront(w) ==
  /\ queue # <<>>
  /\ queue' = Tail(queue)
  /\ job' = [job EXCEPT ![w] = Head(queue)]
  /\ fate' = [fate EXCEPT ![Head(queue)] = "running"]
  /\ worker' = [worker EXCEPT ![w] = "run"]
  /\ UNCHANGED <<running, minThread>>

\* The same two statements on an empty queue.
PopEmpty(w) ==
  /\ queue = <<>>
  /\ worker' = [worker EXCEPT ![w] = "abort"]
  /\ UNCHANGED <<running, minThread, queue, job, fate>>

\* m_runningThreads--; the thread gets NULL and ends.
EndThread(w) ==
  /\ worker' = [worker EXCEPT ![w] = "none"]
  /\ minThread' = [minThread EXCEPT ![w] = FALSE]
  /\ running' = running - 1
  /\ UNCHANGED <<queue, job, fate>>

\* What follows the wait loops: the oldest task, or the end of the thread.
\* Both signal everybody.  `left' is the value of timeLeft.
Leave(w, left) ==
  /\ IF ~shutdown /\ left > 0 THEN TakeFront(w) \/ PopEmpty(w)
                             ELSE EndThread(w)
  /\ timeLeft' = [timeLeft EXCEPT ![w] = 0]
  /\ SignalAll

\* The condition of the wait loops (mutant: an if, not a while).
MutMustWaitOnce(w, left) ==
  worker[w] = "next" /\ ~shutdown /\ queue = <<>> /\ left > 0

MustWait(w, left) == ~shutdown /\ queue = <<>> /\ left > 0

\* m_idleThreads++; m_cond.wait()
MutGoIdle(w, left) ==
  /\ MustWait(w, left)
  /\ worker' = [worker EXCEPT ![w] = "idle"]
  /\ timeLeft' = [timeLeft EXCEPT ![w] = IF Untimed(w) THEN 0 ELSE left]
  /\ waiters' = waiters \union {w}
  /\ UNCHANGED <<running, idle, queue, minThread, job, fate>>

GoIdle(w, left) ==
  /\ MustWait(w, left)
  /\ worker' = [worker EXCEPT ![w] = "idle"]
  /\ idle' = idle + 1
  /\ timeLeft' = [timeLeft EXCEPT ![w] = IF Untimed(w) THEN 0 ELSE left]
  /\ waiters' = waiters \union {w}
  /\ UNCHANGED <<running, queue, minThread, job, fate>>

\* From the call of getNextWorkItem to its first wait or its return.  The
\* choice between the two loops is made here, once.
GetNext(w) ==
  LET left == IF Untimed(w) THEN 1 ELSE timeout IN
  /\ worker[w] = "next"
  /\ \/ GoIdle(w, left)
     \/ ~MustWait(w, left) /\ Leave(w, left) /\ UNCHANGED idle
  /\ UNCHANGED <<stored, shutdown, callerVars>>

\* From the return of m_cond.wait to the next wait or the return.  The time
\* waited is an estimate, so that any of the time left may be gone.
IdleWake(w) ==
  /\ worker[w] = "idle"
  /\ w \notin waiters
  /\ \E left \in IF timeLeft[w] = 0 THEN {1} ELSE 0..timeLeft[w] :
       \/ /\ MustWait(w, left)
          /\ timeLeft' = [timeLeft EXCEPT ![w] = IF @ = 0 THEN 0 ELSE left]
          /\ waiters' = waiters \union {w}
          /\ UNCHANGED <<running, idle, queue, worker, minThread, job, fate>>
       \/ ~MustWait(w, left) /\ Leave(w, left) /\ idle' = idle - 1
  /\ UNCHANGED <<stored, shutdown, callerVars>>

\* m_cond.wait returns unasked: at a timeout, or spuriously.
WakeUp(x) ==
  /\ x \in waiters
  /\ waiters' = waiters \ {x}
  /\ UNCHANGED <<poolVars, workerVars, callerVars, fate>>

MutTaskReturns(w) ==
  /\ worker[w] = "run"
  /\ caller[w] = "out"
  /\ worker' = [worker EXCEPT ![w] = "none"]
  /\ fate' = [fate EXCEPT ![job[w]] = "done"]
  /\ job' = [job EXCEPT ![w] = NoTask]
  /\ UNCHANGED <<poolVars, waiters, minThread, timeLeft, callerVars>>

\* Runnable::run returns, and the worker goes back for more.
TaskReturns(w) ==
  /\ worker[w] = "run"
  /\ caller[w] = "out"
  /\ worker' = [worker EXCEPT ![w] = "next"]
  /\ fate' = [fate EXCEPT ![job[w]] = "done"]
  /\ job' = [job EXCEPT ![w] = NoTask]
  /\ UNCHANGED <<poolVars, waiters, minThread, timeLeft, callerVars>>

\* The exception passes through ThreadPoolTask::run and is caught by
\* Thread's taskStarter: the thread ends and is still counted.
TaskThrows(w) ==
  /\ "throw" \in Env
  /\ worker[w] = "run"
  /\ caller[w] = "out"
  /\ worker' = [worker EXCEPT ![w] = "lost"]
  /\ fate' = [fate EXCEPT ![job[w]] = "thrown"]
  /\ job' = [job EXCEPT ![w] = NoTask]
  /\ UNCHANGED <<poolVars, waiters, minThread, timeLeft, callerVars>>

CallStep(a) ==
  \/ \E t \in Tasks : Execute(a, t)
  \/ ExecuteWake(a)
  \/ Shutdown(a)
  \/ ShutdownWake(a, "shutdown", "out")
  \/ ShutdownWake(a, "destroy", "drain")
  \/ ShutdownWhenEmpty(a)
  \/ WhenEmptyWake(a)
  \/ Drain(a)

WorkerStep(w) == GetNext(w) \/ IdleWake(w) \/ TaskReturns(w) \/ TaskThrows(w)

Next ==
  \/ \E a \in Threads : CallStep(a) \/ WakeUp(a)
  \/ \E c \in Clients : InitPool(c) \/ StoreField(c) \/ InitReturns(c)
                       \/ Destroy(c)
  \/ \E w \in Workers : WorkerStep(w)

Spec == Init /\ [][Next]_vars

\* The threads of the pool run, every task comes back, and a thread that was
\* signalled gets the mutex of m_cond some day.  Nobody has to call the
\* pool, and no thread has to be woken unasked.
Fairness ==
  /\ \A w \in Workers :
       WF_vars(GetNext(w)) /\ WF_vars(IdleWake(w)) /\ WF_vars(TaskReturns(w))
  /\ \A a \in Threads :
       /\ WF_vars(ExecuteWake(a))
       /\ WF_vars(ShutdownWake(a, "shutdown", "out"))
       /\ WF_vars(ShutdownWake(a, "destroy", "drain"))
       /\ WF_vars(WhenEmptyWake(a))
       /\ WF_vars(Drain(a))

FairSpec == Spec /\ Fairness

-----------------------------------------------------------------------------
(* Properties.                                                             *)

TypeOK ==
  /\ stored \subseteq Fields /\ shutdown \in BOOLEAN /\ alive \in BOOLEAN
  /\ running \in Nat /\ idle \in Nat
  /\ queue \in Seq(Tasks)
  /\ waiters \subseteq Threads
  /\ worker \in [Workers -> WorkerStates]
  /\ minThread \in [Workers -> BOOLEAN]
  /\ timeLeft \in [Workers -> Nat]
  /\ job \in [Workers -> Tasks \union {NoTask}]
  /\ caller \in [Threads -> CallerStates]
  /\ arg \in [Threads -> Tasks \union {NoTask}]
  /\ fate \in [Tasks -> Fates]

InState(S) == {w \in Workers : worker[w] \in S}

\* m_runningThreads counts the threads of the pool and those it lost, and
\* m_idleThreads those inside the wait of getNextWorkItem, whatever path
\* they took: getNextWorkItem and execute adjust the two in five places.
CountsExact ==
  /\ running = Cardinality(InState(WorkerStates \ {"none"}))
  /\ idle = Cardinality(InState({"idle"}))
  /\ running <= MaxThreads

\* A worker that leaves the wait loop takes the front of a queue that is not
\* empty, although another worker may have been woken for the same task.
NoEmptyPop == InState({"abort"}) = {}

\* What a thread blocked on m_cond waits for has not happened: every change
\* of the queue, of m_shutdown and of m_runningThreads that can end a wait
\* is followed by a signal, also where execute() creates a thread instead.
WaitersJustified ==
  \A x \in waiters :
    \/ x \in Workers /\ worker[x] = "idle" /\ queue = <<>> /\ ~shutdown
    \/ caller[x] = "execute" /\ QueueFull /\ ~shutdown
    \/ caller[x] \in {"shutdown", "destroy"} /\ running > 0
    \/ caller[x] = "whenEmpty" /\ queue # <<>>

\* The pool that is given time and threads: no timeouts, used after init().
Steady == Timeout = 0 /\ MaxThreads > 0 /\ "earlyUse" \notin Env

\* A worker that will look at the queue without being signalled again.
Attentive(w) ==
  \/ worker[w] = "next"
  \/ worker[w] = "run" /\ caller[w] = "out"
  \/ worker[w] = "idle" /\ w \notin waiters

\* The pool has threads, and each runs a task that is inside a call of the
\* pool itself.
AllInOwnPool ==
  LET living == InState(WorkerStates \ {"none"}) IN
  /\ living # {}
  /\ \A w \in living : worker[w] = "run" /\ caller[w] # "out"

\* A task in the queue of an open pool has a worker coming for it: execute()
\* counts on an idle worker that it signals or on one that is busy and asks
\* again.  Two cases are left out by name: threads were lost, and every
\* thread the pool has runs a task that waits for the pool itself.
QueueAttended ==
  /\ Steady /\ queue # <<>> /\ ~shutdown
  /\ InState({"lost"}) = {} /\ ~AllInOwnPool
  => \E w \in Workers : Attentive(w)

\* m_queueMax bounds the queue, although the test is == and executors race
\* for the place that a worker frees.
QueueBounded == QueueMax # 0 /\ "earlyUse" \notin Env => Len(queue) <= QueueMax

\* The destructor walks the queue without the lock: nobody else is inside
\* the pool by then.
DrainAlone ==
  \A c \in Clients : caller[c] = "drain" =>
    /\ InState(WorkerStates \ {"none"}) = {}
    /\ \A b \in Threads \ {c} : caller[b] = "out"

\* No thread can go on by itself, and somebody waits for the pool.
Stalled ==
  /\ InState({"next"}) = {}
  /\ \A w \in Workers : worker[w] = "run" => caller[w] # "out"
  /\ \A w \in InState({"idle"}) : w \in waiters
  /\ \A a \in Threads : caller[a] # "out" => a \in waiters
  /\ \/ queue # <<>> /\ ~shutdown
     \/ \E a \in Threads : caller[a] # "out"

\* The pool stalls for these reasons only: a thread was lost to an exception,
\* a task waits inside a call of its own pool, shutdownWhenEmpty waits for a
\* queue that a shutdown has frozen, or tasks were left behind by workers
\* that timed out or by a pool with no threads.
StallHasCause ==
  Stalled =>
    \/ InState({"lost", "run"}) # {}
    \/ shutdown /\ \E a \in Threads : caller[a] = "whenEmpty"
    \/ ~Steady /\ ~shutdown /\ InState(WorkerStates \ {"none"}) = {}

Stopping == {"shutdown", "destroy"}

\* A shutdown function returns only when every thread of the pool has left,
\* and none comes back: after it returned, the pool stays without threads.
ShutdownJoins ==
  /\ \A a \in Threads :
       \/ caller[a] \in Stopping /\ caller'[a] \notin Stopping
       \/ shutdown' /\ ~shutdown /\ caller'[a] # caller[a]
                     /\ caller'[a] \notin Stopping
       => \A w \in Workers : worker'[w] = "none"
  /\ shutdown /\ InState(WorkerStates \ {"none"}) = {}
       => shutdown' /\ \A w \in Workers : worker'[w] = "none"

ShutdownIsFinal == [][ShutdownJoins]_vars

\* Without a shutdown only a thread made to keep the minimum gives up and
\* leaves: getNextWorkItem(!m_minThread) forbids the timeout to the others.
OnlyMinThreadsLeave ==
  [][\A w \in Workers :
       worker[w] # "none" /\ worker'[w] = "none" /\ ~shutdown
         => minThread[w] /\ Timeout # 0]_vars

\* Work is left with no thread to do it only by the step in which the last
\* worker times out after the task was queued.
LeftBehind ==
  queue # <<>> /\ ~shutdown /\ InState(WorkerStates \ {"none"}) = {}

LeftBehindByTimeout ==
  [][LeftBehind' /\ ~LeftBehind /\ maxThreads > 0
       => \E w \in Workers : /\ worker[w] = "idle" /\ worker'[w] = "none"
                             /\ w \notin waiters /\ minThread[w]
                             /\ queue' = queue]_vars

\* An accepted task is run, unless the pool is shut down first.
AcceptedTaskRuns ==
  \A t \in Tasks : fate[t] = "queued" ~> (fate[t] = "done" \/ shutdown)

\* Nobody waits in the pool for ever: execute() gets its place or is turned
\* away, the shutdown functions and the destructor return, and
\* shutdownWhenEmpty sees an empty queue or somebody else's shutdown.
CallsReturn ==
  \A a \in Threads :
    /\ caller[a] = "execute" ~> caller[a] = "out"
    /\ caller[a] \in Stopping \union {"drain"} ~> caller[a] = "out"
    /\ caller[a] = "whenEmpty" ~> (caller[a] # "whenEmpty" \/ shutdown)

\* The pool does what TaskPool promises.
AbstractFate ==
  [t \in Tasks |-> CASE fate[t] \in {"fresh", "calling"} -> "fresh"
                     [] fate[t] \in {"done", "thrown"} -> "finished"
                     [] fate[t] \in {"refused", "drained"} -> "dropped"
                     [] OTHER -> fate[t]]

Abstract == INSTANCE TaskPool
  WITH Limit <- MaxThreads, Capacity <- QueueMax,
       pending <- queue, state <- AbstractFate, closed <- shutdown

\* Tasks start in the order they were accepted, each once, at most MaxThreads
\* at a time, none after a shutdown.
ImplementsTaskPool == Abstract!AbstractSpec

\* ... and the pool does not sit on work it may start.
ImplementsFairTaskPool == Abstract!FairSpec
=============================================================================
