------------------------------ MODULE Condition ------------------------------
(***************************************************************************)
(* The condition variable of the builds for Windows before Vista: a        *)
(* recursive critical section, a manual-reset event and three counters, as *)
(* one record, the operations of the class as operators on it, and Threads *)
(* that call them in any order.  Everything between entering and leaving   *)
(* the critical section is one step.                                       *)
(***************************************************************************)
EXTENDS Integers, FiniteSets

CONSTANTS
    Threads,
    Nobody,         \* owns a free critical section
    Garbage,        \* owns one that was never initialised
    Width,          \* bits of a uint32 counter
    MaxCalls,       \* lock()s and waits of one thread
    MaxGeneration   \* signals that start a generation

VARIABLES
    cond,    \* the object
    pc,      \* where a thread is
    mine,    \* its myGeneration
    waited,  \* waits it came back from
    calls,   \* its calls of lock() and wait()
    stolen   \* waits that ended by their timeout

conditionVars == <<cond, pc, mine, waited, calls, stolen>>

-----------------------------------------------------------------------------

\* The constructor leaves m_conditionLock as it finds it: memory in which it
\* happens to work, or to look taken for ever.
New(owner) ==
    [owner |-> owner, depth |-> IF owner = Nobody THEN 0 ELSE 1,
     m_waitingThreads |-> 0, m_waitGenerationCount |-> 0,
     m_threadsToRelease |-> 0, m_event |-> FALSE]

Free(t) == cond.owner \in {Nobody, t}
Entered(c, t) == [c EXCEPT !.owner = t, !.depth = @ + 1]
\* Mutant: leaving gives the critical section up, however often it was entered.
MutLeft(c) == [c EXCEPT !.depth = @ - 1, !.owner = Nobody]
Left(c) == [c EXCEPT !.depth = @ - 1, !.owner = IF c.depth = 1 THEN Nobody ELSE @]

Signalled(c) ==
    IF c.m_waitingThreads > c.m_threadsToRelease
    THEN [c EXCEPT !.m_event = TRUE, !.m_threadsToRelease = @ + 1,
                   !.m_waitGenerationCount = @ + 1]
    ELSE c
SignalledAll(c) ==
    IF c.m_waitingThreads > 0
    THEN [c EXCEPT !.m_event = TRUE, !.m_threadsToRelease = c.m_waitingThreads,
                   !.m_waitGenerationCount = @ + 1]
    ELSE c

\* waitImpl() before its loop, and after it: a wait that ends takes one from
\* the threads to release, also when its timeout ended it, and enters the
\* critical section a second time.
WaitBegun(c) == Left([c EXCEPT !.m_waitingThreads = @ + 1])
Released(c, generation) == c.m_threadsToRelease > 0 /\ c.m_waitGenerationCount # generation
WaitEnded(c, t) ==
    LET left == (c.m_threadsToRelease - 1) % 2^Width
    IN Entered([c EXCEPT !.m_waitingThreads = @ - 1, !.m_threadsToRelease = left,
                         !.m_event = @ /\ left # 0], t)

-----------------------------------------------------------------------------

Init ==
    /\ \E owner \in {Nobody, Garbage} : cond = New(owner)
    /\ pc = [t \in Threads |-> "outside"]
    /\ mine = [t \in Threads |-> 0]
    /\ waited = [t \in Threads |-> 0]
    /\ calls = [t \in Threads |-> 0]
    /\ stolen = 0

lock(t) ==
    /\ pc[t] = "outside" /\ Free(t) /\ calls[t] < MaxCalls
    /\ cond' = Entered(cond, t)
    /\ pc' = [pc EXCEPT ![t] = "inside"]
    /\ calls' = [calls EXCEPT ![t] = @ + 1]
    /\ UNCHANGED <<mine, waited, stolen>>

unlock(t) ==
    /\ pc[t] = "inside"
    /\ cond' = Left(cond)
    /\ pc' = [pc EXCEPT ![t] = "outside"]
    /\ UNCHANGED <<mine, waited, calls, stolen>>

signal(t) ==
    /\ pc[t] = "inside" /\ cond.m_waitGenerationCount < MaxGeneration
    /\ cond' = Signalled(cond)
    /\ UNCHANGED <<pc, mine, waited, calls, stolen>>

signalAll(t) ==
    /\ pc[t] = "inside" /\ cond.m_waitGenerationCount < MaxGeneration
    /\ cond' = SignalledAll(cond)
    /\ UNCHANGED <<pc, mine, waited, calls, stolen>>

\* wait(), or wait(milliseconds).
wait(t) ==
    /\ pc[t] = "inside" /\ calls[t] < MaxCalls
    /\ cond' = WaitBegun(cond)
    /\ calls' = [calls EXCEPT ![t] = @ + 1]
    /\ mine' = [mine EXCEPT ![t] = cond.m_waitGenerationCount]
    /\ \E how \in {"waits", "waits a while"} : pc' = [pc EXCEPT ![t] = how]
    /\ UNCHANGED <<waited, stolen>>

\* WaitForSingleObject() returns for the event or for the timeout.
wake(t) ==
    /\ pc[t] \in {"waits", "waits a while"}
    /\ \/ /\ cond.m_event
          /\ pc' = [pc EXCEPT ![t] = IF @ = "waits" THEN "woken" ELSE "woken in time"]
       \/ pc[t] = "waits a while" /\ pc' = [pc EXCEPT ![t] = "timed out"]
    /\ UNCHANGED <<cond, mine, waited, calls, stolen>>

\* The rest of waitImpl(): the loop goes on, or the wait is done.
recheck(t) ==
    /\ pc[t] \in {"woken", "woken in time", "timed out"} /\ Free(t)
    /\ IF Released(cond, mine[t]) \/ pc[t] = "timed out"
       THEN /\ cond' = WaitEnded(Entered(cond, t), t)
            /\ pc' = [pc EXCEPT ![t] = "inside"]
            /\ waited' = [waited EXCEPT ![t] = @ + 1]
            /\ stolen' = IF Released(cond, mine[t]) THEN stolen ELSE stolen + 1
       ELSE /\ pc' = [pc EXCEPT ![t] = IF @ = "woken" THEN "waits" ELSE "waits a while"]
            /\ UNCHANGED <<cond, waited, stolen>>
    /\ UNCHANGED <<mine, calls>>

Next ==
    \E t \in Threads :
        lock(t) \/ unlock(t) \/ signal(t) \/ signalAll(t) \/ wait(t) \/ wake(t) \/ recheck(t)

-----------------------------------------------------------------------------

Waiting == {t \in Threads : pc[t] \notin {"outside", "inside"}}

\* The condition variable keeps the types of its fields.
TypeOK ==
    /\ cond.owner \in Threads \cup {Nobody, Garbage}
    /\ cond.depth \in Nat /\ (cond.depth = 0) = (cond.owner = Nobody)
    /\ cond.m_waitingThreads \in 0..Cardinality(Threads)
    /\ cond.m_threadsToRelease \in 0..(2^Width - 1)
    /\ cond.m_waitGenerationCount \in 0..MaxGeneration
    /\ cond.m_event \in BOOLEAN

\* One thread at a time is between lock() and unlock(), and who left the
\* critical section or waits has given it up: "Unlocks the mutex used by this
\* event".  A wait that comes back enters it once more than unlock() leaves
\* it; threads that came back from one are exempt.
Guarded ==
    \A t \in Threads :
        /\ pc[t] = "inside" => cond.owner = t
        /\ pc[t] # "inside" /\ waited[t] = 0 => cond.owner # t

\* m_waitingThreads counts the threads inside wait().  While every wait was
\* ended by a signal, the threads to release are among the waiting ones, and
\* the event is set exactly while there are some.
Accounted ==
    /\ cond.m_waitingThreads = Cardinality(Waiting)
    /\ stolen = 0 => /\ cond.m_threadsToRelease <= cond.m_waitingThreads
                     /\ cond.m_event = (cond.m_threadsToRelease > 0)
=============================================================================
