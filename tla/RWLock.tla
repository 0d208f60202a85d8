-------------------------------- MODULE RWLock --------------------------------
(***************************************************************************)
(* The lock of readers and writers in its three builds: over the           *)
(* Condition of Windows before Vista, over an SRWLOCK, and over a          *)
(* pthread_rwlock_t.  In the last two m_readers and m_writers stand for    *)
(* what the system's lock holds.                                           *)
(***************************************************************************)
EXTENDS Integers, FiniteSets

CONSTANTS Threads, Nobody, Garbage, Width, MaxCalls, MaxGeneration

VARIABLES
    build,      \* "old", "vista" or "unix"
    m_readers, m_writers,
    access,     \* what a thread asked for last
    cond, pc, mine, waited, calls, stolen   \* as in Condition

Cond == INSTANCE Condition

Types == {"READER", "WRITER"}

Init ==
    /\ build \in {"old", "vista", "unix"}
    /\ m_readers = 0 /\ m_writers = 0
    /\ access = [t \in Threads |-> "READER"]
    /\ \E owner \in {Nobody, Garbage} : cond = Cond!New(owner)
    /\ build # "old" => cond.owner = Nobody
    /\ pc = [t \in Threads |-> "outside"]
    /\ mine = [t \in Threads |-> 0]
    /\ waited = [t \in Threads |-> 0]
    /\ calls = [t \in Threads |-> 0]
    /\ stolen = 0

\* Mutant: a reader does not look for a writer.
MutConflicts(type) == type = "WRITER" /\ (m_writers > 0 \/ m_readers > 0)
Conflicts(type) == m_writers > 0 \/ (type = "WRITER" /\ m_readers > 0)
Taken(type) ==
    IF type = "WRITER" THEN m_writers' = m_writers + 1 /\ UNCHANGED m_readers
    ELSE m_readers' = m_readers + 1 /\ UNCHANGED m_writers
Asks(t, type) ==
    /\ pc[t] = "outside" /\ calls[t] < MaxCalls
    /\ calls' = [calls EXCEPT ![t] = @ + 1]
    /\ access' = [access EXCEPT ![t] = type]

\* The loop of lock(): take the lock and leave, or wait (again).
Settle(t, type, c) ==
    IF Conflicts(type)
    THEN /\ cond' = Cond!WaitBegun(c)
         /\ mine' = [mine EXCEPT ![t] = c.m_waitGenerationCount]
         /\ pc' = [pc EXCEPT ![t] = "waits"]
         /\ UNCHANGED <<m_readers, m_writers>>
    ELSE /\ cond' = Cond!Left(c)
         /\ pc' = [pc EXCEPT ![t] = "holds"]
         /\ Taken(type)
         /\ UNCHANGED mine

lock_old(t, type) ==
    /\ build = "old" /\ Cond!Free(t)
    /\ Asks(t, type)
    /\ Settle(t, type, Cond!Entered(cond, t))
    /\ UNCHANGED <<build, waited, stolen>>

lock_vista(t, type) ==
    /\ build = "vista" /\ ~Conflicts(type)
    /\ Asks(t, type)
    /\ Taken(type)
    /\ pc' = [pc EXCEPT ![t] = "holds"]
    /\ UNCHANGED <<build, cond, mine, waited, stolen>>

\* lock() takes the zero of a success for an error, and aborts the program.
lock_unix(t, type) ==
    /\ build = "unix" /\ ~Conflicts(type)
    /\ Asks(t, type)
    /\ Taken(type)
    /\ pc' = [u \in Threads |-> "aborted"]
    /\ UNCHANGED <<build, cond, mine, waited, stolen>>

wake(t) ==
    /\ pc[t] = "waits" /\ cond.m_event
    /\ pc' = [pc EXCEPT ![t] = "woken"]
    /\ UNCHANGED <<build, m_readers, m_writers, access, cond, mine, waited, calls, stolen>>

\* A thread the event woke either was not meant, or is back in lock().
recheck(t) ==
    /\ pc[t] = "woken" /\ Cond!Free(t)
    /\ IF Cond!Released(cond, mine[t])
       THEN /\ Settle(t, access[t], Cond!WaitEnded(Cond!Entered(cond, t), t))
            /\ waited' = [waited EXCEPT ![t] = @ + 1]
       ELSE /\ pc' = [pc EXCEPT ![t] = "waits"]
            /\ UNCHANGED <<cond, mine, waited, m_readers, m_writers>>
    /\ UNCHANGED <<build, access, calls, stolen>>

\* Where the system's lock is busy, unix looks for the reason in errno, which
\* nobody set: the program aborts unless EBUSY is left from another call.
trylock(t, type) ==
    /\ build = "old" => Cond!Free(t)
    /\ Asks(t, type)
    /\ IF ~Conflicts(type)
       THEN Taken(type) /\ pc' = [pc EXCEPT ![t] = "holds"]
       ELSE /\ \/ UNCHANGED pc
               \/ build = "unix" /\ pc' = [u \in Threads |-> "aborted"]
            /\ UNCHANGED <<m_readers, m_writers>>
    /\ UNCHANGED <<build, cond, mine, waited, stolen>>

\* Mutant: only a writer signals when it leaves.
MutUnlock(t) ==
    /\ pc[t] = "holds"
    /\ pc' = [pc EXCEPT ![t] = "outside"]
    /\ IF access[t] = "WRITER" THEN m_writers' = m_writers - 1 /\ UNCHANGED m_readers
       ELSE m_readers' = m_readers - 1 /\ UNCHANGED m_writers
    /\ IF build = "old"
       THEN /\ Cond!Free(t) /\ cond.m_waitGenerationCount < MaxGeneration
            /\ LET c == Cond!Entered(cond, t)
               IN cond' = Cond!Left(IF access[t] = "WRITER" THEN Cond!Signalled(c) ELSE c)
       ELSE UNCHANGED cond
    /\ UNCHANGED <<build, access, mine, waited, calls, stolen>>

\* One of the waiting threads is signalled, reader or writer.
unlock(t) ==
    /\ pc[t] = "holds"
    /\ pc' = [pc EXCEPT ![t] = "outside"]
    /\ IF access[t] = "WRITER" THEN m_writers' = m_writers - 1 /\ UNCHANGED m_readers
       ELSE m_readers' = m_readers - 1 /\ UNCHANGED m_writers
    /\ IF build = "old"
       THEN /\ Cond!Free(t) /\ cond.m_waitGenerationCount < MaxGeneration
            /\ cond' = Cond!Left(Cond!Signalled(Cond!Entered(cond, t)))
       ELSE UNCHANGED cond
    /\ UNCHANGED <<build, access, mine, waited, calls, stolen>>

Next ==
    \E t \in Threads :
        \/ \E type \in Types :
               \/ lock_old(t, type) \/ lock_vista(t, type) \/ lock_unix(t, type)
               \/ trylock(t, type)
        \/ wake(t) \/ recheck(t) \/ unlock(t)

-----------------------------------------------------------------------------

Holders(type) == {t \in Threads : pc[t] = "holds" /\ access[t] = type}

\* The lock's counters are natural numbers.
TypeOK == m_readers \in Nat /\ m_writers \in Nat /\ Cond!TypeOK

\* A writer is alone, in every build.
Guarded ==
    /\ Cardinality(Holders("WRITER")) <= 1
    /\ Holders("WRITER") # {} => Holders("READER") = {}

\* The counters are the holders.  A thread waits for a free lock only while a
\* wake-up is under way, or while the thread that came back from a wait keeps
\* the critical section for ever: a single signal to readers and writers alike
\* loses none by itself.
Accounted ==
    /\ \A t \in Threads : pc[t] # "aborted" =>
           /\ m_readers = Cardinality(Holders("READER"))
           /\ m_writers = Cardinality(Holders("WRITER"))
    /\ (/\ m_readers = 0 /\ m_writers = 0
        /\ \E t \in Threads : pc[t] = "waits"
        /\ \A t \in Threads : pc[t] # "woken") =>
           cond.m_event \/ cond.owner # Nobody
=============================================================================
