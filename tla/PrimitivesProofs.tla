--------------------------- MODULE PrimitivesProofs ---------------------------
(***************************************************************************)
(* Proofs about Primitives: exclusion, accounts and types of the locks,    *)
(* threads, timed waits and child processes, for any number of threads and *)
(* objects and any limits.  Each part has an invariant of its own, named   *)
(* like the part, and one lemma says that a step of the part keeps it.     *)
(***************************************************************************)
EXTENDS Primitives, FiniteSetTheorems, SequenceTheorems, TLAPS

-----------------------------------------------------------------------------
(* Counting threads, and counters that wrap.                               *)

\* A set of threads counts one more, or one less, when one is put in or taken out.
LEMMA Counting ==
    ASSUME NEW S \in SUBSET Threads
    PROVE  /\ IsFiniteSet(S) /\ Cardinality(S) \in Nat
           /\ Cardinality(S) <= Cardinality(Threads)
           /\ S = {} <=> Cardinality(S) = 0
           /\ \A t \in Threads \ S : Cardinality(S \cup {t}) = Cardinality(S) + 1
           /\ \A t \in S : Cardinality(S \ {t}) = Cardinality(S) - 1
<1>1. IsFiniteSet(S) /\ Cardinality(S) <= Cardinality(Threads)
    BY PrimitivesAssumption, FS_Subset
<1>2. Cardinality(S) \in Nat /\ (S = {} <=> Cardinality(S) = 0)
    BY <1>1, FS_CardinalityType, FS_EmptySet
<1>3. ASSUME NEW t \in Threads \ S  PROVE Cardinality(S \cup {t}) = Cardinality(S) + 1
    BY <1>1, FS_AddElement
<1>4. ASSUME NEW t \in S  PROVE Cardinality(S \ {t}) = Cardinality(S) - 1
    BY <1>1, FS_RemoveElement
<1> QED BY <1>1, <1>2, <1>3, <1>4

\* A counter as wide as the code's counts all threads, and wraps below zero only.
LEMMA Wrapping ==
    /\ 2^Width \in Nat /\ Cardinality(Threads) \in Nat /\ Cardinality(Threads) < 2^Width
    /\ \A n \in Nat : n < 2^Width =>
           /\ (n - 1) % 2^Width \in Nat /\ (n - 1) % 2^Width < 2^Width
           /\ n > 0 => (n - 1) % 2^Width = n - 1
<1>1. Cardinality(Threads) \in Nat
    BY PrimitivesAssumption, FS_CardinalityType
<1>2. 2^Width \in Int
    BY PrimitivesAssumption
<1>3. 2^Width \in Nat /\ 2^Width > 0
    BY <1>1, <1>2, PrimitivesAssumption
<1> DEFINE M == 2^Width
<1> HIDE DEF M
<1>4. M \in Nat /\ M > 0
    BY <1>3 DEF M
<1>5. \A n \in Nat : n < M =>
          (n - 1) % M \in Nat /\ (n - 1) % M < M /\ (n > 0 => (n - 1) % M = n - 1)
    BY <1>4
<1> QED BY <1>1, <1>3, <1>5, PrimitivesAssumption DEF M

-----------------------------------------------------------------------------
(* Once.                                                                   *)

\* Who runs the function is alone, and found the word free.
OnceInv ==
    /\ control \in 0..2
    /\ func \in [began : Nat, ended : Nat, threw : Nat]
    /\ pc \in [Threads -> {"outside", "spins", "runs", "returned", "threw"}]
    /\ func.began = IF control = 0 THEN 0 ELSE 1
    /\ func.ended = IF control = 2 THEN 1 ELSE 0
    /\ \A t \in Threads : pc[t] = "runs" => control = 1 /\ func.threw = 0
    /\ \A t, u \in Threads : pc[t] = "runs" /\ pc[u] = "runs" => t = u
    /\ control = 1 => func.threw = 1 \/ \E t \in Threads : pc[t] = "runs"
    /\ control = 0 => func.threw = 0
    /\ \A t \in Threads : pc[t] = "returned" => control = 2

\* The invariant of a once holds at first, and says what is wanted of it.
LEMMA OnceHolds == (O!Init => OnceInv) /\ (OnceInv => O!TypeOK /\ O!Guarded /\ O!Accounted)
<1>1. O!Init => OnceInv
    BY DEF O!Init, OnceInv
<1>2. OnceInv => O!TypeOK /\ O!Guarded /\ O!Accounted
    BY DEF OnceInv, O!TypeOK, O!Guarded, O!Accounted
<1> QED BY <1>1, <1>2

\* A call of the once, and what its function does, keep the invariant.
LEMMA OnceStep == ASSUME OnceInv, O!Next  PROVE OnceInv'
<1> USE DEF OnceInv
<1>1. ASSUME NEW t \in Threads, O!call_once(t)  PROVE OnceInv'
    BY <1>1 DEF O!call_once
<1>2. ASSUME NEW t \in Threads, O!finish(t)  PROVE OnceInv'
    BY <1>2 DEF O!finish
<1>3. ASSUME NEW t \in Threads, O!throw(t)  PROVE OnceInv'
    BY <1>3 DEF O!throw
<1> QED BY <1>1, <1>2, <1>3 DEF O!Next

-----------------------------------------------------------------------------
(* Thread.                                                                 *)

Joined == {t \in Threads : pc[t] = "joined"}

\* A pthread was released by each join, and by the destructor.  Who waits for
\* a thread has its handle, which is set once and for a thread that exists.
ThreadInv ==
    /\ T!TypeOK /\ T!Guarded
    /\ unix => released = Cardinality(Joined) +
                   (IF object.state = "destroyed" /\ wasStarted THEN 1 ELSE 0)
    /\ isRunning /\ task = "none" => T!StartsNow \/ (~unix /\ object.handle = "null")
    /\ (\E t \in Threads : pc[t] = "joined") => ~isRunning
    /\ unix \in BOOLEAN
    /\ object \in [state : {"alive", "destroyed"}, handle : {"unset", "set", "null"},
                   autoDelete : BOOLEAN]
    /\ runnable \in {"alive", "deleted"}
    /\ pc \in [Threads -> {"outside", "tested", "joins", "stuck", "joined", "threw"}]
    /\ isRunning \/ task # "none" => wasStarted
    /\ object.state = "destroyed" => ~T!StartsNow
    /\ \A t \in Threads :
           /\ pc[t] \in {"tested", "joins", "stuck"} => object.state = "alive"
           /\ pc[t] = "joins" => object.handle = "set"
    /\ object.handle = "set" => task # "none"
    /\ object.handle = "null" => ~unix

\* The invariant of a thread holds at first, and says what is wanted of it.
LEMMA ThreadHolds == (T!Init => ThreadInv) /\ (ThreadInv => T!TypeOK /\ T!Guarded /\ T!Accounted)
<1>1. ASSUME T!Init  PROVE ThreadInv
    <2>1. Joined = {}
        BY <1>1 DEF T!Init, Joined
    <2>2. Cardinality(Joined) = 0
        BY <2>1, FS_EmptySet
    <2>3. T!TypeOK /\ T!Guarded /\ ~isRunning /\ task = "none" /\ unix \in BOOLEAN
        BY <1>1 DEF T!Init, T!TypeOK, T!Guarded
    <2>4. released = 0 /\ object.state # "destroyed" /\ object.handle = "unset"
        BY <1>1 DEF T!Init
    <2>5. released = Cardinality(Joined) +
              (IF object.state = "destroyed" /\ wasStarted THEN 1 ELSE 0)
        BY <2>2, <2>4
    <2>6. /\ object \in [state : {"alive", "destroyed"}, handle : {"unset", "set", "null"},
                         autoDelete : BOOLEAN]
          /\ runnable \in {"alive", "deleted"}
          /\ pc \in [Threads -> {"outside", "tested", "joins", "stuck", "joined", "threw"}]
          /\ \A t \in Threads : pc[t] = "outside"
        BY <1>1 DEF T!Init
    <2> QED BY <2>3, <2>4, <2>5, <2>6 DEF ThreadInv
<1>2. ASSUME ThreadInv  PROVE T!Accounted
    <2>1. T!Cardinality(Joined) = Cardinality(Joined)
        BY DEF T!Cardinality, Cardinality
    <2>2. Cardinality(Joined) \in Nat
        BY Counting DEF Joined
    <2>3. CASE object.state = "destroyed" /\ wasStarted
        <3>1. unix => released = Cardinality(Joined) + 1
            BY <1>2, <2>3 DEF ThreadInv
        <3>2. unix => /\ released > 0
                      /\ released > 1 => Cardinality(Joined) > 1 \/ Cardinality(Joined) = 1
            BY <2>2, <3>1
        <3> QED BY <1>2, <2>1, <2>3, <3>2 DEF ThreadInv, T!Accounted, Joined
    <2>4. CASE ~(object.state = "destroyed" /\ wasStarted)
        <3>1. unix => released = Cardinality(Joined)
            BY <1>2, <2>2, <2>4 DEF ThreadInv
        <3> QED BY <1>2, <2>1, <2>4, <3>1 DEF ThreadInv, T!Accounted, Joined
    <2> QED BY <2>3, <2>4
<1> QED BY <1>1, <1>2 DEF ThreadInv

\* Starting, running, joining and destroying a thread keep its invariant.
LEMMA ThreadStep == ASSUME ThreadInv, T!Next  PROVE ThreadInv'
<1>0. Cardinality(Joined) \in Nat
    BY Counting DEF Joined
<1> USE DEF ThreadInv, T!TypeOK, T!Guarded, T!Release, T!StartsNow
<1>1. CASE T!start
    <2>1. task = "none" /\ object.state = "alive" /\ object.handle # "set"
        BY <1>1 DEF T!start
    <2>2. \A t \in Threads : pc[t] \notin {"joins", "joined"}
        BY <2>1
    <2>3. Joined = {} /\ Joined' = Joined
        BY <1>1, <2>2 DEF T!start, Joined
    <2>4. /\ UNCHANGED <<unix, object, task, runnable, released, pc>>
          /\ wasStarted' = TRUE /\ isRunning' = TRUE
        BY <1>1 DEF T!start
    <2>5. unix => released' = Cardinality(Joined') +
               (IF object'.state = "destroyed" /\ wasStarted' THEN 1 ELSE 0)
        BY <1>0, <2>1, <2>3, <2>4
    <2> QED BY <2>1, <2>2, <2>4, <2>5
<1>2. CASE T!taskStarter
    BY <1>0, <1>2 DEF T!taskStarter, Joined
<1>3. CASE T!destroy
    <2>1. \A t \in Threads : pc[t] \notin {"tested", "joins", "stuck"}
        BY <1>3 DEF T!destroy, T!Inside
    <2>2. Joined' = Joined
        BY <1>3 DEF T!destroy, Joined
    <2> QED BY <1>0, <1>3, <2>1, <2>2 DEF T!destroy
<1>6. CASE T!create
    <2>1. Joined' = Joined
        BY <1>6 DEF T!create, Joined
    <2>2. object.state = "alive"
        BY <1>6 DEF T!create
    <2>3. CASE task' = "runs" /\ UNCHANGED <<wasStarted, isRunning, object>>
        BY <1>0, <1>6, <2>1, <2>2, <2>3 DEF T!create
    <2>4. CASE /\ wasStarted' = ~unix /\ isRunning' = ~unix
               /\ object' = [object EXCEPT !.handle = IF unix THEN "unset" ELSE "null"]
               /\ UNCHANGED task
        <3>1. task = "none" /\ object.handle = "unset"
            BY <1>6 DEF T!create
        <3>2. \A t \in Threads : pc[t] # "joins" /\ pc[t] # "joined"
            BY <3>1
        <3>3. Joined = {} /\ Cardinality(Joined) = 0
            BY <3>2, FS_EmptySet DEF Joined
        <3>4. CASE unix
            BY <1>0, <1>6, <2>1, <2>2, <2>4, <3>1, <3>2, <3>4 DEF T!create
        <3>5. CASE ~unix
            BY <1>0, <1>6, <2>1, <2>2, <2>4, <3>1, <3>2, <3>5 DEF T!create
        <3> QED BY <3>4, <3>5
    <2> QED BY <1>6, <2>3, <2>4 DEF T!create
<1>7. CASE T!created
    <2>1. Joined' = Joined
        BY <1>7 DEF T!created, Joined
    <2>2. object.state = "alive"
        BY <1>7 DEF T!created
    <2> QED BY <1>0, <1>7, <2>1, <2>2 DEF T!created
<1>4. ASSUME NEW t \in Threads, T!join(t)  PROVE ThreadInv'
    <2>1. Joined' = Joined
        BY <1>4 DEF T!join, Joined
    <2> QED BY <1>0, <1>4, <2>1 DEF T!join
<1>8. ASSUME NEW t \in Threads, T!read(t)  PROVE ThreadInv'
    <2>1. PICK next \in T!Waits(object.handle) : pc' = [pc EXCEPT ![t] = next]
        BY <1>8 DEF T!read
    <2>2. next \in {"joins", "threw", "stuck"} /\ (next = "joins" => object.handle = "set")
        BY <2>1 DEF T!Waits
    <2>3. Joined' = Joined
        BY <1>8, <2>1, <2>2 DEF T!read, Joined
    <2> QED BY <1>0, <1>8, <2>1, <2>2, <2>3 DEF T!read
<1>5. ASSUME NEW t \in Threads, T!joined(t)  PROVE ThreadInv'
    <2>1. Joined' = Joined \cup {t} /\ t \notin Joined /\ Joined \subseteq Threads
        BY <1>5 DEF T!joined, Joined
    <2>2. Cardinality(Joined') = Cardinality(Joined) + 1
        BY <2>1, Counting
    <2>3. object.state = "alive" /\ UNCHANGED <<unix, object, wasStarted, task>> /\ task = "ended"
        BY <1>5 DEF T!joined
    <2>4. unix => released' = Cardinality(Joined') +
               (IF object'.state = "destroyed" /\ wasStarted' THEN 1 ELSE 0)
        BY <1>0, <1>5, <2>2, <2>3 DEF T!joined
    <2>5. released' \in Nat /\ ~isRunning' /\ isRunning' \in BOOLEAN
        <3>1. isRunning' = FALSE /\ released' = IF unix THEN released + 1 ELSE released
            BY <1>5 DEF T!joined
        <3>2. released \in Nat
            OBVIOUS
        <3>3. released' \in Nat
            BY <3>1, <3>2
        <3> QED BY <3>1, <3>3
    <2>6. T!Guarded'
        BY <1>5 DEF T!joined
    <2>7. pc' = [pc EXCEPT ![t] = "joined"] /\ UNCHANGED runnable
        BY <1>5 DEF T!joined
    <2>8. /\ pc' \in [Threads -> {"outside", "tested", "joins", "stuck", "joined", "threw"}]
          /\ \A a \in Threads : pc'[a] # "joined" => pc'[a] = pc[a]
        BY <2>7
    <2>9. T!TypeOK' /\ unix' \in BOOLEAN /\ runnable' \in {"alive", "deleted"}
        BY <2>3, <2>5, <2>7
    <2>10. \A a \in Threads :
               /\ pc'[a] \in {"tested", "joins", "stuck"} => object'.state = "alive"
               /\ pc'[a] = "joins" => object'.handle = "set"
        BY <2>3, <2>8
    <2> QED BY <2>3, <2>4, <2>5, <2>6, <2>8, <2>9, <2>10
<1> QED BY <1>1, <1>2, <1>3, <1>4, <1>5, <1>6, <1>7, <1>8 DEF T!Next

-----------------------------------------------------------------------------
(* TimedWait.                                                              *)

WaitInv ==
    /\ start \in Clocks /\ milliseconds \in Delays
    /\ W!TypeOK /\ W!Guarded

\* A difference is told in milliseconds, of which it loses a part at most.
LEMMA Difference ==
    ASSUME NEW from \in Nat \X Nat, NEW to \in Nat \X Nat
    PROVE  LET error == (W!difference(to, from) - (to[1] - from[1]) * 1000) * 1000000 - (to[2] - from[2])
           IN W!difference(to, from) \in Int /\ -1000000 < error /\ error < 1000000
<1> DEFINE n == from[2]
           m == to[2]
           rest == W!Toward0(m - n, 1000000)
           whole == (to[1] - from[1]) * 1000
<1>1. n \in Nat /\ m \in Nat /\ from[1] \in Nat /\ to[1] \in Nat
    OBVIOUS
<1>2. W!difference(to, from) = whole + rest
    BY SMT DEF W!difference
<1>3. whole \in Int
    BY SMT, <1>1
<1> HIDE DEF n, m, whole
<1>4. rest \in Int /\ -1000000 < rest * 1000000 - (m - n) /\ rest * 1000000 - (m - n) < 1000000
    BY SMT, <1>1 DEF W!Toward0
<1> HIDE DEF rest
<1>5. (whole + rest) - whole = rest /\ whole + rest \in Int
    BY SMT, <1>3, <1>4
<1>6. /\ W!difference(to, from) \in Int
      /\ -1000000 < (W!difference(to, from) - whole) * 1000000 - (m - n)
      /\ (W!difference(to, from) - whole) * 1000000 - (m - n) < 1000000
    BY SMT, <1>2, <1>4, <1>5
<1> QED BY SMT, <1>6 DEF whole, m, n

\* The invariant of a timed wait holds at first, and says what is wanted of it.
LEMMA WaitHolds == (W!Init => WaitInv) /\ (WaitInv => W!TypeOK /\ W!Guarded /\ W!Accounted)
<1>1. W!Init => WaitInv
    BY SMT DEF W!Init, WaitInv, W!TypeOK, W!Guarded
<1>2. ASSUME WaitInv  PROVE W!Accounted
    <2>1. start[1] \in Nat /\ start[2] \in Nat /\ milliseconds \in Nat
        BY SMT, <1>2, TimesAssumption DEF WaitInv
    <2> DEFINE rest == milliseconds % 1000
               whole == milliseconds \div 1000
               second == start[1]
    <2>2. /\ rest \in Int /\ 0 <= rest /\ rest <= 999 /\ whole \in Nat
          /\ milliseconds = 1000 * whole + rest
        BY SMT, <2>1
    <2>3. W!waitTillTime(start, milliseconds) = <<second + whole, rest * 1000000>>
        BY SMT, <2>1, <2>2 DEF W!waitTillTime
    <2>4. second \in Nat
        BY <2>1
    <2> HIDE DEF rest, whole, second
    <2>5. 0 <= rest * 1000000 /\ rest * 1000000 <= 999999999
        BY SMT, <2>2
    <2>6. (rest * 1000000) \div 1000000 = rest /\ rest * 1000000 - 0 = rest * 1000000
        BY SMT, <2>2
    <2>7. W!Toward0(rest * 1000000 - 0, 1000000) = rest
        <3> DEFINE nano == rest * 1000000 - 0
        <3>1. 0 <= nano /\ nano \in Int /\ nano \div 1000000 = rest
            BY SMT, <2>2, <2>5, <2>6
        <3> HIDE DEF nano
        <3>2. W!Toward0(nano, 1000000) = rest
            BY SMT, <3>1 DEF W!Toward0
        <3> QED BY SMT, <3>2 DEF nano
    <2>8. ((second + whole) - second) * 1000 + rest = milliseconds
        BY SMT, <2>2, <2>4
    <2>9. /\ W!waitTillTime(start, milliseconds)[1] = second + whole
          /\ W!waitTillTime(start, milliseconds)[2] = rest * 1000000
        BY <2>3
    <2>10. ASSUME start[2] = 0
           PROVE  W!difference(W!waitTillTime(start, milliseconds), start) = milliseconds
        BY <2>7, <2>8, <2>9, <2>10 DEF W!difference, second
    <2> QED BY <2>5, <2>9, <2>10 DEF W!Accounted
<1> QED BY <1>1, <1>2 DEF WaitInv

\* A call of the timed wait keeps its invariant.
LEMMA WaitStep == ASSUME WaitInv, W!Next  PROVE WaitInv'
<1>1. CASE errno # "ETIMEDOUT"
    BY SMT, <1>1 DEF W!Next, W!wait, WaitInv, W!TypeOK, W!Guarded
<1>2. CASE errno = "ETIMEDOUT"
    <2>1. endTime' \in Clocks /\ ret' = W!difference(endTime', start) /\ outcome' = "returned"
        BY SMT, <1>2 DEF W!Next, W!wait
    <2>2. start' = start /\ milliseconds' = milliseconds
        BY <1>2 DEF W!Next, W!wait
    <2>3. start' \in Nat \X Nat /\ endTime' \in Nat \X Nat
        BY <2>1, <2>2, TimesAssumption DEF WaitInv
    <2>4. ret' = W!difference(endTime', start')
        BY <2>1, <2>2
    <2>5. /\ ret' \in Int
          /\ -1000000 < (ret' - (endTime'[1] - start'[1]) * 1000) * 1000000 - (endTime'[2] - start'[2])
          /\ (ret' - (endTime'[1] - start'[1]) * 1000) * 1000000 - (endTime'[2] - start'[2]) < 1000000
        BY SMT, <2>3, <2>4, Difference
    <2>6. W!Guarded'
        BY SMT, <2>5 DEF W!Guarded
    <2>7. ret' \in Int
        BY SMT, <2>5
    <2>8. W!TypeOK'
        BY <2>1, <2>7 DEF W!TypeOK
    <2> QED BY <2>2, <2>6, <2>8 DEF WaitInv
<1> QED BY <1>1, <1>2

-----------------------------------------------------------------------------
(* The record of a condition variable.                                     *)

Formed(c) ==
    c = [owner |-> c.owner, depth |-> c.depth, m_waitingThreads |-> c.m_waitingThreads,
         m_waitGenerationCount |-> c.m_waitGenerationCount,
         m_threadsToRelease |-> c.m_threadsToRelease, m_event |-> c.m_event]
SameSignals(c, d) ==
    /\ d.m_waitGenerationCount = c.m_waitGenerationCount
    /\ d.m_threadsToRelease = c.m_threadsToRelease
    /\ d.m_event = c.m_event
SameWaits(c, d) == d.m_waitingThreads = c.m_waitingThreads /\ SameSignals(c, d)

\* Entering counts one more, for the thread that enters.
LEMMA Entering ==
    ASSUME NEW c, NEW t, Formed(c)
    PROVE  LET d == C!Entered(c, t)
           IN Formed(d) /\ SameWaits(c, d) /\ d.owner = t /\ d.depth = c.depth + 1
<1> DEFINE d == C!Entered(c, t)
<1>1. d = [c EXCEPT !.owner = t, !.depth = c.depth + 1]
    BY DEF C!Entered
<1> HIDE DEF d
<1>2. Formed(d) /\ SameWaits(c, d)
    BY <1>1 DEF Formed, SameWaits, SameSignals
<1>3. d.owner = t
    BY <1>1 DEF Formed
<1>4. d.depth = c.depth + 1
    BY <1>1 DEF Formed
<1> QED BY <1>2, <1>3, <1>4 DEF d

\* Leaving counts one less, and the last one leaves it free.
LEMMA Leaving ==
    ASSUME NEW c, Formed(c)
    PROVE  LET d == C!Left(c)
           IN /\ Formed(d) /\ SameWaits(c, d) /\ d.depth = c.depth - 1
              /\ d.owner = IF c.depth = 1 THEN Nobody ELSE c.owner
<1> DEFINE d == C!Left(c)
<1>1. d = [c EXCEPT !.depth = c.depth - 1, !.owner = IF c.depth = 1 THEN Nobody ELSE c.owner]
    BY DEF C!Left
<1> HIDE DEF d
<1>2. Formed(d) /\ SameWaits(c, d)
    BY <1>1 DEF Formed, SameWaits, SameSignals
<1>3. d.owner = IF c.depth = 1 THEN Nobody ELSE c.owner
    BY <1>1 DEF Formed
<1>4. d.depth = c.depth - 1
    BY <1>1 DEF Formed
<1> QED BY <1>2, <1>3, <1>4 DEF d

\* A signal releases one more of the waiting threads, if there is one.
LEMMA Signalling ==
    ASSUME NEW c, Formed(c)
    PROVE  LET d == C!Signalled(c)
           IN /\ Formed(d) /\ d.owner = c.owner /\ d.depth = c.depth
              /\ d.m_waitingThreads = c.m_waitingThreads
              /\ IF c.m_waitingThreads > c.m_threadsToRelease
                 THEN /\ d.m_threadsToRelease = c.m_threadsToRelease + 1 /\ d.m_event = TRUE
                      /\ d.m_waitGenerationCount = c.m_waitGenerationCount + 1
                 ELSE SameWaits(c, d)
BY DEF C!Signalled, Formed, SameWaits, SameSignals

\* Signalling to all releases as many threads as wait.
LEMMA SignallingAll ==
    ASSUME NEW c, Formed(c)
    PROVE  LET d == C!SignalledAll(c)
           IN /\ Formed(d) /\ d.owner = c.owner /\ d.depth = c.depth
              /\ d.m_waitingThreads = c.m_waitingThreads
              /\ IF c.m_waitingThreads > 0
                 THEN /\ d.m_threadsToRelease = c.m_waitingThreads /\ d.m_event = TRUE
                      /\ d.m_waitGenerationCount = c.m_waitGenerationCount + 1
                 ELSE SameWaits(c, d)
BY DEF C!SignalledAll, Formed, SameWaits, SameSignals

\* A wait that begins is one more, and leaves the critical section once.
LEMMA Beginning ==
    ASSUME NEW c, Formed(c)
    PROVE  LET d == C!WaitBegun(c)
           IN /\ Formed(d) /\ SameSignals(c, d) /\ d.depth = c.depth - 1
              /\ d.owner = IF c.depth = 1 THEN Nobody ELSE c.owner
              /\ d.m_waitingThreads = c.m_waitingThreads + 1
<1> DEFINE e == [c EXCEPT !.m_waitingThreads = c.m_waitingThreads + 1]
<1>0. e = [c EXCEPT !.m_waitingThreads = c.m_waitingThreads + 1]
    OBVIOUS
<1>2. C!WaitBegun(c) = C!Left(e)
    BY DEF C!WaitBegun
<1> HIDE DEF e
<1>1. /\ Formed(e) /\ e.depth = c.depth /\ e.owner = c.owner
      /\ e.m_waitingThreads = c.m_waitingThreads + 1
      /\ SameSignals(c, e)
    <2>1. Formed(e) /\ SameSignals(c, e)
        BY <1>0 DEF Formed, SameSignals
    <2>2. e.m_waitingThreads = c.m_waitingThreads + 1
        BY <1>0 DEF Formed
    <2>3. e.depth = c.depth /\ e.owner = c.owner
        BY <1>0 DEF Formed
    <2> QED BY <2>1, <2>2, <2>3
<1> QED BY <1>1, <1>2, Leaving DEF SameWaits, SameSignals

\* A wait that ends is one less, takes one from the threads to release, and
\* enters the critical section.
LEMMA Ending ==
    ASSUME NEW c, NEW t, Formed(c), c.m_event \in BOOLEAN
    PROVE  LET d == C!WaitEnded(c, t)
               left == (c.m_threadsToRelease - 1) % 2^Width
           IN /\ Formed(d) /\ d.owner = t /\ d.depth = c.depth + 1
              /\ d.m_waitingThreads = c.m_waitingThreads - 1
              /\ d.m_waitGenerationCount = c.m_waitGenerationCount
              /\ d.m_threadsToRelease = left
              /\ d.m_event \in BOOLEAN
              /\ d.m_event <=> c.m_event /\ left # 0
<1> DEFINE left == (c.m_threadsToRelease - 1) % 2^Width
           set == c.m_event /\ left # 0
           fewer == c.m_waitingThreads - 1
           e == [c EXCEPT !.m_waitingThreads = fewer, !.m_threadsToRelease = left,
                          !.m_event = set]
<1>1. C!WaitEnded(c, t) = C!Entered(e, t)
    BY DEF C!WaitEnded
<1> HIDE DEF left, set, fewer
<1>2. e = [c EXCEPT !.m_waitingThreads = fewer, !.m_threadsToRelease = left, !.m_event = set]
    OBVIOUS
<1> HIDE DEF e
<1>3. Formed(e)
    BY <1>2 DEF Formed
<1>4. /\ e.depth = c.depth /\ e.owner = c.owner
      /\ e.m_waitGenerationCount = c.m_waitGenerationCount
      /\ e.m_waitingThreads = fewer /\ e.m_threadsToRelease = left
    BY <1>2 DEF Formed
<1>5. e.m_event = set
    BY <1>2 DEF Formed
<1>6. e.m_event \in BOOLEAN /\ (e.m_event <=> c.m_event /\ left # 0)
    BY <1>5 DEF set
<1> QED BY <1>1, <1>3, <1>4, <1>6, Entering DEF SameWaits, SameSignals, left, fewer

-----------------------------------------------------------------------------
(* Condition.                                                              *)

Waiters == {t \in Threads : pc[t] \notin {"outside", "inside"}}
Places == {"outside", "inside", "waits", "waits a while", "woken", "woken in time", "timed out"}

Fields(c) ==
    /\ c.owner \in Threads \cup {Nobody, Garbage} /\ c.depth \in Nat
    /\ c.m_waitingThreads \in Nat /\ c.m_waitGenerationCount \in 0..MaxGeneration
    /\ c.m_threadsToRelease \in Nat /\ c.m_threadsToRelease < 2^Width
    /\ c.m_event \in BOOLEAN

\* The critical section was entered once for each wait that came back, and
\* once more by the thread that is inside.
Owned ==
    /\ (cond.depth = 0) <=> (cond.owner = Nobody)
    /\ \A t \in Threads : pc[t] = "inside" \/ waited[t] > 0 => cond.owner = t
    /\ \A t \in Threads : cond.owner = t =>
           cond.depth = waited[t] + (IF pc[t] = "inside" THEN 1 ELSE 0)

ConditionInv ==
    /\ Formed(cond) /\ Fields(cond) /\ stolen \in Nat
    /\ pc \in [Threads -> Places] /\ waited \in [Threads -> Nat]
    /\ Owned
    /\ cond.m_waitingThreads = Cardinality(Waiters)
    /\ stolen = 0 => /\ cond.m_threadsToRelease <= cond.m_waitingThreads
                     /\ cond.m_event <=> cond.m_threadsToRelease > 0

\* The invariant of a condition variable holds at first, and says what is
\* wanted of it.
LEMMA ConditionHolds ==
    (C!Init => ConditionInv) /\ (ConditionInv => C!TypeOK /\ C!Guarded /\ C!Accounted)
<1>1. ASSUME C!Init  PROVE ConditionInv
    <2>1. PICK owner : owner \in {Nobody, Garbage} /\ cond = C!New(owner)
        BY <1>1 DEF C!Init
    <2>2. Formed(cond)
        BY <2>1 DEF C!New, Formed
    <2>3. /\ cond.owner = owner /\ cond.depth = IF owner = Nobody THEN 0 ELSE 1
          /\ cond.m_waitingThreads = 0 /\ cond.m_waitGenerationCount = 0
          /\ cond.m_threadsToRelease = 0
        BY <2>1 DEF C!New
    <2>4. cond.m_event = FALSE
        BY <2>1 DEF C!New
    <2>5. 2^Width \in Nat /\ 0 < 2^Width /\ MaxGeneration \in Nat
        BY Wrapping, PrimitivesAssumption
    <2>6. Fields(cond)
        <3>1. cond.depth \in Nat /\ cond.owner \in {Nobody, Garbage}
            BY <2>1, <2>3
        <3>2. cond.m_waitGenerationCount \in 0..MaxGeneration
            BY <2>3, <2>5
        <3>3. /\ cond.m_threadsToRelease \in Nat /\ cond.m_threadsToRelease < 2^Width
              /\ cond.m_waitingThreads \in Nat
            BY <2>3, <2>5
        <3>4. cond.m_event \in BOOLEAN
            BY <2>4
        <3> QED BY <3>1, <3>2, <3>3, <3>4 DEF Fields
    <2>7. Waiters = {}
        BY <1>1 DEF C!Init, Waiters
    <2>8. Cardinality(Waiters) = 0
        BY <2>7, FS_EmptySet
    <2>9. /\ pc \in [Threads -> Places] /\ waited \in [Threads -> Nat] /\ stolen \in Nat
          /\ \A t \in Threads : pc[t] = "outside" /\ waited[t] = 0
        BY <1>1 DEF C!Init, Places
    <2>10. Owned
        BY <2>1, <2>3, <2>9, PrimitivesAssumption DEF Owned
    <2> QED BY <2>2, <2>3, <2>4, <2>6, <2>8, <2>9, <2>10 DEF ConditionInv
<1>2. ASSUME ConditionInv  PROVE C!TypeOK /\ C!Guarded /\ C!Accounted
    <2>1. /\ C!Cardinality(Threads) = Cardinality(Threads)
          /\ C!Cardinality(Waiters) = Cardinality(Waiters)
        BY DEF C!Cardinality, Cardinality
    <2>2. Cardinality(Waiters) <= Cardinality(Threads) /\ Cardinality(Threads) \in Nat
        BY Counting, Wrapping DEF Waiters
    <2>3. C!TypeOK
        <3>1. cond.m_waitingThreads \in 0..C!Cardinality(Threads)
            BY <1>2, <2>1, <2>2 DEF ConditionInv, Fields
        <3>2. cond.m_threadsToRelease \in 0..(2^Width - 1)
            BY <1>2, Wrapping DEF ConditionInv, Fields
        <3> QED BY <1>2, <3>1, <3>2 DEF C!TypeOK, ConditionInv, Fields, Owned
    <2>4. C!Guarded
        <3>1. ASSUME NEW t \in Threads, pc[t] # "inside", waited[t] = 0  PROVE cond.owner # t
            <4>1. cond.owner = t => cond.depth = 0
                BY <1>2, <3>1 DEF ConditionInv, Owned
            <4> QED BY <1>2, <4>1, PrimitivesAssumption DEF ConditionInv, Owned
        <3> QED BY <1>2, <3>1 DEF C!Guarded, ConditionInv, Owned
    <2>5. C!Waiting = Waiters
        BY DEF C!Waiting, Waiters
    <2>6. C!Accounted
        BY <1>2, <2>1, <2>5 DEF C!Accounted, ConditionInv, Fields
    <2> QED BY <2>3, <2>4, <2>6
<1> QED BY <1>1, <1>2

\* What a thread does inside the critical section leaves the number of waiting
\* threads alone, and the others' places too.
LEMMA ConditionStep == ASSUME ConditionInv, C!Next  PROVE ConditionInv'
<1>0. /\ Cardinality(Waiters) \in Nat /\ Cardinality(Waiters) <= Cardinality(Threads)
      /\ Cardinality(Threads) < 2^Width /\ 2^Width \in Nat /\ Cardinality(Threads) \in Nat
      /\ MaxGeneration \in Nat /\ Nobody \notin Threads /\ Garbage \notin Threads
      /\ Garbage # Nobody
    BY Counting, Wrapping, PrimitivesAssumption DEF Waiters
<1>00. /\ Formed(cond) /\ Fields(cond) /\ stolen \in Nat
       /\ pc \in [Threads -> Places] /\ waited \in [Threads -> Nat]
       /\ Owned
       /\ cond.m_waitingThreads = Cardinality(Waiters)
    BY DEF ConditionInv
<1>a. stolen = 0 => /\ cond.m_threadsToRelease <= cond.m_waitingThreads
                    /\ cond.m_event <=> cond.m_threadsToRelease > 0
    BY DEF ConditionInv
<1>1. ASSUME NEW t \in Threads, C!lock(t)  PROVE ConditionInv'
    <2>1. Waiters' = Waiters
        BY <1>1 DEF C!lock, Waiters
    <2>2. /\ cond' = C!Entered(cond, t) /\ pc' = [pc EXCEPT ![t] = "inside"] /\ pc[t] = "outside"
          /\ cond.owner \in {Nobody, t} /\ UNCHANGED <<waited, stolen>>
        BY <1>1 DEF C!lock, C!Free
    <2>3. Formed(cond') /\ SameWaits(cond, cond') /\ cond'.owner = t /\ cond'.depth = cond.depth + 1
        BY <1>00, <2>2, Entering
    <2>4. Fields(cond')
        BY <1>00, <2>3 DEF Fields, SameWaits, SameSignals
    <2>5. pc' \in [Threads -> Places]
        BY <1>00, <2>2 DEF Places
    <2>6. Owned'
        <3>1. cond.depth = waited[t]
            BY <1>0, <1>00, <2>2 DEF Owned, Fields
        <3> QED BY <1>0, <1>00, <2>2, <2>3, <3>1 DEF Owned
    <2> QED BY <1>00, <2>1, <2>2, <2>3, <2>4, <2>5, <2>6 DEF ConditionInv, SameWaits, SameSignals
<1>2. ASSUME NEW t \in Threads, C!unlock(t)  PROVE ConditionInv'
    <2>1. Waiters' = Waiters
        BY <1>2 DEF C!unlock, Waiters
    <2>2. /\ cond' = C!Left(cond) /\ pc' = [pc EXCEPT ![t] = "outside"] /\ pc[t] = "inside"
          /\ UNCHANGED <<waited, stolen>>
        BY <1>2 DEF C!unlock
    <2>3. /\ Formed(cond') /\ SameWaits(cond, cond') /\ cond'.depth = cond.depth - 1
          /\ cond'.owner = IF cond.depth = 1 THEN Nobody ELSE cond.owner
        BY <1>00, <2>2, Leaving
    <2>4. cond.owner = t /\ cond.depth = waited[t] + 1 /\ waited[t] \in Nat
        BY <1>00, <2>2 DEF Owned
    <2>5. Fields(cond')
        BY <1>00, <2>3, <2>4 DEF Fields, SameWaits, SameSignals
    <2>6. pc' \in [Threads -> Places]
        BY <1>00, <2>2 DEF Places
    <2>7. Owned'
        BY <1>0, <1>00, <2>2, <2>3, <2>4 DEF Owned
    <2> QED BY <1>00, <2>1, <2>2, <2>3, <2>5, <2>6, <2>7 DEF ConditionInv, SameWaits, SameSignals
<1>3. ASSUME NEW t \in Threads, C!signal(t) \/ C!signalAll(t)  PROVE ConditionInv'
    <2>1. UNCHANGED <<pc, waited, stolen>> /\ Waiters' = Waiters
        BY <1>3 DEF C!signal, C!signalAll, Waiters
    <2>2. /\ Formed(cond') /\ cond'.owner = cond.owner /\ cond'.depth = cond.depth
          /\ cond'.m_waitingThreads = cond.m_waitingThreads
        BY <1>3, <1>00, Signalling, SignallingAll DEF C!signal, C!signalAll
    <2>3. /\ Fields(cond')
          /\ stolen = 0 => /\ cond'.m_threadsToRelease <= cond.m_waitingThreads
                           /\ cond'.m_event <=> cond'.m_threadsToRelease > 0
        <3>1. CASE C!signal(t)
            <4>1. /\ cond' = C!Signalled(cond) /\ cond.m_waitGenerationCount < MaxGeneration
                BY <3>1 DEF C!signal
            <4>2. CASE cond.m_waitingThreads > cond.m_threadsToRelease
                <5>1. /\ cond'.m_threadsToRelease = cond.m_threadsToRelease + 1
                      /\ cond'.m_event = TRUE
                      /\ cond'.m_waitGenerationCount = cond.m_waitGenerationCount + 1
                    BY <1>00, <4>1, <4>2, Signalling
                <5>2. /\ cond'.m_threadsToRelease \in Nat /\ cond'.m_threadsToRelease < 2^Width
                      /\ cond'.m_threadsToRelease <= cond.m_waitingThreads
                      /\ cond'.m_threadsToRelease > 0
                    BY <1>0, <1>00, <4>2, <5>1 DEF Fields
                <5>3. cond'.m_waitGenerationCount \in 0..MaxGeneration
                    BY <1>0, <1>00, <4>1, <5>1 DEF Fields
                <5>4. Fields(cond')
                    BY <1>00, <2>2, <5>1, <5>2, <5>3 DEF Fields
                <5> QED BY <5>1, <5>2, <5>4
            <4>3. CASE ~(cond.m_waitingThreads > cond.m_threadsToRelease)
                <5>1. SameWaits(cond, cond')
                    BY <1>00, <4>1, <4>3, Signalling
                <5> QED BY <1>00, <1>a, <2>1, <2>2, <5>1 DEF Fields, SameWaits, SameSignals
            <4> QED BY <4>2, <4>3
        <3>2. CASE C!signalAll(t)
            <4>1. /\ cond' = C!SignalledAll(cond) /\ cond.m_waitGenerationCount < MaxGeneration
                BY <3>2 DEF C!signalAll
            <4>2. CASE cond.m_waitingThreads > 0
                <5>1. /\ cond'.m_threadsToRelease = cond.m_waitingThreads
                      /\ cond'.m_event = TRUE
                      /\ cond'.m_waitGenerationCount = cond.m_waitGenerationCount + 1
                    BY <1>00, <4>1, <4>2, SignallingAll
                <5>2. /\ cond'.m_threadsToRelease \in Nat /\ cond'.m_threadsToRelease < 2^Width
                      /\ cond'.m_threadsToRelease <= cond.m_waitingThreads
                      /\ cond'.m_threadsToRelease > 0
                    BY <1>0, <1>00, <4>2, <5>1 DEF Fields
                <5>3. cond'.m_waitGenerationCount \in 0..MaxGeneration
                    BY <1>0, <1>00, <4>1, <5>1 DEF Fields
                <5>4. Fields(cond')
                    BY <1>00, <2>2, <5>1, <5>2, <5>3 DEF Fields
                <5> QED BY <5>1, <5>2, <5>4
            <4>3. CASE ~(cond.m_waitingThreads > 0)
                <5>1. SameWaits(cond, cond')
                    BY <1>00, <4>1, <4>3, SignallingAll
                <5> QED BY <1>00, <1>a, <2>1, <2>2, <5>1 DEF Fields, SameWaits, SameSignals
            <4> QED BY <4>2, <4>3
        <3> QED BY <1>3, <3>1, <3>2
    <2>4. Owned'
        BY <1>00, <2>1, <2>2 DEF Owned
    <2> QED BY <1>00, <2>1, <2>2, <2>3, <2>4 DEF ConditionInv
<1>4. ASSUME NEW t \in Threads, C!wait(t)  PROVE ConditionInv'
    <2>1. /\ pc' = [pc EXCEPT ![t] = pc'[t]] /\ pc'[t] \in {"waits", "waits a while"}
        BY <1>00, <1>4 DEF C!wait
    <2>2. /\ pc[t] = "inside" /\ UNCHANGED <<waited, stolen>>
          /\ cond' = C!WaitBegun(cond)
        BY <1>4 DEF C!wait
    <2>3. Waiters' = Waiters \cup {t} /\ t \notin Waiters
        BY <1>00, <2>1, <2>2 DEF Waiters
    <2>4. Cardinality(Waiters \cup {t}) = Cardinality(Waiters) + 1
        BY <2>3, Counting DEF Waiters
    <2>5. /\ Formed(cond') /\ cond'.depth = cond.depth - 1
          /\ cond'.owner = IF cond.depth = 1 THEN Nobody ELSE cond.owner
          /\ SameSignals(cond, cond')
        BY <1>00, <2>2, Beginning
    <2>5w. cond'.m_waitingThreads = cond.m_waitingThreads + 1
        BY <1>00, <2>2, Beginning
    <2>6. cond.owner = t /\ cond.depth = waited[t] + 1 /\ waited[t] \in Nat
        BY <1>00, <2>2 DEF Owned
    <2>6a. cond'.depth = waited[t] /\ cond'.owner = IF waited[t] = 0 THEN Nobody ELSE t
        BY <1>00, <2>5, <2>6 DEF Fields
    <2>6b. cond'.m_waitingThreads \in Nat
        BY <1>00, <2>5w DEF Fields
    <2>7. Fields(cond')
        BY <1>00, <2>5, <2>6, <2>6a, <2>6b DEF Fields, SameSignals
    <2>8. pc' \in [Threads -> Places]
        BY <1>00, <2>1 DEF Places
    <2>9. stolen' = 0 => /\ cond'.m_threadsToRelease <= cond'.m_waitingThreads
                         /\ cond'.m_event <=> cond'.m_threadsToRelease > 0
        BY <1>00, <1>a, <2>2, <2>5, <2>5w DEF Fields, SameSignals
    <2>10. Owned'
        <3>1. ASSUME NEW u \in Threads, u # t  PROVE pc'[u] = pc[u] /\ pc[u] # "inside"
            BY <1>00, <2>1, <2>6, <3>1 DEF Owned
        <3>2. ASSUME NEW u \in Threads, u # t  PROVE waited[u] = 0
            BY <1>00, <2>6, <3>2 DEF Owned
        <3>3. pc'[t] # "inside"
            BY <2>1
        <3> QED BY <1>0, <2>2, <2>6, <2>6a, <3>1, <3>2, <3>3 DEF Owned
    <2>11. cond'.m_waitingThreads = Cardinality(Waiters')
        BY <1>00, <2>3, <2>4, <2>5w
    <2> QED BY <1>00, <2>2, <2>5, <2>7, <2>8, <2>9, <2>10, <2>11 DEF ConditionInv
<1>5. ASSUME NEW t \in Threads, C!wake(t)  PROVE ConditionInv'
    <2>1. Waiters' = Waiters
        BY <1>00, <1>5 DEF C!wake, Waiters
    <2>2. UNCHANGED <<cond, waited, stolen>>
        BY <1>5 DEF C!wake
    <2>3. /\ pc' \in [Threads -> Places]
          /\ \A u \in Threads : pc'[u] = "inside" <=> pc[u] = "inside"
        BY <1>00, <1>5 DEF C!wake, Places
    <2>4. Owned'
        BY <1>00, <2>2, <2>3 DEF Owned
    <2> QED BY <2>1, <2>2, <2>3, <2>4 DEF ConditionInv, Formed, Fields
<1>6. ASSUME NEW t \in Threads, C!recheck(t)  PROVE ConditionInv'
    <2>0. t \in Waiters /\ cond.owner \in {Nobody, t} /\ pc[t] # "inside"
        BY <1>6 DEF C!recheck, C!Free, Waiters
    <2>1. CASE C!Released(cond, mine[t]) \/ pc[t] = "timed out"
        <3>1. /\ cond' = C!WaitEnded(C!Entered(cond, t), t)
              /\ pc' = [pc EXCEPT ![t] = "inside"]
              /\ waited' = [waited EXCEPT ![t] = waited[t] + 1]
              /\ stolen' = IF C!Released(cond, mine[t]) THEN stolen ELSE stolen + 1
            BY <1>6, <2>1 DEF C!recheck
        <3> DEFINE left == (cond.m_threadsToRelease - 1) % 2^Width
                   inner == C!Entered(cond, t)
        <3>2. /\ left \in Nat /\ left < 2^Width
              /\ cond.m_threadsToRelease > 0 => left = cond.m_threadsToRelease - 1
            BY <1>00, Wrapping DEF Fields
        <3>3. /\ Formed(inner) /\ SameWaits(cond, inner) /\ inner.owner = t
              /\ inner.depth = cond.depth + 1
            BY <1>00, Entering
        <3>3a. inner.m_event \in BOOLEAN
            BY <1>00, <3>3 DEF SameWaits, SameSignals, Fields
        <3>3b. cond' = C!WaitEnded(inner, t)
            BY <3>1
        <3> HIDE DEF inner
        <3>4. /\ Formed(cond') /\ cond'.owner = t /\ cond'.depth = inner.depth + 1
              /\ cond'.m_waitingThreads = inner.m_waitingThreads - 1
              /\ cond'.m_waitGenerationCount = inner.m_waitGenerationCount
              /\ cond'.m_threadsToRelease = (inner.m_threadsToRelease - 1) % 2^Width
              /\ cond'.m_event \in BOOLEAN
              /\ cond'.m_event <=> inner.m_event /\ (inner.m_threadsToRelease - 1) % 2^Width # 0
            BY <3>3, <3>3a, <3>3b, Ending
        <3>5. /\ cond'.m_threadsToRelease = left
              /\ cond'.m_event <=> cond.m_event /\ left # 0
              /\ cond'.m_waitGenerationCount = cond.m_waitGenerationCount
              /\ cond'.m_waitingThreads = cond.m_waitingThreads - 1
            BY <3>3, <3>4 DEF SameWaits, SameSignals
        <3>5a. cond'.depth = cond.depth + 2
            BY <1>00, <3>3, <3>4 DEF Fields
        <3> HIDE DEF left
        <3>6. Waiters' = Waiters \ {t}
            BY <1>00, <3>1 DEF Waiters
        <3>7. Cardinality(Waiters \ {t}) = Cardinality(Waiters) - 1 /\ Cardinality(Waiters) > 0
            <4>1. Cardinality(Waiters) # 0
                BY <2>0, Counting DEF Waiters
            <4> QED BY <1>0, <2>0, <4>1, Counting DEF Waiters
        <3>8. Fields(cond')
            BY <1>00, <3>2, <3>4, <3>5, <3>5a, <3>7 DEF Fields
        <3>9. pc' \in [Threads -> Places]
            BY <1>00, <3>1 DEF Places
        <3>9a. waited' \in [Threads -> Nat] /\ stolen' \in Nat
            BY <1>00, <3>1
        <3>10. ASSUME stolen' = 0
               PROVE  /\ cond'.m_threadsToRelease <= cond'.m_waitingThreads
                      /\ cond'.m_event <=> cond'.m_threadsToRelease > 0
            <4>1. stolen = 0 /\ cond.m_threadsToRelease > 0
                BY <1>00, <3>1, <3>10 DEF C!Released
            <4>2. left = cond.m_threadsToRelease - 1
                BY <3>2, <4>1
            <4>3. cond.m_event /\ cond.m_threadsToRelease <= cond.m_waitingThreads
                BY <1>a, <4>1
            <4>4. cond'.m_threadsToRelease <= cond'.m_waitingThreads
                BY <1>00, <3>5, <4>2, <4>3 DEF Fields
            <4>5. left # 0 <=> left > 0
                BY <3>2
            <4> QED BY <3>5, <4>3, <4>4, <4>5
        <3>11. Owned'
            <4>1. ASSUME NEW u \in Threads, u # t  PROVE pc'[u] # "inside" /\ waited'[u] = 0
                BY <1>0, <1>00, <2>0, <3>1, <4>1 DEF Owned
            <4>2. pc'[t] = "inside" /\ waited'[t] = waited[t] + 1 /\ waited[t] \in Nat
                BY <1>00, <3>1
            <4>3. cond.depth = waited[t] /\ cond'.depth # 0
                BY <1>0, <1>00, <2>0, <3>5a DEF Owned, Fields
            <4>4. cond'.depth = waited'[t] + 1
                BY <3>5a, <4>2, <4>3
            <4> QED BY <1>0, <3>4, <4>1, <4>2, <4>3, <4>4 DEF Owned
        <3>12. cond'.m_waitingThreads = Cardinality(Waiters')
            BY <1>00, <3>5, <3>6, <3>7
        <3> QED BY <3>4, <3>8, <3>9, <3>9a, <3>10, <3>11, <3>12 DEF ConditionInv
    <2>2. CASE ~(C!Released(cond, mine[t]) \/ pc[t] = "timed out")
        <3>1. /\ pc' = [pc EXCEPT ![t] = IF pc[t] = "woken" THEN "waits" ELSE "waits a while"]
              /\ UNCHANGED <<cond, waited, stolen>>
            BY <1>6, <2>2 DEF C!recheck
        <3>2. Waiters' = Waiters
            BY <1>00, <2>0, <3>1 DEF Waiters
        <3>3. /\ pc' \in [Threads -> Places]
              /\ \A u \in Threads : pc'[u] = "inside" <=> pc[u] = "inside"
            BY <1>00, <2>0, <3>1 DEF Places
        <3>4. Owned'
            BY <1>00, <3>1, <3>3 DEF Owned
        <3> QED BY <3>1, <3>2, <3>3, <3>4 DEF ConditionInv, Formed, Fields
    <2> QED BY <2>1, <2>2
<1> QED BY <1>1, <1>2, <1>3, <1>4, <1>5, <1>6 DEF C!Next

-----------------------------------------------------------------------------
(* RWLock.                                                                 *)

\* The lock's condition variable works like the one above.
LEMMA SameCondition ==
    /\ \A c, t : L!Cond!Entered(c, t) = C!Entered(c, t)
    /\ \A c : L!Cond!Left(c) = C!Left(c)
    /\ \A c : L!Cond!Signalled(c) = C!Signalled(c)
    /\ \A c : L!Cond!WaitBegun(c) = C!WaitBegun(c)
    /\ \A c, t : L!Cond!WaitEnded(c, t) = C!WaitEnded(c, t)
    /\ \A c, g : L!Cond!Released(c, g) <=> c.m_threadsToRelease > 0 /\ c.m_waitGenerationCount # g
    /\ \A owner : L!Cond!New(owner) = C!New(owner)
    /\ \A t : L!Cond!Free(t) <=> cond.owner \in {Nobody, t}
<1>1. \A c, t : L!Cond!Entered(c, t) = C!Entered(c, t)
    BY Zenon DEF L!Cond!Entered, C!Entered
<1>2. \A c : L!Cond!Left(c) = C!Left(c)
    BY Zenon DEF L!Cond!Left, C!Left
<1>3. \A c : L!Cond!Signalled(c) = C!Signalled(c)
    BY Zenon DEF L!Cond!Signalled, C!Signalled
<1>4. \A c : L!Cond!WaitBegun(c) = C!WaitBegun(c)
    BY <1>2, Zenon DEF L!Cond!WaitBegun, C!WaitBegun
<1>5. \A c, t : L!Cond!WaitEnded(c, t) = C!WaitEnded(c, t)
    BY <1>1, Zenon DEF L!Cond!WaitEnded, C!WaitEnded
<1>6. \A c, g : L!Cond!Released(c, g) <=> c.m_threadsToRelease > 0 /\ c.m_waitGenerationCount # g
    BY Zenon DEF L!Cond!Released
<1>7. \A owner : L!Cond!New(owner) = C!New(owner)
    BY Zenon DEF L!Cond!New, C!New
<1>8. \A t : L!Cond!Free(t) <=> cond.owner \in {Nobody, t}
    BY Zenon DEF L!Cond!Free
<1> QED BY <1>1, <1>2, <1>3, <1>4, <1>5, <1>6, <1>7, <1>8

Asleep == {t \in Threads : pc[t] \in {"waits", "woken"}}
Readers == {t \in Threads : pc[t] = "holds" /\ access[t] = "READER"}
Writers == {t \in Threads : pc[t] = "holds" /\ access[t] = "WRITER"}

LockTypes ==
    /\ build \in {"old", "vista", "unix"} /\ stolen = 0
    /\ m_readers \in Nat /\ m_writers \in Nat
    /\ access \in [Threads -> {"READER", "WRITER"}]
    /\ pc \in [Threads -> {"outside", "waits", "woken", "holds", "aborted"}]
    /\ waited \in [Threads -> Nat]
    /\ Formed(cond) /\ Fields(cond)

\* Outside the calls the critical section is entered once for each wait that
\* came back.
LockOwned ==
    /\ (cond.depth = 0) <=> (cond.owner = Nobody)
    /\ \A t \in Threads : waited[t] > 0 => cond.owner = t
    /\ \A t \in Threads : cond.owner = t => cond.depth = waited[t]

LockWaits ==
    /\ cond.m_waitingThreads = Cardinality(Asleep)
    /\ cond.m_threadsToRelease <= cond.m_waitingThreads
    /\ cond.m_event <=> cond.m_threadsToRelease > 0
    /\ build # "old" => Asleep = {}

LockHeld ==
    /\ m_writers <= 1 /\ (m_writers > 0 => m_readers = 0)
    /\ \/ \A t \in Threads : pc[t] = "aborted"
       \/ /\ \A t \in Threads : pc[t] # "aborted"
          /\ m_readers = Cardinality(Readers) /\ m_writers = Cardinality(Writers)

\* Somebody sleeps before a free lock only while the event is set, or while
\* nobody but the thread that came back from a wait gets in.
LockFree ==
    cond.owner = Nobody /\ Asleep # {} => cond.m_event \/ m_readers > 0 \/ m_writers > 0

LockInv == LockTypes /\ LockOwned /\ LockWaits /\ LockHeld /\ LockFree

\* The invariant of a lock holds at first, and says what is wanted of it.
LEMMA LockHolds == (L!Init => LockInv) /\ (LockInv => L!TypeOK /\ L!Guarded /\ L!Accounted)
<1>1. ASSUME L!Init  PROVE LockInv
    <2>1. PICK owner : owner \in {Nobody, Garbage} /\ cond = C!New(owner)
        BY <1>1, SameCondition DEF L!Init
    <2>2. Formed(cond)
        BY <2>1 DEF C!New, Formed
    <2>3. /\ cond.owner = owner /\ cond.depth = IF owner = Nobody THEN 0 ELSE 1
          /\ cond.m_waitingThreads = 0 /\ cond.m_waitGenerationCount = 0
          /\ cond.m_threadsToRelease = 0
        BY <2>1 DEF C!New
    <2>4. cond.m_event = FALSE
        BY <2>1 DEF C!New
    <2>5. 2^Width \in Nat /\ 0 < 2^Width /\ MaxGeneration \in Nat
        BY Wrapping, PrimitivesAssumption
    <2>6. Fields(cond)
        <3>1. cond.depth \in Nat /\ cond.owner \in {Nobody, Garbage}
            BY <2>1, <2>3
        <3>2. cond.m_waitGenerationCount \in 0..MaxGeneration
            BY <2>3, <2>5
        <3>3. /\ cond.m_threadsToRelease \in Nat /\ cond.m_threadsToRelease < 2^Width
              /\ cond.m_waitingThreads \in Nat
            BY <2>3, <2>5
        <3>4. cond.m_event \in BOOLEAN
            BY <2>4
        <3> QED BY <3>1, <3>2, <3>3, <3>4 DEF Fields
    <2>7. Asleep = {} /\ Readers = {} /\ Writers = {}
        BY <1>1 DEF L!Init, Asleep, Readers, Writers
    <2>8. Cardinality(Asleep) = 0 /\ Cardinality(Readers) = 0 /\ Cardinality(Writers) = 0
        BY <2>7, FS_EmptySet
    <2>9. /\ build \in {"old", "vista", "unix"} /\ stolen = 0
          /\ m_readers = 0 /\ m_writers = 0
        BY <1>1 DEF L!Init
    <2>10. /\ access \in [Threads -> {"READER", "WRITER"}]
           /\ pc \in [Threads -> {"outside", "waits", "woken", "holds", "aborted"}]
           /\ waited \in [Threads -> Nat]
           /\ \A t \in Threads : pc[t] # "aborted" /\ waited[t] = 0
        BY <1>1 DEF L!Init
    <2>11. LockTypes
        BY <2>2, <2>6, <2>9, <2>10 DEF LockTypes
    <2>12. LockOwned
        BY <2>1, <2>3, <2>10, PrimitivesAssumption DEF LockOwned
    <2>13. LockWaits /\ LockFree
        BY <2>3, <2>4, <2>7, <2>8 DEF LockWaits, LockFree
    <2>14. LockHeld
        BY <2>8, <2>9, <2>10 DEF LockHeld
    <2> QED BY <2>11, <2>12, <2>13, <2>14 DEF LockInv
<1>2. ASSUME LockInv  PROVE L!TypeOK /\ L!Guarded /\ L!Accounted
    <2>1. /\ L!Cond!Cardinality(Threads) = Cardinality(Threads)
          /\ L!Cardinality(Readers) = Cardinality(Readers)
          /\ L!Cardinality(Writers) = Cardinality(Writers)
        BY DEF L!Cond!Cardinality, L!Cardinality, Cardinality
    <2>2. /\ Cardinality(Asleep) <= Cardinality(Threads) /\ Cardinality(Threads) \in Nat
          /\ Cardinality(Writers) \in Nat /\ Cardinality(Readers) \in Nat
          /\ (Writers = {} <=> Cardinality(Writers) = 0) /\ (Readers = {} <=> Cardinality(Readers) = 0)
        BY Counting, Wrapping DEF Asleep, Readers, Writers
    <2>3. L!TypeOK
        <3>1. cond.m_waitingThreads \in 0..L!Cond!Cardinality(Threads)
            BY <1>2, <2>1, <2>2 DEF LockInv, LockTypes, LockWaits, Fields
        <3>2. cond.m_threadsToRelease \in 0..(2^Width - 1)
            BY <1>2, Wrapping DEF LockInv, LockTypes, Fields
        <3>3. L!Cond!TypeOK
            BY <1>2, <3>1, <3>2 DEF L!Cond!TypeOK, LockInv, LockTypes, LockOwned, Fields
        <3> QED BY <1>2, <3>3 DEF L!TypeOK, LockInv, LockTypes
    <2>4. L!Holders("WRITER") = Writers /\ L!Holders("READER") = Readers
        BY DEF L!Holders, Readers, Writers
    <2>5. CASE \A t \in Threads : pc[t] = "aborted"
        <3>1. Writers = {} /\ Readers = {}
            BY <2>5 DEF Writers, Readers
        <3>2. L!Guarded
            BY <1>2, <2>1, <2>2, <2>4, <3>1 DEF L!Guarded, LockInv, LockOwned
        <3>3. L!Accounted
            BY <2>5 DEF L!Accounted
        <3> QED BY <2>3, <3>2, <3>3
    <2>6. CASE ~\A t \in Threads : pc[t] = "aborted"
        <3>1. /\ m_readers = Cardinality(Readers) /\ m_writers = Cardinality(Writers)
            BY <1>2, <2>6 DEF LockInv, LockHeld
        <3>2. Cardinality(Writers) <= 1 /\ (Writers # {} => Readers = {})
            BY <1>2, <2>2, <3>1 DEF LockInv, LockHeld
        <3>3. L!Guarded
            BY <1>2, <2>1, <2>4, <3>2 DEF L!Guarded, LockInv, LockOwned
        <3>4. ASSUME m_readers = 0, m_writers = 0, \E t \in Threads : pc[t] = "waits"
              PROVE  cond.m_event \/ cond.owner # Nobody
            <4>1. Asleep # {}
                BY <3>4 DEF Asleep
            <4> QED BY <1>2, <3>4, <4>1 DEF LockInv, LockFree
        <3>5. L!Accounted
            BY <2>1, <2>4, <3>1, <3>4 DEF L!Accounted
        <3> QED BY <2>3, <3>3, <3>5
    <2> QED BY <2>5, <2>6
<1> QED BY <1>1, <1>2

\* A call that left the critical section once for each entry left it as it was.
LEMMA Returning ==
    ASSUME NEW t \in Threads, NEW d, Formed(d), d.owner = t, d.depth = cond.depth + 1,
           LockTypes, LockOwned, cond.owner \in {Nobody, t}
    PROVE  LET e == C!Left(d)
           IN Formed(e) /\ SameWaits(d, e) /\ e.owner = cond.owner /\ e.depth = cond.depth
<1>1. cond.depth \in Nat /\ t # Nobody
    BY PrimitivesAssumption DEF LockTypes, Fields
<1>2. cond.owner = IF cond.depth = 0 THEN Nobody ELSE t
    BY <1>1 DEF LockOwned
<1>3. /\ Formed(C!Left(d)) /\ SameWaits(d, C!Left(d)) /\ C!Left(d).depth = d.depth - 1
      /\ C!Left(d).owner = IF d.depth = 1 THEN Nobody ELSE d.owner
    BY Leaving
<1>4. C!Left(d).depth = cond.depth
    BY <1>1, <1>3
<1>5. d.depth = 1 <=> cond.depth = 0
    BY <1>1
<1> QED BY <1>2, <1>3, <1>4, <1>5

\* Who takes the lock is counted with the holders of its kind.
LEMMA Taking ==
    ASSUME LockTypes, LockHeld, NEW t \in Threads, NEW type,
           type \in {"READER", "WRITER"}, pc[t] \notin {"holds", "aborted"},
           pc' = [pc EXCEPT ![t] = "holds"], access' = [access EXCEPT ![t] = type],
           ~L!Conflicts(type), L!Taken(type)
    PROVE  LockHeld' /\ m_readers' \in Nat /\ m_writers' \in Nat
<1>1. \A u \in Threads : pc[u] # "aborted"
    BY DEF LockHeld
<1>2. /\ m_readers \in Nat /\ m_writers \in Nat /\ m_writers <= 1
      /\ m_readers = Cardinality(Readers) /\ m_writers = Cardinality(Writers)
    BY DEF LockTypes, LockHeld
<1>3. \A u \in Threads : pc'[u] # "aborted"
    BY <1>1 DEF LockTypes
<1>4. CASE type = "READER"
    <2>1. m_writers = 0 /\ m_readers' = m_readers + 1 /\ m_writers' = m_writers
        BY <1>2, <1>4 DEF L!Conflicts, L!Taken
    <2>2. Readers' = Readers \cup {t} /\ t \notin Readers /\ Writers' = Writers
        BY <1>4 DEF LockTypes, Readers, Writers
    <2>3. Cardinality(Readers \cup {t}) = Cardinality(Readers) + 1
        BY <2>2, Counting DEF Readers
    <2>4. m_readers' = Cardinality(Readers') /\ m_writers' = Cardinality(Writers')
        BY <1>2, <2>1, <2>2, <2>3
    <2>5. /\ m_readers' \in Nat /\ m_writers' \in Nat
          /\ m_writers' <= 1 /\ (m_writers' > 0 => m_readers' = 0)
        BY <1>2, <2>1
    <2> QED BY <1>3, <2>4, <2>5 DEF LockHeld
<1>5. CASE type = "WRITER"
    <2>1. m_writers = 0 /\ m_readers = 0 /\ m_writers' = m_writers + 1 /\ m_readers' = m_readers
        BY <1>2, <1>5 DEF L!Conflicts, L!Taken
    <2>2. Writers' = Writers \cup {t} /\ t \notin Writers /\ Readers' = Readers
        BY <1>5 DEF LockTypes, Readers, Writers
    <2>3. Cardinality(Writers \cup {t}) = Cardinality(Writers) + 1
        BY <2>2, Counting DEF Writers
    <2>4. m_readers' = Cardinality(Readers') /\ m_writers' = Cardinality(Writers')
        BY <1>2, <2>1, <2>2, <2>3
    <2>5. /\ m_readers' \in Nat /\ m_writers' \in Nat
          /\ m_writers' <= 1 /\ (m_writers' > 0 => m_readers' = 0)
        BY <1>2, <2>1
    <2> QED BY <1>3, <2>4, <2>5 DEF LockHeld
<1> QED BY <1>4, <1>5

\* Who neither held the lock nor does now leaves the holders as they are.
LEMMA NotTaking ==
    ASSUME LockTypes, LockHeld, NEW t \in Threads, NEW place,
           pc[t] \notin {"holds", "aborted"}, place \notin {"holds", "aborted"},
           pc' = [pc EXCEPT ![t] = place],
           \A u \in Threads : u # t => access'[u] = access[u],
           UNCHANGED <<m_readers, m_writers>>
    PROVE  LockHeld'
<1>1. \A u \in Threads : pc[u] # "aborted"
    BY DEF LockHeld
<1>2. \A u \in Threads : pc'[u] # "aborted"
    BY <1>1 DEF LockTypes
<1>3. Readers' = Readers /\ Writers' = Writers
    BY DEF LockTypes, Readers, Writers
<1> QED BY <1>1, <1>2, <1>3 DEF LockHeld

\* Each call of lock(), trylock() and unlock(), and what follows a wait, keeps
\* the invariant of the lock.
LEMMA LockStep == ASSUME LockInv, L!Next  PROVE LockInv'
<1> DEFINE Spots == {"outside", "waits", "woken", "holds", "aborted"}
<1>a. LockTypes /\ LockOwned /\ LockWaits /\ LockHeld /\ LockFree
    BY DEF LockInv
<1>b. /\ Cardinality(Asleep) \in Nat /\ Cardinality(Asleep) <= Cardinality(Threads)
      /\ Cardinality(Threads) < 2^Width /\ 2^Width \in Nat /\ Cardinality(Threads) \in Nat
      /\ Asleep = {} <=> Cardinality(Asleep) = 0
      /\ MaxGeneration \in Nat /\ Nobody \notin Threads /\ Garbage \notin Threads
    BY Counting, Wrapping, PrimitivesAssumption DEF Asleep
<1>c. /\ access \in [Threads -> {"READER", "WRITER"}] /\ pc \in [Threads -> Spots]
      /\ waited \in [Threads -> Nat] /\ m_readers \in Nat /\ m_writers \in Nat
      /\ Formed(cond) /\ Fields(cond)
    BY <1>a DEF LockTypes
<1>1. ASSUME NEW t \in Threads, NEW type \in L!Types, L!lock_old(t, type)  PROVE LockInv'
    <2> DEFINE inner == C!Entered(cond, t)
    <2>1. /\ build = "old" /\ cond.owner \in {Nobody, t} /\ pc[t] = "outside"
          /\ access' = [access EXCEPT ![t] = type] /\ type \in {"READER", "WRITER"}
          /\ UNCHANGED <<build, waited, stolen>>
        BY <1>1, SameCondition DEF L!lock_old, L!Asks, L!Types
    <2>2. /\ Formed(inner) /\ SameWaits(cond, inner) /\ inner.owner = t
          /\ inner.depth = cond.depth + 1
        BY <1>c, Entering
    <2>3. CASE L!Conflicts(type)
        <3>1. /\ cond' = C!WaitBegun(inner) /\ pc' = [pc EXCEPT ![t] = "waits"]
              /\ UNCHANGED <<m_readers, m_writers>>
            BY <1>1, <2>3, SameCondition DEF L!lock_old, L!Settle
        <3> HIDE DEF inner
        <3>2. /\ Formed(cond') /\ SameSignals(inner, cond') /\ cond'.depth = inner.depth - 1
              /\ cond'.owner = IF inner.depth = 1 THEN Nobody ELSE inner.owner
            BY <2>2, <3>1, Beginning
        <3>3. cond'.m_waitingThreads = inner.m_waitingThreads + 1
            BY <2>2, <3>1, Beginning
        <3>4. cond'.depth = cond.depth /\ cond'.owner = cond.owner
            <4>1. cond.depth \in Nat
                BY <1>c DEF Fields
            <4>2. cond'.depth = cond.depth
                BY <2>2, <3>2, <4>1
            <4>3. inner.depth = 1 <=> cond.depth = 0
                BY <2>2, <4>1
            <4> QED BY <1>a, <1>b, <2>1, <2>2, <3>2, <4>2, <4>3 DEF LockOwned
        <3>5. SameSignals(cond, cond') /\ cond'.m_waitingThreads = cond.m_waitingThreads + 1
            BY <2>2, <3>2, <3>3 DEF SameWaits, SameSignals
        <3>6. Fields(cond')
            BY <1>c, <3>4, <3>5 DEF Fields, SameSignals
        <3>7. LockTypes'
            BY <1>a, <2>1, <3>1, <3>2, <3>6 DEF LockTypes
        <3>8. LockOwned'
            BY <1>a, <2>1, <3>4 DEF LockOwned
        <3>9. Asleep' = Asleep \cup {t} /\ t \notin Asleep
            BY <1>c, <2>1, <3>1 DEF Asleep
        <3>10. Cardinality(Asleep \cup {t}) = Cardinality(Asleep) + 1
            BY <3>9, Counting DEF Asleep
        <3>11. LockWaits'
            BY <1>a, <1>b, <1>c, <2>1, <3>5, <3>9, <3>10 DEF LockWaits, SameSignals, Fields
        <3>12. LockHeld'
            BY <1>a, <1>c, <2>1, <3>1, NotTaking
        <3>13. m_readers' > 0 \/ m_writers' > 0
            BY <2>3, <3>1 DEF L!Conflicts
        <3> QED BY <3>7, <3>8, <3>11, <3>12, <3>13 DEF LockInv, LockFree
    <2>4. CASE ~L!Conflicts(type)
        <3>1. /\ cond' = C!Left(inner) /\ pc' = [pc EXCEPT ![t] = "holds"] /\ L!Taken(type)
            BY <1>1, <2>4, SameCondition DEF L!lock_old, L!Settle
        <3> HIDE DEF inner
        <3>2. /\ Formed(cond') /\ SameWaits(inner, cond')
              /\ cond'.owner = cond.owner /\ cond'.depth = cond.depth
            BY <1>a, <2>1, <2>2, <3>1, Returning
        <3>3. SameWaits(cond, cond')
            BY <2>2, <3>2 DEF SameWaits, SameSignals
        <3>4. Fields(cond')
            BY <1>c, <3>2, <3>3 DEF Fields, SameWaits, SameSignals
        <3>5. LockHeld' /\ m_readers' \in Nat /\ m_writers' \in Nat
            BY <1>a, <2>1, <2>4, <3>1, Taking
        <3>6. LockTypes'
            BY <1>a, <2>1, <3>1, <3>2, <3>4, <3>5 DEF LockTypes
        <3>7. LockOwned'
            BY <1>a, <2>1, <3>2 DEF LockOwned
        <3>8. Asleep' = Asleep
            BY <1>c, <2>1, <3>1 DEF Asleep
        <3>9. LockWaits'
            BY <1>a, <2>1, <3>3, <3>8 DEF LockWaits, SameWaits, SameSignals
        <3>10. m_readers' > 0 \/ m_writers' > 0
            BY <1>c, <3>1 DEF L!Taken
        <3> QED BY <3>5, <3>6, <3>7, <3>9, <3>10 DEF LockInv, LockFree
    <2> QED BY <2>3, <2>4
\* The system's locks leave the condition variable alone.
<1>k. ASSUME UNCHANGED <<cond, build, waited, stolen>>, Asleep' = Asleep, LockHeld',
             m_readers' \in Nat, m_writers' \in Nat,
             access' \in [Threads -> {"READER", "WRITER"}], pc' \in [Threads -> Spots],
             Asleep # {} /\ (m_readers > 0 \/ m_writers > 0) => m_readers' > 0 \/ m_writers' > 0
      PROVE  LockInv'
    <2>1. LockTypes'
        BY <1>a, <1>k DEF LockTypes, Formed, Fields
    <2>2. LockOwned' /\ LockWaits'
        BY <1>a, <1>k DEF LockOwned, LockWaits
    <2>3. LockFree'
        BY <1>a, <1>k DEF LockFree
    <2> QED BY <1>k, <2>1, <2>2, <2>3 DEF LockInv
<1>2. ASSUME NEW t \in Threads, NEW type \in L!Types, L!lock_vista(t, type)  PROVE LockInv'
    <2>1. /\ pc[t] = "outside" /\ access' = [access EXCEPT ![t] = type]
          /\ type \in {"READER", "WRITER"} /\ UNCHANGED <<build, waited, stolen, cond>>
          /\ pc' = [pc EXCEPT ![t] = "holds"] /\ L!Taken(type) /\ ~L!Conflicts(type)
        BY <1>2 DEF L!lock_vista, L!Asks, L!Types
    <2>2. LockHeld' /\ m_readers' \in Nat /\ m_writers' \in Nat
        BY <1>a, <2>1, Taking
    <2>3. Asleep' = Asleep
        BY <1>c, <2>1 DEF Asleep
    <2>4. m_readers' > 0 \/ m_writers' > 0
        BY <1>c, <2>1 DEF L!Taken
    <2>5. access' \in [Threads -> {"READER", "WRITER"}] /\ pc' \in [Threads -> Spots]
        BY <1>c, <2>1
    <2> QED BY <1>k, <2>1, <2>2, <2>3, <2>4, <2>5
<1>3. ASSUME NEW t \in Threads, NEW type \in L!Types, L!lock_unix(t, type)  PROVE LockInv'
    <2>1. /\ build = "unix" /\ access' = [access EXCEPT ![t] = type]
          /\ type \in {"READER", "WRITER"} /\ UNCHANGED <<build, waited, stolen, cond>>
          /\ pc' = [u \in Threads |-> "aborted"] /\ L!Taken(type) /\ ~L!Conflicts(type)
        BY <1>3 DEF L!lock_unix, L!Asks, L!Types
    <2>2. Asleep = {}
        BY <1>a, <2>1 DEF LockWaits
    <2>3. Asleep' = {}
        BY <2>1 DEF Asleep
    <2>4. /\ m_readers' \in Nat /\ m_writers' \in Nat
          /\ m_writers' <= 1 /\ (m_writers' > 0 => m_readers' = 0)
        BY <1>c, <2>1 DEF L!Taken, L!Conflicts
    <2>5. LockHeld'
        BY <2>1, <2>4 DEF LockHeld
    <2>6. access' \in [Threads -> {"READER", "WRITER"}] /\ pc' \in [Threads -> Spots]
        BY <1>c, <2>1
    <2> QED BY <1>k, <2>1, <2>2, <2>3, <2>4, <2>5, <2>6
<1>4. ASSUME NEW t \in Threads, NEW type \in L!Types, L!trylock(t, type)  PROVE LockInv'
    <2>1. /\ pc[t] = "outside" /\ access' = [access EXCEPT ![t] = type]
          /\ type \in {"READER", "WRITER"} /\ UNCHANGED <<build, waited, stolen, cond>>
        BY <1>4 DEF L!trylock, L!Asks, L!Types
    <2>2. access' \in [Threads -> {"READER", "WRITER"}]
        BY <1>c, <2>1
    <2>3. CASE ~L!Conflicts(type)
        <3>1. pc' = [pc EXCEPT ![t] = "holds"] /\ L!Taken(type)
            BY <1>4, <2>3 DEF L!trylock
        <3>2. LockHeld' /\ m_readers' \in Nat /\ m_writers' \in Nat
            BY <1>a, <2>1, <2>3, <3>1, Taking
        <3>3. Asleep' = Asleep
            BY <1>c, <2>1, <3>1 DEF Asleep
        <3>4. m_readers' > 0 \/ m_writers' > 0
            BY <1>c, <3>1 DEF L!Taken
        <3>5. pc' \in [Threads -> Spots]
            BY <1>c, <3>1
        <3> QED BY <1>k, <2>1, <2>2, <3>2, <3>3, <3>4, <3>5
    <2>4. CASE L!Conflicts(type) /\ UNCHANGED pc
        <3>1. UNCHANGED <<m_readers, m_writers>>
            BY <1>4, <2>4 DEF L!trylock
        <3>2. pc' = [pc EXCEPT ![t] = "outside"] /\ pc' \in [Threads -> Spots]
            BY <1>c, <2>1, <2>4
        <3>3. \A u \in Threads : u # t => access'[u] = access[u]
            BY <1>c, <2>1
        <3>4. LockHeld'
            BY <1>a, <2>1, <3>1, <3>2, <3>3, NotTaking
        <3>5. Asleep' = Asleep
            BY <2>4 DEF Asleep
        <3> QED BY <1>c, <1>k, <2>1, <2>2, <3>1, <3>2, <3>4, <3>5
    <2>5. CASE L!Conflicts(type) /\ ~UNCHANGED pc
        <3>1. /\ UNCHANGED <<m_readers, m_writers>> /\ build = "unix"
              /\ pc' = [u \in Threads |-> "aborted"]
            BY <1>4, <2>5 DEF L!trylock
        <3>2. Asleep = {} /\ Asleep' = {}
            BY <1>a, <3>1 DEF LockWaits, Asleep
        <3>3. LockHeld'
            BY <1>a, <3>1 DEF LockHeld
        <3>4. pc' \in [Threads -> Spots]
            BY <3>1
        <3> QED BY <1>c, <1>k, <2>1, <2>2, <3>1, <3>2, <3>3, <3>4
    <2> QED BY <2>3, <2>4, <2>5
<1>5. ASSUME NEW t \in Threads, L!wake(t)  PROVE LockInv'
    <2>1. /\ pc[t] = "waits" /\ pc' = [pc EXCEPT ![t] = "woken"]
          /\ UNCHANGED <<build, m_readers, m_writers, access, cond, waited, stolen>>
        BY <1>5 DEF L!wake
    <2>2. Asleep' = Asleep
        BY <1>c, <2>1 DEF Asleep
    <2>3. LockHeld'
        BY <1>a, <2>1, NotTaking
    <2>4. pc' \in [Threads -> Spots]
        BY <1>c, <2>1
    <2> QED BY <1>c, <1>k, <2>1, <2>2, <2>3, <2>4
<1>6. ASSUME NEW t \in Threads, L!recheck(t)  PROVE LockInv'
    <2>1. /\ pc[t] = "woken" /\ cond.owner \in {Nobody, t} /\ t \in Asleep
          /\ UNCHANGED <<build, access, stolen>>
        BY <1>6, SameCondition DEF L!recheck, Asleep
    <2>2. CASE ~L!Cond!Released(cond, mine[t])
        <3>1. /\ pc' = [pc EXCEPT ![t] = "waits"]
              /\ UNCHANGED <<cond, waited, m_readers, m_writers>>
            BY <1>6, <2>2 DEF L!recheck
        <3>2. Asleep' = Asleep
            BY <1>c, <2>1, <3>1 DEF Asleep
        <3>3. LockHeld'
            BY <1>a, <2>1, <3>1, NotTaking
        <3>4. pc' \in [Threads -> Spots]
            BY <1>c, <3>1
        <3> QED BY <1>c, <1>k, <2>1, <3>1, <3>2, <3>3, <3>4
    <2>3. CASE L!Cond!Released(cond, mine[t])
        <3> DEFINE inner == C!Entered(cond, t)
                   ended == C!WaitEnded(inner, t)
        <3>1. /\ cond.m_threadsToRelease > 0
              /\ waited' = [waited EXCEPT ![t] = waited[t] + 1]
              /\ L!Settle(t, access[t], ended)
            BY <1>6, <2>3, SameCondition DEF L!recheck
        <3>2. /\ Formed(inner) /\ SameWaits(cond, inner) /\ inner.owner = t
              /\ inner.depth = cond.depth + 1
            BY <1>c, Entering
        <3>3. inner.m_event \in BOOLEAN
            BY <1>c, <3>2 DEF SameWaits, SameSignals, Fields
        <3>4. /\ Formed(ended) /\ ended.owner = t /\ ended.depth = inner.depth + 1
              /\ ended.m_waitingThreads = inner.m_waitingThreads - 1
              /\ ended.m_waitGenerationCount = inner.m_waitGenerationCount
              /\ ended.m_threadsToRelease = (inner.m_threadsToRelease - 1) % 2^Width
              /\ ended.m_event \in BOOLEAN
              /\ ended.m_event <=> inner.m_event /\ (inner.m_threadsToRelease - 1) % 2^Width # 0
            BY <3>2, <3>3, Ending
        <3>4a. \A type : L!Settle(t, type, ended) =>
                  IF L!Conflicts(type)
                  THEN /\ cond' = C!WaitBegun(ended) /\ pc' = [pc EXCEPT ![t] = "waits"]
                       /\ UNCHANGED <<m_readers, m_writers>>
                  ELSE /\ cond' = C!Left(ended) /\ pc' = [pc EXCEPT ![t] = "holds"]
                       /\ L!Taken(type)
            BY SameCondition, Zenon DEF L!Settle
        <3> HIDE DEF ended, inner
        <3>5. (cond.m_threadsToRelease - 1) % 2^Width = cond.m_threadsToRelease - 1
            BY <1>c, <3>1, Wrapping DEF Fields
        <3>6. /\ ended.m_threadsToRelease = cond.m_threadsToRelease - 1
              /\ ended.m_event <=> cond.m_threadsToRelease - 1 # 0
            BY <1>a, <3>1, <3>2, <3>4, <3>5 DEF SameWaits, SameSignals, LockWaits
        <3>7. /\ ended.m_waitGenerationCount = cond.m_waitGenerationCount
              /\ ended.m_waitingThreads = cond.m_waitingThreads - 1
            BY <3>2, <3>4 DEF SameWaits, SameSignals
        <3>8. ended.depth = cond.depth + 2 /\ cond.depth = waited[t] /\ waited[t] \in Nat
            <4>1. cond.depth \in Nat /\ waited[t] \in Nat /\ Nobody # t
                BY <1>b, <1>c DEF Fields
            <4>2. cond.depth = waited[t]
                BY <1>a, <2>1, <4>1 DEF LockOwned
            <4> QED BY <3>2, <3>4, <4>1, <4>2
        <3>9. waited' \in [Threads -> Nat] /\ waited'[t] = waited[t] + 1
            BY <1>c, <3>1
        <3>10. ASSUME NEW u \in Threads, u # t  PROVE waited'[u] = 0
            BY <1>a, <1>b, <1>c, <2>1, <3>1, <3>10 DEF LockOwned
        <3>11. ASSUME cond'.owner = t, cond'.depth = waited[t] + 1  PROVE LockOwned' /\ LockFree'
            BY <1>b, <3>8, <3>9, <3>10, <3>11 DEF LockOwned, LockFree
        <3>12. cond.m_waitingThreads \in Nat /\ cond.m_waitingThreads > 0
            <4>1. Cardinality(Asleep) # 0
                BY <1>b, <2>1
            <4> QED BY <1>a, <1>b, <4>1 DEF LockWaits
        <3>13. /\ cond.m_threadsToRelease \in Nat /\ cond.m_threadsToRelease < 2^Width
               /\ cond.m_threadsToRelease <= cond.m_waitingThreads
               /\ cond.m_waitGenerationCount \in 0..MaxGeneration
            BY <1>a, <1>c DEF LockWaits, Fields
        <3>14. CASE L!Conflicts(access[t])
            <4>1. /\ cond' = C!WaitBegun(ended) /\ pc' = [pc EXCEPT ![t] = "waits"]
                  /\ UNCHANGED <<m_readers, m_writers>>
                BY <3>1, <3>4a, <3>14
            <4>2. /\ Formed(cond') /\ SameSignals(ended, cond') /\ cond'.depth = ended.depth - 1
                  /\ cond'.owner = IF ended.depth = 1 THEN Nobody ELSE ended.owner
                BY <3>4, <4>1, Beginning
            <4>3. cond'.m_waitingThreads = ended.m_waitingThreads + 1
                BY <3>4, <4>1, Beginning
            <4>4. cond'.depth = waited[t] + 1 /\ cond'.owner = t
                BY <3>4, <3>8, <4>2
            <4>5. cond'.m_waitingThreads = cond.m_waitingThreads
                BY <3>7, <3>12, <4>3
            <4>6. /\ cond'.m_threadsToRelease = cond.m_threadsToRelease - 1
                  /\ cond'.m_event <=> cond.m_threadsToRelease - 1 # 0
                  /\ cond'.m_event \in BOOLEAN
                  /\ cond'.m_waitGenerationCount = cond.m_waitGenerationCount
                BY <3>4, <3>6, <3>7, <4>2 DEF SameSignals
            <4>7. /\ cond'.m_threadsToRelease \in Nat /\ cond'.m_threadsToRelease < 2^Width
                  /\ cond'.m_threadsToRelease <= cond.m_waitingThreads
                  /\ (cond.m_threadsToRelease - 1 # 0 <=> cond'.m_threadsToRelease > 0)
                BY <1>b, <3>1, <3>12, <3>13, <4>6
            <4>8. Fields(cond')
                BY <3>8, <3>12, <3>13, <4>4, <4>5, <4>6, <4>7 DEF Fields
            <4>9. LockTypes'
                BY <1>a, <2>1, <3>9, <4>1, <4>2, <4>8 DEF LockTypes
            <4>10. Asleep' = Asleep
                BY <1>c, <2>1, <4>1 DEF Asleep
            <4>11. LockWaits'
                BY <1>a, <2>1, <4>5, <4>6, <4>7, <4>10 DEF LockWaits
            <4>12. LockHeld'
                BY <1>a, <2>1, <4>1, NotTaking
            <4> QED BY <3>11, <4>4, <4>9, <4>11, <4>12 DEF LockInv
        <3>15. CASE ~L!Conflicts(access[t])
            <4>1. /\ cond' = C!Left(ended) /\ pc' = [pc EXCEPT ![t] = "holds"]
                  /\ L!Taken(access[t])
                BY <3>1, <3>4a, <3>15
            <4>2. /\ Formed(cond') /\ SameWaits(ended, cond') /\ cond'.depth = ended.depth - 1
                  /\ cond'.owner = IF ended.depth = 1 THEN Nobody ELSE ended.owner
                BY <3>4, <4>1, Leaving
            <4>4. cond'.depth = waited[t] + 1 /\ cond'.owner = t
                BY <3>4, <3>8, <4>2
            <4>5. cond'.m_waitingThreads = cond.m_waitingThreads - 1
                BY <3>7, <4>2 DEF SameWaits
            <4>6. /\ cond'.m_threadsToRelease = cond.m_threadsToRelease - 1
                  /\ cond'.m_event <=> cond.m_threadsToRelease - 1 # 0
                  /\ cond'.m_event \in BOOLEAN
                  /\ cond'.m_waitGenerationCount = cond.m_waitGenerationCount
                BY <3>4, <3>6, <3>7, <4>2 DEF SameWaits, SameSignals
            <4>7. /\ cond'.m_threadsToRelease \in Nat /\ cond'.m_threadsToRelease < 2^Width
                  /\ cond'.m_threadsToRelease <= cond.m_waitingThreads - 1
                  /\ cond.m_waitingThreads - 1 \in Nat
                  /\ (cond.m_threadsToRelease - 1 # 0 <=> cond'.m_threadsToRelease > 0)
                BY <1>b, <3>1, <3>12, <3>13, <4>6
            <4>8. Fields(cond')
                BY <3>8, <3>13, <4>4, <4>5, <4>6, <4>7 DEF Fields
            <4>9. access' = [access EXCEPT ![t] = access[t]] /\ access[t] \in {"READER", "WRITER"}
                BY <1>c, <2>1
            <4>10. LockHeld' /\ m_readers' \in Nat /\ m_writers' \in Nat
                BY <1>a, <2>1, <3>15, <4>1, <4>9, Taking
            <4>11. LockTypes'
                BY <1>a, <2>1, <3>9, <4>1, <4>2, <4>8, <4>10 DEF LockTypes
            <4>12. Asleep' = Asleep \ {t}
                BY <1>c, <4>1 DEF Asleep
            <4>13. Cardinality(Asleep \ {t}) = Cardinality(Asleep) - 1
                BY <2>1, Counting DEF Asleep
            <4>14. LockWaits'
                BY <1>a, <2>1, <4>5, <4>6, <4>7, <4>12, <4>13 DEF LockWaits
            <4> QED BY <3>11, <4>4, <4>10, <4>11, <4>14 DEF LockInv
        <3> QED BY <3>14, <3>15
    <2> QED BY <2>2, <2>3
<1>7. ASSUME NEW t \in Threads, L!unlock(t)  PROVE LockInv'
    <2>1. /\ pc[t] = "holds" /\ pc' = [pc EXCEPT ![t] = "outside"]
          /\ UNCHANGED <<build, access, waited, stolen>>
        BY <1>7 DEF L!unlock
    <2>2. Asleep' = Asleep
        BY <1>c, <2>1 DEF Asleep
    <2>3. pc' \in [Threads -> Spots] /\ \A u \in Threads : pc'[u] # "aborted"
        BY <1>a, <1>c, <2>1 DEF LockHeld
    <2>4. /\ \A u \in Threads : pc[u] # "aborted"
          /\ m_readers = Cardinality(Readers) /\ m_writers = Cardinality(Writers)
        BY <1>a, <2>1 DEF LockHeld
    <2>5. LockHeld' /\ m_readers' \in Nat /\ m_writers' \in Nat
        <3>1. CASE access[t] = "WRITER"
            <4>1. m_writers' = m_writers - 1 /\ m_readers' = m_readers
                BY <1>7, <3>1 DEF L!unlock
            <4>2. Writers' = Writers \ {t} /\ t \in Writers /\ Readers' = Readers
                BY <1>c, <2>1, <3>1 DEF Writers, Readers
            <4>3. Cardinality(Writers \ {t}) = Cardinality(Writers) - 1 /\ Cardinality(Writers) # 0
                BY <4>2, Counting DEF Writers
            <4> QED BY <1>a, <1>c, <2>3, <2>4, <4>1, <4>2, <4>3 DEF LockHeld
        <3>2. CASE access[t] # "WRITER"
            <4>1. m_readers' = m_readers - 1 /\ m_writers' = m_writers
                BY <1>7, <3>2 DEF L!unlock
            <4>2. Readers' = Readers \ {t} /\ t \in Readers /\ Writers' = Writers
                BY <1>c, <2>1, <3>2 DEF Writers, Readers
            <4>3. Cardinality(Readers \ {t}) = Cardinality(Readers) - 1 /\ Cardinality(Readers) # 0
                BY <4>2, Counting DEF Readers
            <4> QED BY <1>a, <1>c, <2>3, <2>4, <4>1, <4>2, <4>3 DEF LockHeld
        <3> QED BY <3>1, <3>2
    <2>6. CASE build # "old"
        <3>1. UNCHANGED cond /\ Asleep = {}
            BY <1>7, <1>a, <2>6 DEF L!unlock, LockWaits
        <3> QED BY <1>c, <1>k, <2>1, <2>2, <2>3, <2>5, <3>1
    <2>7. CASE build = "old"
        <3> DEFINE inner == C!Entered(cond, t)
                   signalled == C!Signalled(inner)
        <3>1. /\ cond.owner \in {Nobody, t} /\ cond.m_waitGenerationCount < MaxGeneration
              /\ cond' = C!Left(signalled)
            BY <1>7, <2>7, SameCondition DEF L!unlock
        <3>2. /\ Formed(inner) /\ SameWaits(cond, inner) /\ inner.owner = t
              /\ inner.depth = cond.depth + 1
            BY <1>c, Entering
        <3>3. /\ Formed(signalled) /\ signalled.owner = inner.owner
              /\ signalled.depth = inner.depth
              /\ signalled.m_waitingThreads = inner.m_waitingThreads
            BY <3>2, Signalling
        <3>4. IF inner.m_waitingThreads > inner.m_threadsToRelease
              THEN /\ signalled.m_threadsToRelease = inner.m_threadsToRelease + 1
                   /\ signalled.m_event = TRUE
                   /\ signalled.m_waitGenerationCount = inner.m_waitGenerationCount + 1
              ELSE SameWaits(inner, signalled)
            BY <3>2, Signalling
        <3> HIDE DEF signalled, inner
        <3>5. /\ Formed(cond') /\ SameWaits(signalled, cond')
              /\ cond'.owner = cond.owner /\ cond'.depth = cond.depth
            BY <1>a, <3>1, <3>2, <3>3, Returning
        <3>6. cond'.m_waitingThreads = cond.m_waitingThreads
            BY <3>2, <3>3, <3>5 DEF SameWaits
        <3>7. /\ Fields(cond') /\ LockWaits' /\ (Asleep # {} => cond'.m_event)
            <4>1. CASE cond.m_waitingThreads > cond.m_threadsToRelease
                <5>1. /\ cond'.m_threadsToRelease = cond.m_threadsToRelease + 1
                      /\ cond'.m_event = TRUE
                      /\ cond'.m_waitGenerationCount = cond.m_waitGenerationCount + 1
                    BY <3>2, <3>4, <3>5, <4>1 DEF SameWaits, SameSignals
                <5>2. /\ cond'.m_threadsToRelease \in Nat /\ cond'.m_threadsToRelease < 2^Width
                      /\ cond'.m_threadsToRelease <= cond.m_waitingThreads
                      /\ cond'.m_threadsToRelease > 0
                    BY <1>a, <1>b, <1>c, <4>1, <5>1 DEF Fields, LockWaits
                <5>3. cond'.m_waitGenerationCount \in 0..MaxGeneration
                    BY <1>b, <1>c, <3>1, <5>1 DEF Fields
                <5>4. Fields(cond')
                    BY <1>c, <3>5, <3>6, <5>1, <5>2, <5>3 DEF Fields
                <5>5. LockWaits'
                    BY <1>a, <2>1, <2>2, <3>6, <5>1, <5>2 DEF LockWaits
                <5> QED BY <5>1, <5>4, <5>5
            <4>2. CASE ~(cond.m_waitingThreads > cond.m_threadsToRelease)
                <5>1. SameWaits(cond, cond')
                    BY <3>2, <3>4, <3>5, <4>2 DEF SameWaits, SameSignals
                <5>2. Fields(cond')
                    BY <1>c, <3>5, <5>1 DEF Fields, SameWaits, SameSignals
                <5>3. LockWaits'
                    BY <1>a, <2>1, <2>2, <5>1 DEF LockWaits, SameWaits, SameSignals
                <5>4. ASSUME Asleep # {}  PROVE cond.m_threadsToRelease > 0
                    BY <1>a, <1>b, <1>c, <4>2, <5>4 DEF LockWaits, Fields
                <5>5. Asleep # {} => cond'.m_event
                    BY <1>a, <5>1, <5>4 DEF LockWaits, SameWaits, SameSignals
                <5> QED BY <5>2, <5>3, <5>5
            <4> QED BY <4>1, <4>2
        <3>8. LockTypes'
            BY <1>a, <2>1, <2>3, <2>5, <3>5, <3>7 DEF LockTypes
        <3>9. LockOwned'
            BY <1>a, <2>1, <3>5 DEF LockOwned
        <3> QED BY <2>2, <2>5, <3>7, <3>8, <3>9 DEF LockInv, LockFree
    <2> QED BY <2>6, <2>7
<1> QED BY <1>1, <1>2, <1>3, <1>4, <1>5, <1>6, <1>7 DEF L!Next

-----------------------------------------------------------------------------
(* Process.                                                                *)

States == {"forked", "reports", "runs", "exited", "reaped"}
ChildRecords ==
    [state : States, code : Int, normal : BOOLEAN, merge : BOOLEAN,
     by : {"none", "isRunning", "waitFor"}]

\* A record of a child is replaced without a change of the others.
LEMMA Replacing ==
    ASSUME children \in Seq(ChildRecords), NEW i \in 1..P!N, NEW child \in ChildRecords,
           children' = [children EXCEPT ![i] = child]
    PROVE  /\ children' \in Seq(ChildRecords) /\ P!N' = P!N /\ children'[i] = child
           /\ \A j \in 1..P!N : j # i => children'[j] = children[j]
BY ExceptSeq DEF P!N

\* A child that becomes something else keeps how it was asked for.
LEMMA Becoming ==
    ASSUME children \in Seq(ChildRecords), NEW i \in 1..P!N, NEW state, state \in States,
           NEW code \in Int, P!Becomes(i, state, code)
    PROVE  /\ children' \in Seq(ChildRecords) /\ P!N' = P!N
           /\ \A j \in 1..P!N : j # i => children'[j] = children[j]
           /\ children'[i].state = state /\ children'[i].code = code
           /\ children'[i].merge = children[i].merge /\ children'[i].by = children[i].by
<1> DEFINE old == children[i]
           child == [old EXCEPT !.state = state, !.code = code]
<1>1. old \in ChildRecords
    BY ElementOfSeq DEF P!N
<1>2. children' = [children EXCEPT ![i] = child]
    BY DEF P!Becomes
<1> HIDE DEF old
<1>3. child = [old EXCEPT !.state = state, !.code = code]
    OBVIOUS
<1> HIDE DEF child
<1>4. child = [state |-> state, code |-> code, normal |-> old.normal, merge |-> old.merge,
               by |-> old.by]
    BY <1>1, <1>3 DEF ChildRecords
<1>5. old.merge \in BOOLEAN /\ old.normal \in BOOLEAN /\ old.by \in {"none", "isRunning", "waitFor"}
    BY <1>1 DEF ChildRecords
<1>6. child \in ChildRecords
    BY <1>4, <1>5 DEF ChildRecords
<1>7. /\ child.state = state /\ child.code = code
      /\ child.merge = old.merge /\ child.by = old.by
    BY <1>4
<1> QED BY <1>2, <1>6, <1>7, Replacing DEF old

\* A child that a signal ends, too.
LEMMA Killing ==
    ASSUME children \in Seq(ChildRecords), NEW i \in 1..P!N,
           children' = [children EXCEPT ![i].state = "exited", ![i].normal = FALSE]
    PROVE  /\ children' \in Seq(ChildRecords) /\ P!N' = P!N
           /\ \A j \in 1..P!N : j # i => children'[j] = children[j]
           /\ children'[i].state = "exited" /\ children'[i].merge = children[i].merge
<1> DEFINE old == children[i]
           child == [old EXCEPT !.state = "exited", !.normal = FALSE]
<1>1. old \in ChildRecords
    BY ElementOfSeq DEF P!N
<1>2. children' = [children EXCEPT ![i] = child]
    OBVIOUS
<1> HIDE DEF old
<1>3. child = [old EXCEPT !.state = "exited", !.normal = FALSE]
    OBVIOUS
<1> HIDE DEF child
<1>4. child = [state |-> "exited", code |-> old.code, normal |-> FALSE, merge |-> old.merge,
               by |-> old.by]
    BY <1>1, <1>3 DEF ChildRecords
<1>5. old.merge \in BOOLEAN /\ old.code \in Int /\ old.by \in {"none", "isRunning", "waitFor"}
    BY <1>1 DEF ChildRecords
<1>6. child \in ChildRecords
    BY <1>4, <1>5 DEF ChildRecords, States
<1>7. child.state = "exited" /\ child.merge = old.merge
    BY <1>4
<1> QED BY <1>2, <1>6, <1>7, Replacing DEF old

\* A child that is waited for keeps its code.
LEMMA Reaping ==
    ASSUME children \in Seq(ChildRecords), P!N > 0, NEW by, by \in {"isRunning", "waitFor"},
           P!Reaped(by)
    PROVE  /\ children' \in Seq(ChildRecords) /\ P!N' = P!N
           /\ \A j \in 1..P!N : j # P!N => children'[j] = children[j]
           /\ children'[P!N].state = "reaped" /\ children'[P!N].by = by
           /\ children'[P!N].merge = P!Child.merge
           /\ P!Status(children'[P!N]) = P!Status(P!Child)
<1> DEFINE old == P!Child
           child == [old EXCEPT !.state = "reaped", !.by = by]
<1>1. P!N \in Nat /\ P!N \in 1..P!N
    BY LenProperties DEF P!N
<1>2. old \in ChildRecords
    BY <1>1, ElementOfSeq DEF P!N, P!Child
<1>3. children' = [children EXCEPT ![P!N] = child]
    BY DEF P!Reaped, P!Child
<1> HIDE DEF old
<1>4. child = [old EXCEPT !.state = "reaped", !.by = by]
    OBVIOUS
<1> HIDE DEF child
<1>5. child = [state |-> "reaped", code |-> old.code, normal |-> old.normal,
               merge |-> old.merge, by |-> by]
    BY <1>2, <1>4 DEF ChildRecords
<1>6. old.merge \in BOOLEAN /\ old.normal \in BOOLEAN /\ old.code \in Int
    BY <1>2 DEF ChildRecords
<1>7. child \in ChildRecords
    BY <1>5, <1>6 DEF ChildRecords, States
<1>8. /\ child.state = "reaped" /\ P!Status(child) = P!Status(old)
      /\ child.merge = old.merge /\ child.by = by
    BY <1>5 DEF P!Status
<1> QED BY <1>1, <1>3, <1>7, <1>8, Replacing DEF old

\* What the parent keeps of the pipes of one start, and of the first starts.
EndsOf(i, merge) == {<<i, "in", 1>>, <<i, "out", 0>>}
                        \cup (IF merge THEN {} ELSE {<<i, "err", 0>>})
Keeps(i) == EndsOf(i, children[i].merge)
FdsOf(k) == UNION {Keeps(i) : i \in 1..k}
Begun(i, merge) ==
    {<<i, name, side>> : name \in P!Pipes(merge), side \in {0, 1}} \ {<<i, "child", 1>>}
Unused(i) == {<<i, "child", 0>>, <<i, "in", 0>>, <<i, "out", 1>>, <<i, "err", 1>>}

\* Of the ends of a start the parent closes those it has no use for.
LEMMA Closing ==
    ASSUME NEW i, NEW merge \in BOOLEAN
    PROVE  Begun(i, merge) \ Unused(i) = EndsOf(i, merge)
<1>1. CASE merge
    <2>1. P!Pipes(merge) = {"in", "out", "child"}
        BY <1>1 DEF P!Pipes
    <2>2. Begun(i, merge) = {<<i, "in", 0>>, <<i, "in", 1>>, <<i, "out", 0>>, <<i, "out", 1>>,
                             <<i, "child", 0>>}
        BY <2>1 DEF Begun
    <2>3. EndsOf(i, merge) = {<<i, "in", 1>>, <<i, "out", 0>>}
        BY <1>1 DEF EndsOf
    <2> QED BY <2>2, <2>3 DEF Unused
<1>2. CASE ~merge
    <2>1. P!Pipes(merge) = {"in", "out", "child", "err"}
        BY <1>2 DEF P!Pipes
    <2>2. Begun(i, merge) = {<<i, "in", 0>>, <<i, "in", 1>>, <<i, "out", 0>>, <<i, "out", 1>>,
                             <<i, "child", 0>>, <<i, "err", 0>>, <<i, "err", 1>>}
        BY <2>1 DEF Begun
    <2>3. EndsOf(i, merge) = {<<i, "in", 1>>, <<i, "out", 0>>, <<i, "err", 0>>}
        BY <1>2 DEF EndsOf
    <2> QED BY <2>2, <2>3 DEF Unused
<1> QED BY <1>1, <1>2

\* One start more keeps its own ends, and closes none of the others.
LEMMA Keeping ==
    ASSUME NEW k \in Nat
    PROVE  /\ FdsOf(k + 1) = FdsOf(k) \cup Keeps(k + 1)
           /\ FdsOf(k) \cap Unused(k + 1) = {}
<1>1. 1..(k + 1) = (1..k) \cup {k + 1}
    OBVIOUS
<1>2. FdsOf(k + 1) = FdsOf(k) \cup Keeps(k + 1)
    BY <1>1 DEF FdsOf
<1>3. ASSUME NEW i \in 1..k  PROVE Keeps(i) \cap Unused(k + 1) = {}
    <2>1. i # k + 1
        OBVIOUS
    <2> QED BY <2>1 DEF Keeps, EndsOf, Unused
<1>4. FdsOf(k) \cap Unused(k + 1) = {}
    BY <1>3 DEF FdsOf
<1> QED BY <1>2, <1>4

\* Of what is kept, the last start has its own ends.
LEMMA Owning ==
    ASSUME NEW k \in Nat, k > 0
    PROVE  {fd \in FdsOf(k) : fd[1] = k} = Keeps(k)
<1>1. ASSUME NEW i \in 1..k, NEW fd \in Keeps(i)  PROVE fd[1] = i
    BY DEF Keeps, EndsOf
<1>2. k \in 1..k
    OBVIOUS
<1>3. \A fd : fd \in FdsOf(k) <=> \E i \in 1..k : fd \in Keeps(i)
    BY DEF FdsOf
<1> QED BY <1>1, <1>2, <1>3

ProcessTypes ==
    /\ P!TypeOK
    /\ children \in Seq(ChildRecords)
    /\ childErrorPipe \in [bytes : {0, 4}, open : BOOLEAN]
    /\ answer \in [of : Nat, code : Int]

\* A parent that is inside internalExec(), or has been, has a child.
Started == m_hasStarted \/ parent # "idle" => P!N > 0

KeptEnds ==
    /\ parent = "idle" => fds = FdsOf(P!N)
    /\ parent = "reads" => fds = FdsOf(P!N - 1) \cup Begun(P!N, P!Child.merge)

\* One child is reaped at most, and what it tells is remembered.  An answer is
\* given for that child, or for a later one.
Tells(child) == IF child.by = "waitFor" THEN P!Status(child) ELSE 0
Reaped(i) == children[i].state = "reaped"
Heard ==
    /\ ~m_hasStopped => m_return = 0 /\ \A i \in 1..P!N : ~Reaped(i)
    /\ m_hasStopped => \E i \in 1..P!N :
           /\ Reaped(i) /\ m_return = Tells(children[i])
           /\ \A j \in 1..P!N : Reaped(j) => j = i
    /\ answer.of > 0 =>
           /\ m_hasStopped /\ answer.code = m_return
           /\ answer.of <= P!N /\ \E i \in 1..answer.of : Reaped(i)

ProcessInv == ProcessTypes /\ Started /\ KeptEnds /\ Heard

\* The invariant of a process holds at first, and says what is wanted of it.
LEMMA ProcessHolds ==
    (P!Init => ProcessInv) /\ (ProcessInv => P!TypeOK /\ P!Guarded /\ P!Accounted)
<1>1. ASSUME P!Init  PROVE ProcessInv
    <2>1. P!N = 0 /\ children \in Seq(ChildRecords)
        BY <1>1, EmptySeq DEF P!Init, P!N
    <2>2. ProcessTypes
        <3>0. m_return \in Int
            BY <1>1 DEF P!Init
        <3>1. P!TypeOK
            BY <1>1, <3>0, Zenon DEF P!Init, P!TypeOK
        <3>2. childErrorPipe \in [bytes : {0, 4}, open : BOOLEAN]
            BY <1>1 DEF P!Init
        <3>3. answer \in [of : Nat, code : Int]
            BY <1>1 DEF P!Init, P!NoAnswer
        <3> QED BY <2>1, <3>1, <3>2, <3>3 DEF ProcessTypes
    <2>3. FdsOf(P!N) = {}
        BY <2>1 DEF FdsOf
    <2>4. Started /\ KeptEnds
        BY <1>1, <2>1, <2>3 DEF P!Init, Started, KeptEnds
    <2>5. Heard
        BY <1>1, <2>1 DEF P!Init, P!NoAnswer, Heard
    <2> QED BY <2>2, <2>4, <2>5 DEF ProcessInv
<1>2. ASSUME ProcessInv  PROVE P!TypeOK /\ P!Guarded /\ P!Accounted
    <2>0. P!N \in Nat /\ answer.of \in Nat /\ Heard
        BY <1>2, LenProperties DEF ProcessInv, ProcessTypes, P!N
    <2>1. P!TypeOK
        BY <1>2 DEF ProcessInv, ProcessTypes
    <2>2. ASSUME answer.of > 0, P!First(answer.of)
          PROVE  Reaped(answer.of) /\ answer.code = Tells(children[answer.of])
        <3>1. /\ m_hasStopped /\ answer.code = m_return /\ answer.of <= P!N
              /\ \E i \in 1..answer.of : Reaped(i)
            BY <2>0, <2>2 DEF Heard
        <3>2. PICK i \in 1..answer.of : Reaped(i)
            BY <3>1
        <3>3. ~(i \in 1..(answer.of - 1))
            BY <2>2, <3>2 DEF P!First, Reaped
        <3>4. i = answer.of /\ i \in 1..P!N
            BY <2>0, <3>1, <3>2, <3>3
        <3>5. PICK k \in 1..P!N : /\ Reaped(k) /\ m_return = Tells(children[k])
                                 /\ \A j \in 1..P!N : Reaped(j) => j = k
            BY <2>0, <3>1 DEF Heard
        <3>6. k = i
            BY <3>2, <3>4, <3>5
        <3> QED BY <3>1, <3>2, <3>4, <3>5, <3>6
    <2>3. P!Guarded
        BY <2>2 DEF P!Guarded, Reaped
    <2>4. ASSUME parent = "idle", m_hasStarted
          PROVE  {fd \in fds : fd[1] = P!N} = Keeps(P!N)
        <3>1. P!N > 0 /\ fds = FdsOf(P!N)
            BY <1>2, <2>4 DEF ProcessInv, Started, KeptEnds
        <3> QED BY <2>0, <3>1, Owning
    <2>5. P!Accounted
        BY <2>2, <2>4 DEF P!Accounted, Tells, Keeps, EndsOf, P!Child
    <2> QED BY <2>1, <2>3, <2>5
<1> QED BY <1>1, <1>2

\* The ends that are kept depend on how the starts were asked for, only.
LEMMA SameFds ==
    ASSUME NEW k \in Nat, \A i \in 1..k : children'[i].merge = children[i].merge
    PROVE  FdsOf(k)' = FdsOf(k)
<1>1. \A i \in 1..k : Keeps(i)' = Keeps(i)
    BY DEF Keeps
<1> QED BY <1>1 DEF FdsOf

\* As long as nobody hears of another child, the account stays.
LEMMA SameHeard ==
    ASSUME Heard, NEW n \in Nat, P!N = n, NEW m \in Nat, P!N' = m, n <= m,
           answer \in [of : Nat, code : Int],
           \A i \in 1..n :
               /\ Reaped(i)' <=> Reaped(i)
               /\ Reaped(i) => Tells(children'[i]) = Tells(children[i]),
           \A i \in 1..m : i \notin 1..n => ~Reaped(i)',
           UNCHANGED <<m_hasStopped, m_return, answer>>
    PROVE  Heard'
<1>0. \A i \in 1..n : i \in 1..m
    OBVIOUS
<1>1. CASE ~m_hasStopped
    <2>0. m_return = 0 /\ \A i \in 1..n : ~Reaped(i)
        BY <1>1 DEF Heard
    <2>1. \A i \in 1..n : ~Reaped(i)'
        BY <2>0, Zenon
    <2>2. \A i \in 1..m : ~Reaped(i)'
        BY <2>1, Zenon
    <2>3. ~(answer.of > 0)
        BY <1>1 DEF Heard
    <2> QED BY <1>1, <2>0, <2>2, <2>3 DEF Heard
<1>2. CASE m_hasStopped
    <2>1. PICK i : /\ i \in 1..n /\ Reaped(i) /\ m_return = Tells(children[i])
                   /\ \A j \in 1..n : Reaped(j) => j = i
        BY <1>2, Zenon DEF Heard
    <2>2. i \in 1..m /\ Reaped(i)' /\ m_return' = Tells(children'[i])
        BY <1>0, <2>1, Zenon
    <2>3. \A j \in 1..m : Reaped(j)' => j = i
        BY <2>1, Zenon
    <2>4. answer.of > 0 =>
              answer.code = m_return /\ answer.of <= n /\ \E j \in 1..answer.of : Reaped(j)
        BY DEF Heard
    <2>5. answer.of > 0 => answer.of <= m /\ \A j \in 1..answer.of : j \in 1..n
        BY <2>4
    <2>6. answer.of > 0 => \E j \in 1..answer.of : Reaped(j)'
        BY <2>4, <2>5
    <2> QED BY <1>2, <2>2, <2>3, <2>4, <2>5, <2>6 DEF Heard
<1> QED BY <1>1, <1>2

\* A child that nobody has waited for goes on.
LEMMA Going ==
    ASSUME ProcessInv, NEW k \in 1..P!N, children' \in Seq(ChildRecords), P!N' = P!N,
           \A j \in 1..P!N : j # k => children'[j] = children[j],
           ~Reaped(k), ~Reaped(k)', children'[k].merge = children[k].merge,
           childErrorPipe' \in [bytes : {0, 4}, open : BOOLEAN],
           UNCHANGED <<parent, m_hasStarted, m_hasStopped, m_return, fds, answer>>
    PROVE  ProcessInv'
<1>1. P!N \in Nat /\ ProcessTypes /\ Started /\ KeptEnds /\ Heard
    BY LenProperties DEF ProcessInv, ProcessTypes, P!N
<1>2. PICK n \in Nat : n = P!N
    BY <1>1
<1>3. n > 0 /\ n - 1 \in Nat /\ n \in 1..n
    BY <1>2
<1>4. \A j \in 1..n : children'[j].merge = children[j].merge
    BY <1>2
<1>5. (P!Child)'.merge = P!Child.merge
    BY <1>2, <1>3, <1>4 DEF P!Child
<1>6. FdsOf(n)' = FdsOf(n) /\ FdsOf(n - 1)' = FdsOf(n - 1)
    BY <1>3, <1>4, SameFds
<1>7. KeptEnds'
    BY <1>1, <1>2, <1>5, <1>6 DEF KeptEnds
<1>8. \A j \in 1..n : /\ Reaped(j)' <=> Reaped(j)
                      /\ Reaped(j) => Tells(children'[j]) = Tells(children[j])
    BY <1>2 DEF Reaped
<1>9. Heard'
    BY <1>1, <1>2, <1>8, SameHeard DEF ProcessTypes
<1>10. ProcessTypes' /\ Started'
    BY <1>1 DEF ProcessTypes, P!TypeOK, Started
<1> QED BY <1>7, <1>9, <1>10 DEF ProcessInv

\* A child that is waited for is the last, and the first that is.
LEMMA Waited ==
    ASSUME ProcessInv, NEW by, by \in {"isRunning", "waitFor"}, P!Reaped(by),
           parent = "idle", m_hasStarted, ~m_hasStopped, m_hasStopped' = TRUE,
           UNCHANGED <<parent, m_hasStarted, childErrorPipe, fds>>,
           m_return' = (IF by = "waitFor" THEN P!Status(P!Child) ELSE 0),
           answer' \in [of : Nat, code : Int],
           answer'.of > 0 => answer'.code = m_return' /\ answer'.of = P!N
    PROVE  ProcessInv'
<1>1. ProcessTypes /\ Started /\ KeptEnds /\ Heard /\ P!N \in Nat
    BY LenProperties DEF ProcessInv, ProcessTypes, P!N
<1>2. PICK n \in Nat : n = P!N
    BY <1>1
<1>3. n > 0 /\ n \in 1..n
    BY <1>1, <1>2 DEF Started
<1>4. /\ children' \in Seq(ChildRecords) /\ P!N' = n
      /\ \A j \in 1..n : j # n => children'[j] = children[j]
      /\ children'[n].state = "reaped" /\ children'[n].by = by
      /\ children'[n].merge = P!Child.merge
      /\ P!Status(children'[n]) = P!Status(P!Child)
    BY <1>1, <1>2, <1>3, Reaping DEF ProcessTypes
<1>5. P!Child = children[n] /\ P!Child \in ChildRecords
    BY <1>1, <1>2, <1>3, ElementOfSeq DEF P!Child, P!N, ProcessTypes
<1>6. P!Status(P!Child) \in Int
    BY <1>5 DEF ChildRecords, P!Status
<1>7. ProcessTypes' /\ Started'
    BY <1>1, <1>2, <1>4, <1>6 DEF ProcessTypes, P!TypeOK, Started
<1>8. FdsOf(n)' = FdsOf(n)
    BY <1>4, <1>5, SameFds
<1>9. KeptEnds'
    BY <1>1, <1>2, <1>4, <1>8 DEF KeptEnds
<1>10. Reaped(n)' /\ \A j \in 1..n : Reaped(j)' => j = n
    BY <1>1, <1>2, <1>4 DEF Heard, Reaped
<1>11. m_return' = Tells(children'[n])
    BY <1>4 DEF Tells
<1>12. Heard'
    BY <1>2, <1>3, <1>4, <1>10, <1>11 DEF Heard
<1> QED BY <1>7, <1>9, <1>12 DEF ProcessInv

\* Every step of the parent and of its children keeps the invariant.
LEMMA ProcessStep == ASSUME ProcessInv, P!Next  PROVE ProcessInv'
<1>a. ProcessTypes /\ Started /\ KeptEnds /\ Heard
    BY DEF ProcessInv
<1>b. /\ P!N \in Nat /\ children \in Seq(ChildRecords)
      /\ \A i \in 1..P!N : children[i] \in ChildRecords
    BY <1>a, LenProperties, ElementOfSeq DEF ProcessTypes, P!N
<1>n. PICK n \in Nat : n = P!N
    BY <1>b
<1>1. ASSUME NEW merge \in BOOLEAN, P!internalExec(merge)  PROVE ProcessInv'
    <2>1. CASE UNCHANGED <<children, childErrorPipe, fds, parent>>
        <3>1. UNCHANGED <<children, childErrorPipe, fds, parent, m_hasStarted, m_hasStopped,
                          m_return, answer>>
            BY <1>1, <2>1 DEF P!internalExec
        <3> QED BY <1>a, <3>1
                DEF ProcessInv, ProcessTypes, P!TypeOK, Started, KeptEnds, Heard, Reaped, P!N,
                    P!Child, FdsOf, Keeps
    <2>2. CASE ~UNCHANGED <<children, childErrorPipe, fds, parent>>
        <3> DEFINE child == P!NewChild(merge)
        <3>1. /\ parent = "idle" /\ parent' = "reads"
              /\ children' = Append(children, child)
              /\ childErrorPipe' = [bytes |-> 0, open |-> TRUE]
              /\ fds' = fds \cup Begun(n + 1, merge)
              /\ UNCHANGED <<m_hasStarted, m_hasStopped, m_return, answer>>
            BY <1>1, <1>n, <2>2 DEF P!internalExec, P!Ends, Begun
        <3>2. child \in ChildRecords
            BY DEF P!NewChild, ChildRecords, States
        <3>3. child.state = "forked" /\ child.merge = merge
            BY DEF P!NewChild
        <3> HIDE DEF child
        <3>4. /\ children' \in Seq(ChildRecords) /\ P!N' = n + 1
              /\ children'[n + 1] = child
              /\ \A i \in 1..n : children'[i] = children[i]
            BY <1>b, <1>n, <3>1, <3>2, AppendProperties DEF P!N
        <3>5. ProcessTypes' /\ Started'
            BY <1>a, <3>1, <3>4 DEF ProcessTypes, P!TypeOK, Started
        <3>6. (P!Child)' = child
            BY <3>4 DEF P!Child
        <3>7. FdsOf(n)' = FdsOf(n)
            BY <3>4, SameFds
        <3>8. Heard'
            <4> DEFINE m == n + 1
            <4>1. m \in Nat /\ n <= m /\ P!N' = m
                BY <3>4
            <4>2. \A i \in 1..m : i \notin 1..n => ~Reaped(i)'
                BY <3>3, <3>4 DEF Reaped
            <4> HIDE DEF m
            <4>3. /\ P!N = n /\ UNCHANGED <<m_hasStopped, m_return, answer>> /\ Heard
                  /\ answer \in [of : Nat, code : Int]
                BY <1>a, <1>n, <3>1 DEF ProcessTypes
            <4>4. \A i \in 1..n : /\ Reaped(i)' <=> Reaped(i)
                                 /\ Tells(children'[i]) = Tells(children[i])
                BY <3>4 DEF Reaped
            <4> QED BY <4>1, <4>2, <4>3, <4>4, SameHeard
        <3>9. fds' = FdsOf(n)' \cup Begun(n + 1, merge)
            BY <1>a, <1>n, <3>1, <3>7 DEF KeptEnds
        <3>10. KeptEnds'
            BY <3>1, <3>3, <3>4, <3>6, <3>9 DEF KeptEnds
        <3> QED BY <3>5, <3>8, <3>10 DEF ProcessInv
    <2> QED BY <2>1, <2>2
<1>2. CASE P!reportError
    <2>1. PICK error \in Errors : P!Becomes(n, "reports", error)
        BY <1>2, <1>n DEF P!reportError
    <2>2. n \in 1..n /\ error \in Int /\ "reports" \in States
        BY <1>2, <1>b, <1>n, EmptySeq, PrimitivesAssumption DEF P!reportError, P!N, States
    <2>3. /\ children[n].state = "forked" /\ childErrorPipe' = [bytes |-> 4, open |-> FALSE]
          /\ UNCHANGED <<parent, m_hasStarted, m_hasStopped, m_return, fds, answer>>
        BY <1>2, <1>n DEF P!reportError, P!Child
    <2>4. /\ children' \in Seq(ChildRecords) /\ P!N' = P!N
          /\ \A j \in 1..P!N : j # n => children'[j] = children[j]
          /\ children'[n].state = "reports" /\ children'[n].merge = children[n].merge
        BY <1>b, <1>n, <2>1, <2>2, Becoming
    <2>5. ~Reaped(n) /\ ~Reaped(n)'
        BY <2>3, <2>4 DEF Reaped
    <2> QED BY <1>n, <2>2, <2>3, <2>4, <2>5, Going
<1>3. CASE P!execvp
    <2>1. P!Becomes(n, "runs", 0)
        BY <1>3, <1>n DEF P!execvp
    <2>2. n \in 1..n /\ "runs" \in States
        BY <1>3, <1>b, <1>n, EmptySeq DEF P!execvp, P!N, States
    <2>3. /\ children[n].state = "forked"
          /\ childErrorPipe' = [childErrorPipe EXCEPT !.open = FALSE]
          /\ UNCHANGED <<parent, m_hasStarted, m_hasStopped, m_return, fds, answer>>
        BY <1>3, <1>n DEF P!execvp, P!Child
    <2>4. childErrorPipe' \in [bytes : {0, 4}, open : BOOLEAN]
        BY <1>a, <2>3 DEF ProcessTypes
    <2>5. /\ children' \in Seq(ChildRecords) /\ P!N' = P!N
          /\ \A j \in 1..P!N : j # n => children'[j] = children[j]
          /\ children'[n].state = "runs" /\ children'[n].merge = children[n].merge
        BY <1>b, <1>n, <2>1, <2>2, Becoming
    <2>6. ~Reaped(n) /\ ~Reaped(n)'
        BY <2>3, <2>5 DEF Reaped
    <2> QED BY <1>n, <2>2, <2>3, <2>4, <2>5, <2>6, Going
<1>4. CASE P!exit
    <2>1. PICK i \in 1..n : \/ children[i].state = "reports" /\ P!Becomes(i, "exited", children[i].code)
                            \/ /\ children[i].state = "runs"
                               /\ \E code \in Codes : P!Becomes(i, "exited", code)
        BY <1>4, <1>n DEF P!exit
    <2>2. children[i].state \in {"reports", "runs"}
        BY <2>1
    <2>3. PICK code \in Int : P!Becomes(i, "exited", code)
        <3>1. children[i].code \in Int
            BY <1>b, <1>n DEF ChildRecords
        <3> QED BY <2>1, <3>1, PrimitivesAssumption
    <2>4. UNCHANGED <<parent, m_hasStarted, m_hasStopped, m_return, fds, answer, childErrorPipe>>
        BY <1>4 DEF P!exit
    <2>5. "exited" \in States
        BY DEF States
    <2>6. /\ children' \in Seq(ChildRecords) /\ P!N' = P!N
          /\ \A j \in 1..P!N : j # i => children'[j] = children[j]
          /\ children'[i].state = "exited" /\ children'[i].merge = children[i].merge
        BY <1>b, <1>n, <2>3, <2>5, Becoming
    <2>7. ~Reaped(i) /\ ~Reaped(i)'
        BY <2>2, <2>6 DEF Reaped
    <2>8. childErrorPipe' \in [bytes : {0, 4}, open : BOOLEAN]
        BY <1>a, <2>4 DEF ProcessTypes
    <2> QED BY <1>n, <2>4, <2>6, <2>7, <2>8, Going
<1>8. CASE P!kill
    <2>1. PICK i \in 1..n :
              /\ children[i].state \in {"forked", "reports", "runs"}
              /\ children' = [children EXCEPT ![i].state = "exited", ![i].normal = FALSE]
              /\ childErrorPipe' = [childErrorPipe EXCEPT !.open = childErrorPipe.open /\ i # n]
        BY <1>8, <1>n DEF P!kill
    <2>2. UNCHANGED <<parent, m_hasStarted, m_hasStopped, m_return, fds, answer>>
        BY <1>8 DEF P!kill
    <2>3. /\ children' \in Seq(ChildRecords) /\ P!N' = P!N
          /\ \A j \in 1..P!N : j # i => children'[j] = children[j]
          /\ children'[i].state = "exited" /\ children'[i].merge = children[i].merge
        BY <1>b, <1>n, <2>1, Killing
    <2>4. ~Reaped(i) /\ ~Reaped(i)'
        BY <2>1, <2>3 DEF Reaped
    <2>5. (childErrorPipe.open /\ i # n) \in BOOLEAN
        BY <1>a DEF ProcessTypes
    <2>6. childErrorPipe' \in [bytes : {0, 4}, open : BOOLEAN]
        BY <1>a, <2>1, <2>5 DEF ProcessTypes
    <2> QED BY <1>n, <2>2, <2>3, <2>4, <2>6, Going
<1>5. CASE P!finishExec
    <2>1. /\ parent = "reads" /\ n > 0
          /\ childErrorPipe' = [childErrorPipe EXCEPT !.bytes = 0]
          /\ UNCHANGED <<m_hasStopped, m_return, children, answer>>
        BY <1>5, <1>a, <1>n DEF P!finishExec, Started
    <2>2. childErrorPipe' \in [bytes : {0, 4}, open : BOOLEAN]
        BY <1>a, <2>1 DEF ProcessTypes
    <2>3. P!N' = P!N /\ (P!Child)' = P!Child /\ FdsOf(n)' = FdsOf(n) /\ n \in 1..n
        BY <2>1 DEF P!N, P!Child, FdsOf, Keeps
    <2>4. Heard'
        BY <1>a, <2>1, <2>3 DEF Heard, Reaped
    <2>5. P!Child \in ChildRecords
        BY <1>b, <1>n, <2>3 DEF P!Child
    <2>6. CASE childErrorPipe.bytes = 4
        <3>1. /\ parent' = "idle" /\ m_hasStarted' = TRUE
              /\ fds' = fds \ Unused(n)
            BY <1>5, <1>n, <2>6 DEF P!finishExec, P!readFully, Unused
        <3>2. n - 1 \in Nat /\ n = (n - 1) + 1
            BY <2>1
        <3>3. PICK k \in Nat : n = k + 1
            BY <3>2
        <3>4. fds = FdsOf(k) \cup Begun(k + 1, P!Child.merge)
            BY <1>a, <1>n, <2>1, <3>3 DEF KeptEnds
        <3>5. P!Child.merge \in BOOLEAN /\ P!Child = children[k + 1]
            BY <1>n, <2>5, <3>3 DEF ChildRecords, P!Child
        <3>6. /\ Begun(k + 1, P!Child.merge) \ Unused(k + 1) = EndsOf(k + 1, P!Child.merge)
              /\ FdsOf(k + 1) = FdsOf(k) \cup Keeps(k + 1)
              /\ FdsOf(k) \cap Unused(k + 1) = {}
            BY <3>5, Closing, Keeping
        <3>7. Keeps(k + 1) = EndsOf(k + 1, P!Child.merge)
            BY <3>5 DEF Keeps
        <3>8. fds' = FdsOf(n)
            BY <3>1, <3>3, <3>4, <3>6, <3>7
        <3>9. KeptEnds'
            BY <1>n, <2>3, <3>1, <3>8 DEF KeptEnds
        <3>10. ProcessTypes' /\ Started'
            BY <1>a, <1>n, <2>1, <2>2, <2>3, <3>1 DEF ProcessTypes, P!TypeOK, Started
        <3> QED BY <2>4, <3>9, <3>10 DEF ProcessInv
    <2>7. CASE childErrorPipe.bytes # 4
        <3>1. parent' = "spins" /\ UNCHANGED <<m_hasStarted, fds>>
            BY <1>5, <2>7 DEF P!finishExec, P!readFully
        <3>2. KeptEnds'
            BY <3>1 DEF KeptEnds
        <3>3. ProcessTypes' /\ Started'
            BY <1>a, <1>n, <2>1, <2>2, <2>3, <3>1 DEF ProcessTypes, P!TypeOK, Started
        <3> QED BY <2>4, <3>2, <3>3 DEF ProcessInv
    <2> QED BY <2>6, <2>7
<1>6. CASE P!isRunning
    <2>1. /\ P!Reaped("isRunning") /\ parent = "idle" /\ m_hasStarted /\ ~m_hasStopped
          /\ m_hasStopped' = TRUE
          /\ UNCHANGED <<parent, m_hasStarted, m_return, childErrorPipe, fds, answer>>
        BY <1>6 DEF P!isRunning
    <2>2. m_return' = 0 /\ ~(answer.of > 0)
        BY <1>a, <2>1 DEF Heard
    <2>3. answer' \in [of : Nat, code : Int]
        BY <1>a, <2>1 DEF ProcessTypes
    <2> QED BY <2>1, <2>2, <2>3, Waited
<1>7. CASE P!waitFor
    <2>1. /\ parent = "idle" /\ m_hasStarted
          /\ UNCHANGED <<parent, m_hasStarted, childErrorPipe, fds>>
        BY <1>7 DEF P!waitFor
    <2>2. CASE m_hasStopped
        <3>1. /\ answer' = [of |-> n, code |-> m_return]
              /\ UNCHANGED <<m_hasStopped, m_return, children>>
            BY <1>7, <1>n, <2>2 DEF P!waitFor
        <3>2. m_return \in Int
            BY <1>a DEF ProcessTypes, P!TypeOK
        <3>3. answer' \in [of : Nat, code : Int] /\ answer'.code = m_return /\ answer'.of = n
            BY <3>1, <3>2
        <3>4. P!N' = P!N /\ (P!Child)' = P!Child /\ FdsOf(n)' = FdsOf(n)
            BY <3>1 DEF P!N, P!Child, FdsOf, Keeps
        <3>5. ProcessTypes' /\ Started' /\ KeptEnds'
            BY <1>a, <1>n, <2>1, <3>1, <3>3, <3>4 DEF ProcessTypes, P!TypeOK, Started, KeptEnds
        <3>6. \A i : Reaped(i)' <=> Reaped(i)
            BY <3>1 DEF Reaped
        <3>7. Heard'
            BY <1>a, <1>n, <2>2, <3>1, <3>3, <3>4, <3>6 DEF Heard
        <3> QED BY <3>5, <3>7 DEF ProcessInv
    <2>3. CASE ~m_hasStopped
        <3>1. /\ P!Reaped("waitFor") /\ m_hasStopped' = TRUE /\ m_return' = P!Status(P!Child)
              /\ answer' = [of |-> n, code |-> P!Status(P!Child)]
            BY <1>7, <1>n, <2>3 DEF P!waitFor
        <3>2. P!Status(P!Child) \in Int
            <4>1. n \in 1..n
                BY <1>a, <1>n, <2>1 DEF Started
            <4>2. P!Child \in ChildRecords
                BY <1>b, <1>n, <4>1 DEF P!Child
            <4> QED BY <4>2 DEF ChildRecords, P!Status
        <3>3. answer' \in [of : Nat, code : Int] /\ answer'.code = m_return' /\ answer'.of = P!N
            BY <1>n, <3>1, <3>2
        <3> QED BY <2>1, <2>3, <3>1, <3>3, Waited
    <2> QED BY <2>2, <2>3
<1> QED BY <1>1, <1>2, <1>3, <1>4, <1>5, <1>6, <1>7, <1>8 DEF P!Next

-----------------------------------------------------------------------------
(* ProcessWin.                                                             *)

WinPlaces == {"idle", "openIn", "hideIn", "openOut", "hideOut", "openErr", "hideErr",
              "duplicate", "launch", "launched", "destroyed"}
Names == {"in", "out", "err"}
Handles == Objects \X Nat \X Names \X {0, 1}
ObjectRecords ==
    [at : WinPlaces, merge : BOOLEAN, starts : Nat,
     m_hasStarted : BOOLEAN, m_hasStopped : BOOLEAN, m_return : Codes \cup {0},
     child : {"none", "runs", "exited"}, code : Codes \cup {0}, given : SUBSET Handles]

WinTypes ==
    /\ objects \in [Objects -> ObjectRecords]
    /\ \A o \in Objects : objects[o].starts <= MaxStarts
    /\ handles \subseteq Handles /\ inheritable \subseteq handles
    /\ lost \subseteq Objects \X (1..MaxStarts) \X BOOLEAN /\ crowded \subseteq Objects

\* What an object's fields say of one another: a start under way is its only
\* one, and an exit code is that of the child that has ended.
Marked ==
    \A o \in Objects :
        /\ N!Starting(o) => ~objects[o].m_hasStarted /\ objects[o].starts > 0
        /\ objects[o].at \in {"openErr", "hideErr"} => ~objects[o].merge
        /\ objects[o].at = "duplicate" => objects[o].merge
        /\ objects[o].m_hasStopped =>
               /\ objects[o].m_hasStarted /\ objects[o].child = "exited"
               /\ objects[o].m_return = objects[o].code

\* The ends that the start under way, or the streams, may have open; those
\* they have for sure; and those a child would be given.
Owns(o, name, end) ==
    LET at == objects[o].at IN
    \/ name = "in" /\ at \in WinPlaces \ {"idle", "openIn", "destroyed"}
    \/ name = "out" /\ at \in {"hideOut", "openErr", "hideErr", "duplicate", "launch", "launched"}
    \/ name = "err" /\ at \in {"hideErr", "launch", "launched"}
                    /\ (end = 0 => at = "hideErr" \/ ~objects[o].merge)
    \/ /\ at = "idle" /\ objects[o].m_hasStarted
       /\ \/ name = "in" /\ end = 1
          \/ name = "out" /\ end = 0
          \/ name = "err" /\ end = 0 /\ ~objects[o].merge
Needs(o, name, end) == Owns(o, name, end) /\ ~(objects[o].at = "idle" /\ name = "in")
Shows(o, name, end) ==
    LET at == objects[o].at IN
    /\ at \notin {"idle", "destroyed"} /\ Owns(o, name, end)
    /\ \/ name = "in" /\ (end = 0 \/ at = "hideIn")
       \/ name = "out" /\ (end = 1 \/ at = "hideOut")
       \/ name = "err" /\ (end = 1 \/ at = "hideErr")

\* The start that a launch has ended, and the ends it left open.
Ended(o, k) == \E merge \in BOOLEAN : <<o, k, merge>> \in lost
Left(o, k, name, end) ==
    \E merge \in BOOLEAN : /\ <<o, k, merge>> \in lost
                           /\ name = "err" /\ end = 0 => ~merge

\* A start that was lost is over.
Losses ==
    \A o \in Objects, k \in Nat : Ended(o, k) =>
        /\ k <= objects[o].starts
        /\ k = objects[o].starts => ~N!Starting(o) /\ ~objects[o].m_hasStarted

\* What is open belongs to a start that was lost, or to the last of its object.
Opened ==
    \A o \in Objects, k \in Nat, name \in Names, end \in {0, 1} :
        /\ Left(o, k, name, end) => <<o, k, name, end>> \in handles
        /\ <<o, k, name, end>> \in handles =>
               Left(o, k, name, end) \/ (k = objects[o].starts /\ Owns(o, name, end))
        /\ k = objects[o].starts /\ Needs(o, name, end) => <<o, k, name, end>> \in handles
        /\ <<o, k, name, end>> \in inheritable =>
               Left(o, k, name, end) \/ (k = objects[o].starts /\ Shows(o, name, end))

\* What a child was given of another object's last start it got while that
\* start was under way, or after it was lost.
Gifts ==
    \A p \in Objects, o \in Objects, k \in Nat, name \in Names, end \in {0, 1} :
        <<o, k, name, end>> \in objects[p].given =>
            /\ k <= objects[o].starts
            /\ k = objects[o].starts =>
                   IF o = p THEN (end = 0 <=> name = "in")
                   ELSE o \in crowded \/ Ended(o, k)

WinInv == WinTypes /\ Marked /\ Losses /\ Opened /\ Gifts

\* What an object's record is built from.
Shaped(r) ==
    r = [at |-> r.at, merge |-> r.merge, starts |-> r.starts,
         m_hasStarted |-> r.m_hasStarted, m_hasStopped |-> r.m_hasStopped,
         m_return |-> r.m_return, child |-> r.child, code |-> r.code, given |-> r.given]
SameResult(r, s) ==
    s.m_hasStopped = r.m_hasStopped /\ s.m_return = r.m_return /\ s.code = r.code
SameStart(r, s) == s.merge = r.merge /\ s.starts = r.starts /\ s.m_hasStarted = r.m_hasStarted
SameChild(r, s) == s.child = r.child /\ s.given = r.given

\* A record is one of an object if it has the shape and its fields their types.
LEMMA ShapedRecord ==
    ASSUME NEW r, Shaped(r), r.at \in WinPlaces, r.merge \in BOOLEAN, r.starts \in Nat,
           r.m_hasStarted \in BOOLEAN, r.m_hasStopped \in BOOLEAN,
           r.m_return \in Codes \cup {0}, r.child \in {"none", "runs", "exited"},
           r.code \in Codes \cup {0}, r.given \in SUBSET Handles
    PROVE  r \in ObjectRecords
<1>1. \A at \in WinPlaces : \A merge \in BOOLEAN : \A starts \in Nat :
          \A given \in SUBSET Handles :
              [at |-> at, merge |-> merge, starts |-> starts,
               m_hasStarted |-> r.m_hasStarted, m_hasStopped |-> r.m_hasStopped,
               m_return |-> r.m_return, child |-> r.child, code |-> r.code,
               given |-> given] \in ObjectRecords
    BY DEF ObjectRecords
<1>2. [at |-> r.at, merge |-> r.merge, starts |-> r.starts,
       m_hasStarted |-> r.m_hasStarted, m_hasStopped |-> r.m_hasStopped,
       m_return |-> r.m_return, child |-> r.child, code |-> r.code,
       given |-> r.given] \in ObjectRecords
    BY <1>1, Zenon
<1> DEFINE copy == [at |-> r.at, merge |-> r.merge, starts |-> r.starts,
       m_hasStarted |-> r.m_hasStarted, m_hasStopped |-> r.m_hasStopped,
       m_return |-> r.m_return, child |-> r.child, code |-> r.code,
       given |-> r.given]
<1>3. r = copy
    BY DEF Shaped
<1>4. copy \in ObjectRecords
    BY <1>2
<1> HIDE DEF copy
<1> QED BY <1>3, <1>4

\* An object's fields are what its type says.
LEMMA Fielded ==
    ASSUME WinTypes, NEW o \in Objects
    PROVE  /\ objects[o] \in ObjectRecords /\ Shaped(objects[o])
           /\ objects[o].at \in WinPlaces /\ objects[o].merge \in BOOLEAN
           /\ objects[o].starts \in Nat /\ objects[o].m_hasStarted \in BOOLEAN
           /\ objects[o].m_hasStopped \in BOOLEAN /\ objects[o].m_return \in Codes \cup {0}
           /\ objects[o].child \in {"none", "runs", "exited"}
           /\ objects[o].code \in Codes \cup {0} /\ objects[o].given \in SUBSET Handles
<1>1. objects[o] \in ObjectRecords
    BY DEF WinTypes
<1>2. Shaped(objects[o])
    BY <1>1 DEF Shaped, ObjectRecords
<1> QED BY <1>1, <1>2 DEF ObjectRecords

\* One object's record is replaced.
LEMMA OneChanged ==
    ASSUME WinTypes, NEW o \in Objects, NEW r, r \in ObjectRecords,
           objects' = [objects EXCEPT ![o] = r]
    PROVE  /\ objects' \in [Objects -> ObjectRecords] /\ objects'[o] = r
           /\ \A p \in Objects : p # o => objects'[p] = objects[p]
BY DEF WinTypes

\* An object's start comes to its next place.
LEMMA Placing ==
    ASSUME WinTypes, NEW o \in Objects, NEW next, next \in WinPlaces, N!At(o, next)
    PROVE  /\ objects' \in [Objects -> ObjectRecords]
           /\ \A p \in Objects : p # o => objects'[p] = objects[p]
           /\ objects'[o].at = next /\ SameStart(objects[o], objects'[o])
           /\ SameResult(objects[o], objects'[o]) /\ SameChild(objects[o], objects'[o])
<1> DEFINE old == objects[o]
           new == [old EXCEPT !.at = next]
<1>1. objects' = [objects EXCEPT ![o] = new]
    BY DEF N!At
<1>2. Shaped(old)
    BY Fielded
<1> HIDE DEF old
<1>3. new = [old EXCEPT !.at = next]
    OBVIOUS
<1> HIDE DEF new
<1>4. Shaped(new) /\ new.at = next
    BY <1>2, <1>3 DEF Shaped
<1>5. SameStart(old, new) /\ SameResult(old, new) /\ SameChild(old, new)
    BY <1>2, <1>3 DEF Shaped, SameStart, SameResult, SameChild
<1>6. new \in ObjectRecords
    BY <1>4, <1>5, Fielded, ShapedRecord, Zenon DEF SameStart, SameResult, SameChild, old
<1> QED BY <1>1, <1>4, <1>5, <1>6, OneChanged DEF old

\* The handles of a pipe's ends are those of the last start.
LEMMA PipeEnds ==
    ASSUME NEW o \in Objects, NEW p, NEW k, NEW name, NEW end
    PROVE  /\ \A n : <<p, k, name, end>> \in N!Pipe(o, n) <=>
                  p = o /\ k = objects[o].starts /\ name = n /\ end \in {0, 1}
           /\ \A names : <<p, k, name, end>> \in N!Pipes(o, names) <=>
                  p = o /\ k = objects[o].starts /\ name \in names /\ end \in {0, 1}
           /\ \A n, e : <<p, k, name, end>> \in N!End(o, n, e) <=>
                  p = o /\ k = objects[o].starts /\ name = n /\ end = e
<1>1. ASSUME NEW n
      PROVE  <<p, k, name, end>> \in N!Pipe(o, n) <=>
                  p = o /\ k = objects[o].starts /\ name = n /\ end \in {0, 1}
    BY DEF N!Pipe
<1>2. ASSUME NEW names
      PROVE  <<p, k, name, end>> \in N!Pipes(o, names) <=>
                  p = o /\ k = objects[o].starts /\ name \in names /\ end \in {0, 1}
    BY DEF N!Pipes, N!Pipe
<1>3. ASSUME NEW n, NEW e
      PROVE  <<p, k, name, end>> \in N!End(o, n, e) <=>
                  p = o /\ k = objects[o].starts /\ name = n /\ end = e
    BY DEF N!End
<1> QED BY <1>1, <1>2, <1>3

\* The ends of a pipe are handles.
LEMMA PipeHandles ==
    ASSUME NEW o \in Objects, objects[o].starts \in Nat
    PROVE  /\ \A n : n \in Names => N!Pipe(o, n) \subseteq Handles
           /\ \A n, e : n \in Names /\ e \in {0, 1} => N!End(o, n, e) \subseteq Handles
<1>1. ASSUME NEW n, n \in Names  PROVE N!Pipe(o, n) \subseteq Handles
    BY <1>1 DEF N!Pipe, Handles
<1>2. ASSUME NEW n, n \in Names, NEW e, e \in {0, 1}  PROVE N!End(o, n, e) \subseteq Handles
    BY <1>2 DEF N!End, Handles
<1> QED BY <1>1, <1>2

\* A step of one object's start changes only what is open of that start.
OfOthers(o) ==
    \A p \in Objects, k \in Nat, name \in Names, end \in {0, 1} :
        ~(p = o /\ k = objects[o].starts) =>
            /\ <<p, k, name, end>> \in handles' <=> <<p, k, name, end>> \in handles
            /\ <<p, k, name, end>> \in inheritable' <=> <<p, k, name, end>> \in inheritable
OwnEnds(o) ==
    \A name \in Names, end \in {0, 1} :
        LET h == <<o, objects[o].starts, name, end>>
            left == Left(o, objects[o].starts, name, end) IN
        /\ left => h \in handles
        /\ h \in handles => left \/ Owns(o, name, end)
        /\ Needs(o, name, end) => h \in handles
        /\ h \in inheritable => left \/ Shows(o, name, end)

\* What an object owns, needs and shows is read from its own record.
LEMMA SameOwner ==
    ASSUME NEW o, NEW name, NEW end, objects'[o] = objects[o]
    PROVE  /\ Owns(o, name, end)' = Owns(o, name, end)
           /\ Needs(o, name, end)' = Needs(o, name, end)
           /\ Shows(o, name, end)' = Shows(o, name, end)
           /\ N!Starting(o)' = N!Starting(o)
BY DEF Owns, Needs, Shows, N!Starting

\* It is enough to look at the start that takes the step.
LEMMA OwnStep ==
    ASSUME WinInv, NEW o \in Objects, lost' = lost,
           \A p \in Objects : p # o => objects'[p] = objects[p],
           objects'[o].starts = objects[o].starts,
           Ended(o, objects[o].starts) => ~N!Starting(o)' /\ ~objects'[o].m_hasStarted,
           OfOthers(o), OwnEnds(o)'
    PROVE  Losses' /\ Opened'
<1>1. Losses'
    <2>1. \A p, k : Ended(p, k)' = Ended(p, k)
        BY DEF Ended
    <2>2. ASSUME NEW p \in Objects, NEW k \in Nat, Ended(p, k), p # o
          PROVE  /\ k <= objects'[p].starts
                 /\ k = objects'[p].starts => ~N!Starting(p)' /\ ~objects'[p].m_hasStarted
        BY <2>2 DEF WinInv, Losses, N!Starting
    <2>3. ASSUME NEW k \in Nat, Ended(o, k)
          PROVE  /\ k <= objects'[o].starts
                 /\ k = objects'[o].starts => ~N!Starting(o)' /\ ~objects'[o].m_hasStarted
        BY <2>3 DEF WinInv, Losses
    <2> QED BY <2>1, <2>2, <2>3 DEF Losses
<1>2. \A p, k, name, end : Left(p, k, name, end)' = Left(p, k, name, end)
    BY DEF Left
<1>3. ASSUME NEW p \in Objects, NEW k \in Nat, NEW name \in Names, NEW end \in {0, 1}
      PROVE  /\ Left(p, k, name, end)' => <<p, k, name, end>> \in handles'
             /\ <<p, k, name, end>> \in handles' =>
                    Left(p, k, name, end)' \/ (k = objects'[p].starts /\ Owns(p, name, end)')
             /\ k = objects'[p].starts /\ Needs(p, name, end)' => <<p, k, name, end>> \in handles'
             /\ <<p, k, name, end>> \in inheritable' =>
                    Left(p, k, name, end)' \/ (k = objects'[p].starts /\ Shows(p, name, end)')
    <2>1. /\ Left(p, k, name, end) => <<p, k, name, end>> \in handles
          /\ <<p, k, name, end>> \in handles =>
                 Left(p, k, name, end) \/ (k = objects[p].starts /\ Owns(p, name, end))
          /\ k = objects[p].starts /\ Needs(p, name, end) => <<p, k, name, end>> \in handles
          /\ <<p, k, name, end>> \in inheritable =>
                 Left(p, k, name, end) \/ (k = objects[p].starts /\ Shows(p, name, end))
        BY <1>3 DEF WinInv, Opened
    <2>2. CASE p # o
        BY <1>2, <1>3, <2>1, <2>2, SameOwner DEF OfOthers
    <2>3. CASE p = o /\ k # objects[o].starts
        BY <1>2, <1>3, <2>1, <2>3 DEF OfOthers
    <2>4. CASE p = o /\ k = objects[o].starts
        BY <1>2, <1>3, <2>4 DEF OwnEnds
    <2> QED BY <2>2, <2>3, <2>4
<1>4. Opened'
    BY <1>3, Zenon DEF Opened
<1> QED BY <1>1, <1>4

\* What a child was given stays as it is while starts, losses and crowds grow.
LEMMA SameGifts ==
    ASSUME WinInv, \A o \in Objects : /\ objects'[o].given \subseteq objects[o].given
                                      /\ objects'[o].starts = objects[o].starts,
           lost \subseteq lost', crowded \subseteq crowded'
    PROVE  Gifts'
<1>1. \A o, k : Ended(o, k) => Ended(o, k)'
    BY DEF Ended
<1>2. ASSUME NEW p \in Objects, NEW o \in Objects, NEW k \in Nat, NEW name \in Names,
             NEW end, end \in {0, 1}, <<o, k, name, end>> \in objects'[p].given
      PROVE  /\ k <= objects'[o].starts
             /\ k = objects'[o].starts =>
                    IF o = p THEN (end = 0 <=> name = "in") ELSE o \in crowded' \/ Ended(o, k)'
    <2>1. <<o, k, name, end>> \in objects[p].given /\ objects'[o].starts = objects[o].starts
        BY <1>2
    <2>2. /\ k <= objects[o].starts
          /\ k = objects[o].starts =>
                 IF o = p THEN (end = 0 <=> name = "in") ELSE o \in crowded \/ Ended(o, k)
        BY <1>2, <2>1 DEF WinInv, Gifts
    <2> QED BY <1>1, <2>1, <2>2
<1> QED BY <1>2 DEF Gifts

\* While a start is under way, just what it owns is open.
LEMMA StartEnds ==
    ASSUME WinInv, NEW o \in Objects, N!Starting(o)
    PROVE  /\ ~Ended(o, objects[o].starts) /\ ~objects[o].m_hasStarted /\ ~objects[o].m_hasStopped
           /\ objects[o].starts \in Nat /\ objects[o].starts > 0
           /\ \A name \in Names, end \in {0, 1} :
                  LET h == <<o, objects[o].starts, name, end>> IN
                  /\ ~Left(o, objects[o].starts, name, end)
                  /\ h \in handles <=> Owns(o, name, end)
                  /\ h \in inheritable => Shows(o, name, end)
<1>1. objects[o].starts \in Nat
    BY Fielded DEF WinInv
<1>2. ~Ended(o, objects[o].starts)
    BY <1>1 DEF WinInv, Losses
<1>3. \A name, end : ~Left(o, objects[o].starts, name, end)
    BY <1>2 DEF Left, Ended
<1>4. ~objects[o].m_hasStarted /\ ~objects[o].m_hasStopped /\ objects[o].starts > 0
    BY DEF WinInv, Marked
<1>5. ASSUME NEW name \in Names, NEW end \in {0, 1}
      PROVE  LET h == <<o, objects[o].starts, name, end>> IN
             /\ h \in handles <=> Owns(o, name, end)
             /\ h \in inheritable => Shows(o, name, end)
    <2>1. Needs(o, name, end) <=> Owns(o, name, end)
        BY DEF Needs, N!Starting
    <2>2. LET h == <<o, objects[o].starts, name, end>> IN
             /\ h \in handles => Left(o, objects[o].starts, name, end) \/ Owns(o, name, end)
             /\ Needs(o, name, end) => h \in handles
             /\ h \in inheritable => Left(o, objects[o].starts, name, end) \/ Shows(o, name, end)
        BY <1>1 DEF WinInv, Opened
    <2> QED BY <1>3, <2>1, <2>2
<1> QED BY <1>1, <1>2, <1>3, <1>4, <1>5

\* A start under way comes to its next place, with what it owns there.
LEMMA StartStep ==
    ASSUME WinInv, NEW o \in Objects, N!Starting(o), WinTypes', UNCHANGED <<lost, crowded>>,
           \A p \in Objects : p # o => objects'[p] = objects[p],
           SameStart(objects[o], objects'[o]), SameResult(objects[o], objects'[o]),
           SameChild(objects[o], objects'[o]),
           objects'[o].at \in {"openErr", "hideErr"} => ~objects[o].merge,
           objects'[o].at = "duplicate" => objects[o].merge,
           OfOthers(o),
           \A name \in Names, end \in {0, 1} :
               LET h == <<o, objects[o].starts, name, end>> IN
               /\ h \in handles' <=> Owns(o, name, end)'
               /\ h \in inheritable' => Shows(o, name, end)'
    PROVE  WinInv'
<1>1. /\ ~Ended(o, objects[o].starts) /\ ~objects[o].m_hasStarted /\ ~objects[o].m_hasStopped
      /\ objects[o].starts \in Nat /\ objects[o].starts > 0
      /\ \A name \in Names, end \in {0, 1} : ~Left(o, objects[o].starts, name, end)
    BY StartEnds
<1>2. objects'[o].starts = objects[o].starts
    BY DEF SameStart
<1>3. \A name, end : Left(o, objects[o].starts, name, end)' = Left(o, objects'[o].starts, name, end)
    BY DEF Left
<1>4. \A name, end : Needs(o, name, end)' => Owns(o, name, end)'
    BY DEF Needs
<1>5. OwnEnds(o)'
    BY <1>1, <1>2, <1>3, <1>4 DEF OwnEnds
<1>6. Losses' /\ Opened'
    BY <1>1, <1>2, <1>5, OwnStep
<1>7. Marked'
    <2>1. ASSUME NEW p \in Objects, p # o
          PROVE  /\ N!Starting(p)' => ~objects'[p].m_hasStarted /\ objects'[p].starts > 0
                 /\ objects'[p].at \in {"openErr", "hideErr"} => ~objects'[p].merge
                 /\ objects'[p].at = "duplicate" => objects'[p].merge
                 /\ objects'[p].m_hasStopped =>
                        /\ objects'[p].m_hasStarted /\ objects'[p].child = "exited"
                        /\ objects'[p].m_return = objects'[p].code
        BY <2>1 DEF WinInv, Marked, N!Starting
    <2>2. /\ ~objects'[o].m_hasStarted /\ objects'[o].starts > 0 /\ ~objects'[o].m_hasStopped
          /\ objects'[o].merge = objects[o].merge
        BY <1>1 DEF SameStart, SameResult
    <2> QED BY <2>1, <2>2 DEF Marked
<1>8. Gifts'
    <2>1. \A p \in Objects : /\ objects'[p].given \subseteq objects[p].given
                             /\ objects'[p].starts = objects[p].starts
        BY <1>2 DEF SameChild
    <2> QED BY <2>1, SameGifts
<1> QED BY <1>6, <1>7, <1>8 DEF WinInv

\* The types, where handles are opened or closed.
LEMMA WinTyped ==
    ASSUME WinTypes, objects' \in [Objects -> ObjectRecords],
           \A o \in Objects : objects'[o].starts = objects[o].starts,
           UNCHANGED <<lost, crowded>>,
           handles' \subseteq Handles, inheritable' \subseteq handles'
    PROVE  WinTypes'
BY DEF WinTypes

\* A start that fails closes all it owned.
LEMMA Failing ==
    ASSUME WinInv, NEW o \in Objects, N!Starting(o), NEW names, N!Fails(o, names),
           \A name \in Names, end \in {0, 1} : Owns(o, name, end) => name \in names
    PROVE  WinInv'
<1>0. WinTypes
    BY DEF WinInv
<1>1. /\ N!At(o, "idle") /\ UNCHANGED <<lost, crowded>>
      /\ handles' = handles \ N!Pipes(o, names)
      /\ inheritable' = inheritable \ N!Pipes(o, names)
    BY DEF N!Fails
<1>2. /\ objects' \in [Objects -> ObjectRecords]
      /\ \A p \in Objects : p # o => objects'[p] = objects[p]
      /\ objects'[o].at = "idle" /\ SameStart(objects[o], objects'[o])
      /\ SameResult(objects[o], objects'[o]) /\ SameChild(objects[o], objects'[o])
    BY <1>0, <1>1, Placing DEF WinPlaces
<1>3. WinTypes'
    <2>1. \A p \in Objects : objects'[p].starts = objects[p].starts
        BY <1>2 DEF SameStart
    <2>2. handles' \subseteq Handles /\ inheritable' \subseteq handles'
        BY <1>0, <1>1 DEF WinTypes
    <2> QED BY <1>0, <1>1, <1>2, <2>1, <2>2, WinTyped
<1>4. OfOthers(o)
    <2>1. ASSUME NEW p \in Objects, NEW k \in Nat, NEW name \in Names, NEW end \in {0, 1},
                 ~(p = o /\ k = objects[o].starts)
          PROVE  <<p, k, name, end>> \notin N!Pipes(o, names)
        BY <2>1, PipeEnds
    <2> QED BY <1>1, <2>1 DEF OfOthers
<1>5. ASSUME NEW name \in Names, NEW end \in {0, 1}
      PROVE  LET h == <<o, objects[o].starts, name, end>> IN
             /\ h \in handles' <=> Owns(o, name, end)'
             /\ h \in inheritable' => Shows(o, name, end)'
    <2> DEFINE h == <<o, objects[o].starts, name, end>>
    <2>0. h \in handles => name \in names
        BY StartEnds
    <2>1a. \A q : q \in {0, 1} => (<<o, objects[o].starts, name, q>> \in N!Pipes(o, names) <=> name \in names)
        BY PipeEnds
    <2>1. h \in handles => h \in N!Pipes(o, names)
        BY <2>0, <2>1a
    <2>2. h \notin handles' /\ h \notin inheritable'
        BY <1>0, <1>1, <2>1 DEF WinTypes
    <2>3. ~Owns(o, name, end)'
        BY <1>2, StartEnds DEF Owns, SameStart
    <2> QED BY <2>2, <2>3
<1> QED BY <1>1, <1>2, <1>3, <1>4, <1>5, StartStep

\* A start that opens a pipe owns its ends, and would give both to a child.
LEMMA Opening ==
    ASSUME WinInv, NEW o \in Objects, N!Starting(o), NEW opened, NEW next,
           next \in WinPlaces \ {"idle", "destroyed"}, N!Opens(o, opened, next),
           next \in {"openErr", "hideErr"} => ~objects[o].merge,
           next = "duplicate" => objects[o].merge,
           opened \subseteq Handles,
           \A p, k, name, end : <<p, k, name, end>> \in opened => p = o /\ k = objects[o].starts,
           \A name \in Names, end \in {0, 1} :
               LET h == <<o, objects[o].starts, name, end>> IN
               /\ Owns(o, name, end) \/ h \in opened <=> Owns(o, name, end)'
               /\ Shows(o, name, end) \/ h \in opened => Shows(o, name, end)'
    PROVE  WinInv'
<1>0. WinTypes
    BY DEF WinInv
<1>1. /\ N!At(o, next) /\ UNCHANGED <<lost, crowded>>
      /\ handles' = handles \cup opened /\ inheritable' = inheritable \cup opened
    BY DEF N!Opens
<1>2. /\ objects' \in [Objects -> ObjectRecords]
      /\ \A p \in Objects : p # o => objects'[p] = objects[p]
      /\ objects'[o].at = next /\ SameStart(objects[o], objects'[o])
      /\ SameResult(objects[o], objects'[o]) /\ SameChild(objects[o], objects'[o])
    BY <1>0, <1>1, Placing
<1>3. WinTypes'
    <2>1. \A p \in Objects : objects'[p].starts = objects[p].starts
        BY <1>2 DEF SameStart
    <2>2. handles' \subseteq Handles /\ inheritable' \subseteq handles'
        BY <1>0, <1>1 DEF WinTypes
    <2> QED BY <1>0, <1>1, <1>2, <2>1, <2>2, WinTyped
<1>4. OfOthers(o)
    BY <1>1 DEF OfOthers
<1>5. ASSUME NEW name \in Names, NEW end \in {0, 1}
      PROVE  LET h == <<o, objects[o].starts, name, end>> IN
             /\ h \in handles' <=> Owns(o, name, end)'
             /\ h \in inheritable' => Shows(o, name, end)'
    BY <1>1, StartEnds
<1> QED BY <1>1, <1>2, <1>3, <1>4, <1>5, StartStep

\* A start that hides an end owns it still.
LEMMA Hiding ==
    ASSUME WinInv, NEW o \in Objects, N!Starting(o), NEW kept, NEW next,
           next \in WinPlaces \ {"idle", "destroyed"}, N!Hides(o, kept, next),
           next \in {"openErr", "hideErr"} => ~objects[o].merge,
           next = "duplicate" => objects[o].merge,
           \A p, k, name, end : <<p, k, name, end>> \in kept => p = o /\ k = objects[o].starts,
           \A name \in Names, end \in {0, 1} :
               LET h == <<o, objects[o].starts, name, end>> IN
               /\ Owns(o, name, end) <=> Owns(o, name, end)'
               /\ Shows(o, name, end) /\ h \notin kept => Shows(o, name, end)'
    PROVE  WinInv'
<1>0. WinTypes
    BY DEF WinInv
<1>1. /\ N!At(o, next) /\ UNCHANGED <<handles, lost, crowded>>
      /\ inheritable' = inheritable \ kept
    BY DEF N!Hides
<1>2. /\ objects' \in [Objects -> ObjectRecords]
      /\ \A p \in Objects : p # o => objects'[p] = objects[p]
      /\ objects'[o].at = next /\ SameStart(objects[o], objects'[o])
      /\ SameResult(objects[o], objects'[o]) /\ SameChild(objects[o], objects'[o])
    BY <1>0, <1>1, Placing
<1>3. WinTypes'
    <2>1. \A p \in Objects : objects'[p].starts = objects[p].starts
        BY <1>2 DEF SameStart
    <2>2. handles' \subseteq Handles /\ inheritable' \subseteq handles'
        BY <1>0, <1>1 DEF WinTypes
    <2> QED BY <1>0, <1>1, <1>2, <2>1, <2>2, WinTyped
<1>4. OfOthers(o)
    BY <1>1 DEF OfOthers
<1>5. ASSUME NEW name \in Names, NEW end \in {0, 1}
      PROVE  LET h == <<o, objects[o].starts, name, end>> IN
             /\ h \in handles' <=> Owns(o, name, end)'
             /\ h \in inheritable' => Shows(o, name, end)'
    BY <1>1, StartEnds
<1> QED BY <1>1, <1>2, <1>3, <1>4, <1>5, StartStep

\* The steps of a start up to its launch open, hide or close the ends they should.
LEMMA WinStarts ==
    ASSUME WinInv, NEW o \in Objects,
           \/ N!openIn(o) \/ N!hideIn(o) \/ N!openOut(o) \/ N!hideOut(o)
           \/ N!openErr(o) \/ N!hideErr(o) \/ N!duplicate(o)
    PROVE  WinInv'
<1>0. /\ WinTypes /\ objects[o].merge \in BOOLEAN /\ objects[o].starts \in Nat
      /\ N!Starting(o) => ~objects[o].m_hasStarted
    BY Fielded DEF WinInv, Marked
<1> DEFINE Comes(next) == /\ objects'[o].at = next /\ objects'[o].merge = objects[o].merge
                          /\ objects'[o].m_hasStarted = objects[o].m_hasStarted
<1>a. ASSUME NEW next, next \in WinPlaces, N!At(o, next)  PROVE Comes(next)
    BY <1>0, <1>a, Placing DEF SameStart
<1>1. ASSUME N!openIn(o)  PROVE WinInv'
    <2>0. objects[o].at = "openIn" /\ N!Starting(o) /\ ~objects[o].m_hasStarted
        BY <1>0, <1>1 DEF N!openIn, N!Before, N!Starting
    <2>1. CASE N!Opens(o, N!Pipe(o, "in"), "hideIn")
        <3> DEFINE opened == N!Pipe(o, "in")
        <3>1. \A p, k, name, end : <<p, k, name, end>> \in opened => p = o /\ k = objects[o].starts
            BY PipeEnds
        <3>2. Comes("hideIn")
            BY <1>a, <2>1 DEF WinPlaces, N!Opens
        <3>3. opened \subseteq Handles
            BY <1>0, PipeHandles DEF Names
        <3>4. ASSUME NEW name \in Names, NEW end \in {0, 1}
              PROVE  <<o, objects[o].starts, name, end>> \in opened <=> name = "in"
            BY PipeEnds
        <3> HIDE DEF opened
        <3>5. \A name \in Names, end \in {0, 1} :
                  LET h == <<o, objects[o].starts, name, end>> IN
                     /\ Owns(o, name, end) \/ h \in opened <=> Owns(o, name, end)'
                     /\ Shows(o, name, end) \/ h \in opened => Shows(o, name, end)'
            BY <2>0, <3>2, <3>4 DEF Owns, Shows, Names, WinPlaces
        <3>6. /\ "hideIn" \in WinPlaces \ {"idle", "destroyed"}
              /\ "hideIn" \in {"openErr", "hideErr"} => ~objects[o].merge
              /\ "hideIn" = "duplicate" => objects[o].merge
            BY <2>1 DEF WinPlaces
        <3>7. N!Opens(o, opened, "hideIn")
            BY <2>1 DEF opened
        <3> QED BY <2>0, <3>1, <3>3, <3>5, <3>6, <3>7, Opening
    <2>2. CASE N!Fails(o, {})
        <3>1. \A name \in Names, end \in {0, 1} : Owns(o, name, end) => name \in {}
            BY <2>0 DEF Owns, Names
        <3> QED BY <2>0, <2>2, <3>1, Failing
    <2> QED BY <1>0, <1>1, <2>1, <2>2 DEF N!openIn
<1>2. ASSUME N!hideIn(o)  PROVE WinInv'
    <2>0. objects[o].at = "hideIn" /\ N!Starting(o) /\ ~objects[o].m_hasStarted
        BY <1>0, <1>2 DEF N!hideIn, N!Before, N!Starting
    <2>1. CASE N!Hides(o, N!End(o, "in", 1), "openOut")
        <3> DEFINE kept == N!End(o, "in", 1)
        <3>1. \A p, k, name, end : <<p, k, name, end>> \in kept => p = o /\ k = objects[o].starts
            BY PipeEnds
        <3>2. Comes("openOut")
            BY <1>a, <2>1 DEF WinPlaces, N!Hides
        <3>4. ASSUME NEW name \in Names, NEW end \in {0, 1}
              PROVE  <<o, objects[o].starts, name, end>> \in kept <=> name = "in" /\ end = 1
            BY PipeEnds
        <3> HIDE DEF kept
        <3>5. \A name \in Names, end \in {0, 1} :
                  LET h == <<o, objects[o].starts, name, end>> IN
                     /\ Owns(o, name, end) <=> Owns(o, name, end)'
                     /\ Shows(o, name, end) /\ h \notin kept => Shows(o, name, end)'
            BY <2>0, <3>2, <3>4 DEF Owns, Shows, Names, WinPlaces
        <3>6. /\ "openOut" \in WinPlaces \ {"idle", "destroyed"}
              /\ "openOut" \in {"openErr", "hideErr"} => ~objects[o].merge
              /\ "openOut" = "duplicate" => objects[o].merge
            BY <2>1 DEF WinPlaces
        <3>7. N!Hides(o, kept, "openOut")
            BY <2>1 DEF kept
        <3> QED BY <2>0, <3>1, <3>5, <3>6, <3>7, Hiding
    <2>2. CASE N!Fails(o, {"in"})
        <3>1. \A name \in Names, end \in {0, 1} : Owns(o, name, end) => name \in {"in"}
            BY <2>0 DEF Owns, Names
        <3> QED BY <2>0, <2>2, <3>1, Failing
    <2> QED BY <1>0, <1>2, <2>1, <2>2 DEF N!hideIn
<1>3. ASSUME N!openOut(o)  PROVE WinInv'
    <2>0. objects[o].at = "openOut" /\ N!Starting(o) /\ ~objects[o].m_hasStarted
        BY <1>0, <1>3 DEF N!openOut, N!Before, N!Starting
    <2>1. CASE N!Opens(o, N!Pipe(o, "out"), "hideOut")
        <3> DEFINE opened == N!Pipe(o, "out")
        <3>1. \A p, k, name, end : <<p, k, name, end>> \in opened => p = o /\ k = objects[o].starts
            BY PipeEnds
        <3>2. Comes("hideOut")
            BY <1>a, <2>1 DEF WinPlaces, N!Opens
        <3>3. opened \subseteq Handles
            BY <1>0, PipeHandles DEF Names
        <3>4. ASSUME NEW name \in Names, NEW end \in {0, 1}
              PROVE  <<o, objects[o].starts, name, end>> \in opened <=> name = "out"
            BY PipeEnds
        <3> HIDE DEF opened
        <3>5. \A name \in Names, end \in {0, 1} :
                  LET h == <<o, objects[o].starts, name, end>> IN
                     /\ Owns(o, name, end) \/ h \in opened <=> Owns(o, name, end)'
                     /\ Shows(o, name, end) \/ h \in opened => Shows(o, name, end)'
            BY <2>0, <3>2, <3>4 DEF Owns, Shows, Names, WinPlaces
        <3>6. /\ "hideOut" \in WinPlaces \ {"idle", "destroyed"}
              /\ "hideOut" \in {"openErr", "hideErr"} => ~objects[o].merge
              /\ "hideOut" = "duplicate" => objects[o].merge
            BY <2>1 DEF WinPlaces
        <3>7. N!Opens(o, opened, "hideOut")
            BY <2>1 DEF opened
        <3> QED BY <2>0, <3>1, <3>3, <3>5, <3>6, <3>7, Opening
    <2>2. CASE N!Fails(o, {"in"})
        <3>1. \A name \in Names, end \in {0, 1} : Owns(o, name, end) => name \in {"in"}
            BY <2>0 DEF Owns, Names
        <3> QED BY <2>0, <2>2, <3>1, Failing
    <2> QED BY <1>0, <1>3, <2>1, <2>2 DEF N!openOut
<1>4. ASSUME N!hideOut(o)  PROVE WinInv'
    <2>0. objects[o].at = "hideOut" /\ N!Starting(o) /\ ~objects[o].m_hasStarted
        BY <1>0, <1>4 DEF N!hideOut, N!Before, N!Starting
    <2>1. CASE N!Hides(o, N!End(o, "out", 0), "duplicate") /\ objects[o].merge
        <3> DEFINE kept == N!End(o, "out", 0)
        <3>1. \A p, k, name, end : <<p, k, name, end>> \in kept => p = o /\ k = objects[o].starts
            BY PipeEnds
        <3>2. Comes("duplicate")
            BY <1>a, <2>1 DEF WinPlaces, N!Hides
        <3>4. ASSUME NEW name \in Names, NEW end \in {0, 1}
              PROVE  <<o, objects[o].starts, name, end>> \in kept <=> name = "out" /\ end = 0
            BY PipeEnds
        <3> HIDE DEF kept
        <3>5. \A name \in Names, end \in {0, 1} :
                  LET h == <<o, objects[o].starts, name, end>> IN
                     /\ Owns(o, name, end) <=> Owns(o, name, end)'
                     /\ Shows(o, name, end) /\ h \notin kept => Shows(o, name, end)'
            BY <2>0, <2>1, <3>2, <3>4 DEF Owns, Shows, Names, WinPlaces
        <3>6. /\ "duplicate" \in WinPlaces \ {"idle", "destroyed"}
              /\ "duplicate" \in {"openErr", "hideErr"} => ~objects[o].merge
              /\ "duplicate" = "duplicate" => objects[o].merge
            BY <2>1 DEF WinPlaces
        <3>7. N!Hides(o, kept, "duplicate")
            BY <2>1 DEF kept
        <3> QED BY <2>0, <3>1, <3>5, <3>6, <3>7, Hiding
    <2>2. CASE N!Hides(o, N!End(o, "out", 0), "openErr") /\ ~objects[o].merge
        <3> DEFINE kept == N!End(o, "out", 0)
        <3>1. \A p, k, name, end : <<p, k, name, end>> \in kept => p = o /\ k = objects[o].starts
            BY PipeEnds
        <3>2. Comes("openErr")
            BY <1>a, <2>2 DEF WinPlaces, N!Hides
        <3>4. ASSUME NEW name \in Names, NEW end \in {0, 1}
              PROVE  <<o, objects[o].starts, name, end>> \in kept <=> name = "out" /\ end = 0
            BY PipeEnds
        <3> HIDE DEF kept
        <3>5. \A name \in Names, end \in {0, 1} :
                  LET h == <<o, objects[o].starts, name, end>> IN
                     /\ Owns(o, name, end) <=> Owns(o, name, end)'
                     /\ Shows(o, name, end) /\ h \notin kept => Shows(o, name, end)'
            BY <2>0, <2>2, <3>2, <3>4 DEF Owns, Shows, Names, WinPlaces
        <3>6. /\ "openErr" \in WinPlaces \ {"idle", "destroyed"}
              /\ "openErr" \in {"openErr", "hideErr"} => ~objects[o].merge
              /\ "openErr" = "duplicate" => objects[o].merge
            BY <2>2 DEF WinPlaces
        <3>7. N!Hides(o, kept, "openErr")
            BY <2>2 DEF kept
        <3> QED BY <2>0, <3>1, <3>5, <3>6, <3>7, Hiding
    <2>3. CASE N!Fails(o, {"in", "out"})
        <3>1. \A name \in Names, end \in {0, 1} : Owns(o, name, end) => name \in {"in", "out"}
            BY <2>0 DEF Owns, Names
        <3> QED BY <2>0, <2>3, <3>1, Failing
    <2> QED BY <1>0, <1>4, <2>1, <2>2, <2>3 DEF N!hideOut
<1>5. ASSUME N!openErr(o)  PROVE WinInv'
    <2>0. objects[o].at = "openErr" /\ N!Starting(o) /\ ~objects[o].m_hasStarted
        BY <1>0, <1>5 DEF N!openErr, N!Before, N!Starting
    <2>m. ~objects[o].merge
        BY <2>0 DEF WinInv, Marked
    <2>1. CASE N!Opens(o, N!Pipe(o, "err"), "hideErr")
        <3> DEFINE opened == N!Pipe(o, "err")
        <3>1. \A p, k, name, end : <<p, k, name, end>> \in opened => p = o /\ k = objects[o].starts
            BY PipeEnds
        <3>2. Comes("hideErr")
            BY <1>a, <2>1 DEF WinPlaces, N!Opens
        <3>3. opened \subseteq Handles
            BY <1>0, PipeHandles DEF Names
        <3>4. ASSUME NEW name \in Names, NEW end \in {0, 1}
              PROVE  <<o, objects[o].starts, name, end>> \in opened <=> name = "err"
            BY PipeEnds
        <3> HIDE DEF opened
        <3>5. \A name \in Names, end \in {0, 1} :
                  LET h == <<o, objects[o].starts, name, end>> IN
                     /\ Owns(o, name, end) \/ h \in opened <=> Owns(o, name, end)'
                     /\ Shows(o, name, end) \/ h \in opened => Shows(o, name, end)'
            BY <2>0, <2>m, <3>2, <3>4 DEF Owns, Shows, Names, WinPlaces
        <3>6. /\ "hideErr" \in WinPlaces \ {"idle", "destroyed"}
              /\ "hideErr" \in {"openErr", "hideErr"} => ~objects[o].merge
              /\ "hideErr" = "duplicate" => objects[o].merge
            BY <2>1, <2>m DEF WinPlaces
        <3>7. N!Opens(o, opened, "hideErr")
            BY <2>1 DEF opened
        <3> QED BY <2>0, <3>1, <3>3, <3>5, <3>6, <3>7, Opening
    <2>2. CASE N!Fails(o, {"in", "out"})
        <3>1. \A name \in Names, end \in {0, 1} : Owns(o, name, end) => name \in {"in", "out"}
            BY <2>0 DEF Owns, Names
        <3> QED BY <2>0, <2>2, <3>1, Failing
    <2> QED BY <1>0, <1>5, <2>1, <2>2 DEF N!openErr
<1>6. ASSUME N!hideErr(o)  PROVE WinInv'
    <2>0. objects[o].at = "hideErr" /\ N!Starting(o) /\ ~objects[o].m_hasStarted
        BY <1>0, <1>6 DEF N!hideErr, N!Before, N!Starting
    <2>m. ~objects[o].merge
        BY <2>0 DEF WinInv, Marked
    <2>1. CASE N!Hides(o, N!End(o, "err", 0), "launch")
        <3> DEFINE kept == N!End(o, "err", 0)
        <3>1. \A p, k, name, end : <<p, k, name, end>> \in kept => p = o /\ k = objects[o].starts
            BY PipeEnds
        <3>2. Comes("launch")
            BY <1>a, <2>1 DEF WinPlaces, N!Hides
        <3>4. ASSUME NEW name \in Names, NEW end \in {0, 1}
              PROVE  <<o, objects[o].starts, name, end>> \in kept <=> name = "err" /\ end = 0
            BY PipeEnds
        <3> HIDE DEF kept
        <3>5. \A name \in Names, end \in {0, 1} :
                  LET h == <<o, objects[o].starts, name, end>> IN
                     /\ Owns(o, name, end) <=> Owns(o, name, end)'
                     /\ Shows(o, name, end) /\ h \notin kept => Shows(o, name, end)'
            BY <2>0, <2>m, <3>2, <3>4 DEF Owns, Shows, Names, WinPlaces
        <3>6. /\ "launch" \in WinPlaces \ {"idle", "destroyed"}
              /\ "launch" \in {"openErr", "hideErr"} => ~objects[o].merge
              /\ "launch" = "duplicate" => objects[o].merge
            BY <2>1, <2>m DEF WinPlaces
        <3>7. N!Hides(o, kept, "launch")
            BY <2>1 DEF kept
        <3> QED BY <2>0, <3>1, <3>5, <3>6, <3>7, Hiding
    <2>2. CASE N!Fails(o, {"in", "out", "err"})
        <3>1. \A name \in Names, end \in {0, 1} : Owns(o, name, end) => name \in {"in", "out", "err"}
            BY <2>0 DEF Owns, Names
        <3> QED BY <2>0, <2>2, <3>1, Failing
    <2> QED BY <1>0, <1>6, <2>1, <2>2 DEF N!hideErr
<1>7. ASSUME N!duplicate(o)  PROVE WinInv'
    <2>0. objects[o].at = "duplicate" /\ N!Starting(o) /\ ~objects[o].m_hasStarted
        BY <1>0, <1>7 DEF N!duplicate, N!Before, N!Starting
    <2>m. objects[o].merge
        BY <2>0 DEF WinInv, Marked
    <2>1. CASE N!Opens(o, N!End(o, "err", 1), "launch")
        <3> DEFINE opened == N!End(o, "err", 1)
        <3>1. \A p, k, name, end : <<p, k, name, end>> \in opened => p = o /\ k = objects[o].starts
            BY PipeEnds
        <3>2. Comes("launch")
            BY <1>a, <2>1 DEF WinPlaces, N!Opens
        <3>3. opened \subseteq Handles
            BY <1>0, PipeHandles DEF Names
        <3>4. ASSUME NEW name \in Names, NEW end \in {0, 1}
              PROVE  <<o, objects[o].starts, name, end>> \in opened <=> name = "err" /\ end = 1
            BY PipeEnds
        <3> HIDE DEF opened
        <3>5. \A name \in Names, end \in {0, 1} :
                  LET h == <<o, objects[o].starts, name, end>> IN
                     /\ Owns(o, name, end) \/ h \in opened <=> Owns(o, name, end)'
                     /\ Shows(o, name, end) \/ h \in opened => Shows(o, name, end)'
            BY <2>0, <2>m, <3>2, <3>4 DEF Owns, Shows, Names, WinPlaces
        <3>6. /\ "launch" \in WinPlaces \ {"idle", "destroyed"}
              /\ "launch" \in {"openErr", "hideErr"} => ~objects[o].merge
              /\ "launch" = "duplicate" => objects[o].merge
            BY <2>1, <2>m DEF WinPlaces
        <3>7. N!Opens(o, opened, "launch")
            BY <2>1 DEF opened
        <3> QED BY <2>0, <3>1, <3>3, <3>5, <3>6, <3>7, Opening
    <2>2. CASE N!Fails(o, {"in", "out"})
        <3>1. \A name \in Names, end \in {0, 1} : Owns(o, name, end) => name \in {"in", "out"}
            BY <2>0 DEF Owns, Names
        <3> QED BY <2>0, <2>2, <3>1, Failing
    <2> QED BY <1>0, <1>7, <2>1, <2>2 DEF N!duplicate
<1> QED BY <1>1, <1>2, <1>3, <1>4, <1>5, <1>6, <1>7

\* What is marked of the other objects stays.
LEMMA OthersMarked ==
    ASSUME Marked, NEW p \in Objects, objects'[p] = objects[p]
    PROVE  /\ N!Starting(p)' => ~objects'[p].m_hasStarted /\ objects'[p].starts > 0
           /\ objects'[p].at \in {"openErr", "hideErr"} => ~objects'[p].merge
           /\ objects'[p].at = "duplicate" => objects'[p].merge
           /\ objects'[p].m_hasStopped =>
                  /\ objects'[p].m_hasStarted /\ objects'[p].child = "exited"
                  /\ objects'[p].m_return = objects'[p].code
BY DEF Marked, N!Starting

\* A new start has no handle yet.
LEMMA WinExec ==
    ASSUME WinInv, NEW o \in Objects, NEW merge \in BOOLEAN, N!internalExec(o, merge)
    PROVE  WinInv'
<1>0. WinTypes
    BY DEF WinInv
<1> DEFINE old == objects[o]
           new == [old EXCEPT !.at = "openIn", !.merge = merge, !.starts = old.starts + 1]
<1>1. /\ objects[o].at = "idle" /\ ~objects[o].m_hasStarted /\ objects[o].starts < MaxStarts
      /\ objects' = [objects EXCEPT ![o] = new]
      /\ UNCHANGED <<handles, inheritable, lost, crowded>>
    BY DEF N!internalExec, N!Before
<1>2. Shaped(old) /\ old.starts \in Nat
    BY <1>0, Fielded
<1> HIDE DEF old
<1>3. new = [old EXCEPT !.at = "openIn", !.merge = merge, !.starts = old.starts + 1]
    OBVIOUS
<1> HIDE DEF new
<1>4. Shaped(new) /\ new.at = "openIn" /\ new.merge = merge /\ new.starts = old.starts + 1
    BY <1>2, <1>3 DEF Shaped
<1>5. SameResult(old, new) /\ SameChild(old, new) /\ new.m_hasStarted = old.m_hasStarted
    BY <1>2, <1>3 DEF Shaped, SameResult, SameChild
<1>6. new \in ObjectRecords
    <2>1. new.at \in WinPlaces /\ new.starts \in Nat
        BY <1>2, <1>4 DEF WinPlaces
    <2> QED BY <1>0, <1>4, <1>5, <2>1, Fielded, ShapedRecord DEF SameResult, SameChild, old
<1>7. /\ objects' \in [Objects -> ObjectRecords] /\ objects'[o] = new
      /\ \A p \in Objects : p # o => objects'[p] = objects[p]
    BY <1>0, <1>1, <1>6, OneChanged
<1>8. WinTypes'
    <2>1. \A p \in Objects : objects'[p].starts <= MaxStarts
        BY <1>0, <1>1, <1>2, <1>4, <1>7, PrimitivesAssumption DEF WinTypes, old
    <2> QED BY <1>0, <1>1, <1>7, <2>1 DEF WinTypes
<1>9. Marked'
    <2>1. /\ ~new.m_hasStarted /\ new.starts > 0 /\ new.at = "openIn" /\ ~new.m_hasStopped
        BY <1>1, <1>2, <1>4, <1>5 DEF WinInv, Marked, SameResult, old
    <2>2. Marked
        BY DEF WinInv
    <2> QED BY <1>7, <2>1, <2>2, OthersMarked DEF Marked
<1>10. \A p, k : Ended(p, k)' = Ended(p, k)
    BY <1>1 DEF Ended
<1>11. \A p, k, name, end : Left(p, k, name, end)' = Left(p, k, name, end)
    BY <1>1 DEF Left
<1>12. Losses'
    <2>1. ASSUME NEW p \in Objects, NEW k \in Nat, Ended(p, k)
          PROVE  /\ k <= objects'[p].starts
                 /\ k = objects'[p].starts => ~N!Starting(p)' /\ ~objects'[p].m_hasStarted
        <3>1. /\ k <= objects[p].starts
              /\ k = objects[p].starts => ~N!Starting(p) /\ ~objects[p].m_hasStarted
            BY <2>1 DEF WinInv, Losses
        <3>2. CASE p = o
            BY <1>2, <1>4, <1>7, <3>1, <3>2 DEF old
        <3>3. CASE p # o
            BY <1>7, <3>1, <3>3, SameOwner
        <3> QED BY <3>2, <3>3
    <2> QED BY <1>10, <2>1 DEF Losses
<1>13. Opened'
    <2>1. ASSUME NEW p \in Objects, NEW k \in Nat, NEW name \in Names, NEW end \in {0, 1}
          PROVE  /\ Left(p, k, name, end)' => <<p, k, name, end>> \in handles'
                 /\ <<p, k, name, end>> \in handles' =>
                        Left(p, k, name, end)' \/ (k = objects'[p].starts /\ Owns(p, name, end)')
                 /\ k = objects'[p].starts /\ Needs(p, name, end)' => <<p, k, name, end>> \in handles'
                 /\ <<p, k, name, end>> \in inheritable' =>
                        Left(p, k, name, end)' \/ (k = objects'[p].starts /\ Shows(p, name, end)')
        <3>1. /\ Left(p, k, name, end) => <<p, k, name, end>> \in handles
              /\ <<p, k, name, end>> \in handles =>
                     Left(p, k, name, end) \/ (k = objects[p].starts /\ Owns(p, name, end))
              /\ k = objects[p].starts /\ Needs(p, name, end) => <<p, k, name, end>> \in handles
              /\ <<p, k, name, end>> \in inheritable =>
                     Left(p, k, name, end) \/ (k = objects[p].starts /\ Shows(p, name, end))
            BY DEF WinInv, Opened
        <3>2. CASE p = o
            <4>1. ~Owns(o, name, end)
                BY <1>1 DEF Owns
            <4>2. ~Shows(o, name, end)
                BY <1>1 DEF Shows
            <4>3. ~Needs(o, name, end)'
                BY <1>4, <1>7 DEF Needs, Owns
            <4> QED BY <1>1, <1>11, <3>1, <3>2, <4>1, <4>2, <4>3
        <3>3. CASE p # o
            BY <1>1, <1>7, <1>11, <3>1, <3>3, SameOwner
        <3> QED BY <3>2, <3>3
    <2> QED BY <2>1, Zenon DEF Opened
<1>14. Gifts'
    <2>1. ASSUME NEW p \in Objects, NEW q \in Objects, NEW k \in Nat, NEW name \in Names,
                 NEW end \in {0, 1}, <<q, k, name, end>> \in objects'[p].given
          PROVE  /\ k <= objects'[q].starts
                 /\ k = objects'[q].starts =>
                        IF q = p THEN (end = 0 <=> name = "in") ELSE q \in crowded' \/ Ended(q, k)'
        <3>1. objects'[p].given = objects[p].given
            BY <1>5, <1>7 DEF SameChild, old
        <3>2. /\ k <= objects[q].starts
              /\ k = objects[q].starts =>
                    IF q = p THEN (end = 0 <=> name = "in") ELSE q \in crowded \/ Ended(q, k)
            BY <2>1, <3>1 DEF WinInv, Gifts
        <3>3. CASE q = o
            BY <1>2, <1>4, <1>7, <3>2, <3>3 DEF old
        <3>4. CASE q # o
            BY <1>1, <1>7, <1>10, <3>2, <3>4
        <3> QED BY <3>3, <3>4
    <2> QED BY <2>1, Zenon DEF Gifts
<1> QED BY <1>8, <1>9, <1>12, <1>13, <1>14 DEF WinInv

\* CreateProcess() gives the child its own ends, and what starts that overlap
\* or were lost have left inheritable.
LEMMA WinLaunch ==
    ASSUME WinInv, NEW o \in Objects, N!launchProcess(o)
    PROVE  WinInv'
<1>0. WinTypes
    BY DEF WinInv
<1> DEFINE old == objects[o]
<1>1. /\ objects[o].at = "launch" /\ N!Starting(o) /\ UNCHANGED <<handles, inheritable>>
    BY DEF N!launchProcess, N!Before, N!Starting
<1>2. /\ ~Ended(o, objects[o].starts) /\ ~objects[o].m_hasStarted /\ ~objects[o].m_hasStopped
      /\ objects[o].starts \in Nat /\ objects[o].starts > 0
    BY <1>1, StartEnds
<1>3. ASSUME objects' = [objects EXCEPT ![o].at = "launched", ![o].child = "runs",
                                        ![o].given = inheritable],
             crowded' = crowded \cup (LET others == {p \in Objects \ {o} : N!Starting(p)} IN
                                      IF others = {} THEN {} ELSE others \cup {o}),
             UNCHANGED lost
      PROVE  WinInv'
    <2> DEFINE new == [old EXCEPT !.at = "launched", !.child = "runs", !.given = inheritable]
    <2>1. objects' = [objects EXCEPT ![o] = new]
        BY <1>3
    <2>2. Shaped(old)
        BY <1>0, Fielded
    <2> HIDE DEF old
    <2>3. new = [old EXCEPT !.at = "launched", !.child = "runs", !.given = inheritable]
        OBVIOUS
    <2> HIDE DEF new
    <2>4. /\ Shaped(new) /\ new.at = "launched" /\ new.child = "runs" /\ new.given = inheritable
          /\ SameStart(old, new) /\ SameResult(old, new)
        BY <2>2, <2>3 DEF Shaped, SameStart, SameResult
    <2>5. new \in ObjectRecords
        <3>1. new.at \in WinPlaces /\ new.child \in {"none", "runs", "exited"}
              /\ new.given \in SUBSET Handles
            BY <1>0, <2>4 DEF WinPlaces, WinTypes
        <3> QED BY <1>0, <2>4, <3>1, Fielded, ShapedRecord DEF SameResult, SameStart, old
    <2>6. /\ objects' \in [Objects -> ObjectRecords] /\ objects'[o] = new
          /\ \A p \in Objects : p # o => objects'[p] = objects[p]
        BY <1>0, <2>1, <2>5, OneChanged
    <2>7. objects'[o].starts = objects[o].starts /\ objects'[o].merge = objects[o].merge
          /\ ~objects'[o].m_hasStarted /\ ~objects'[o].m_hasStopped /\ objects'[o].at = "launched"
        BY <1>2, <2>4, <2>6 DEF SameStart, SameResult, old
    <2>8. \A p \in Objects : objects'[p].starts = objects[p].starts
        BY <2>6, <2>7
    <2>9. crowded' \subseteq Objects /\ crowded \subseteq crowded'
        BY <1>0, <1>3 DEF WinTypes
    <2>10. WinTypes'
        BY <1>0, <1>1, <1>3, <2>6, <2>8, <2>9 DEF WinTypes
    <2>11. Marked'
        <3>1. Marked
            BY DEF WinInv
        <3> QED BY <1>2, <2>6, <2>7, <3>1, OthersMarked DEF Marked
    <2>12. Losses' /\ Opened'
        <3>1. OfOthers(o)
            BY <1>1 DEF OfOthers
        <3>2. \A name, end : Left(o, objects[o].starts, name, end)' = Left(o, objects'[o].starts, name, end)
            BY <1>3, <2>7 DEF Left
        <3>3. ASSUME NEW name \in Names, NEW end \in {0, 1}
              PROVE  /\ Owns(o, name, end)' = Owns(o, name, end)
                     /\ Shows(o, name, end)' = Shows(o, name, end)
            BY <1>1, <2>7 DEF Owns, Shows, Names, WinPlaces
        <3>4. ASSUME NEW name \in Names, NEW end \in {0, 1}
              PROVE  /\ ~Left(o, objects[o].starts, name, end)
                     /\ <<o, objects[o].starts, name, end>> \in handles <=> Owns(o, name, end)
                     /\ <<o, objects[o].starts, name, end>> \in inheritable => Shows(o, name, end)
            BY <1>1, StartEnds
        <3>5. \A name, end : Needs(o, name, end)' => Owns(o, name, end)'
            BY DEF Needs
        <3>5a. ASSUME NEW name \in Names, NEW end \in {0, 1}
               PROVE  LET h == <<o, objects'[o].starts, name, end>>
                          left == Left(o, objects[o].starts, name, end)' IN
                      /\ left => h \in handles'
                      /\ h \in handles' => left \/ Owns(o, name, end)'
                      /\ Needs(o, name, end)' => h \in handles'
                      /\ h \in inheritable' => left \/ Shows(o, name, end)'
            <4>1. ~Left(o, objects[o].starts, name, end)'
                BY <2>7, <3>2, <3>4
            <4> QED BY <1>1, <2>7, <3>3, <3>4, <3>5, <4>1
        <3>6. OwnEnds(o)'
            BY <2>7, <3>2, <3>5a DEF OwnEnds
        <3> QED BY <1>2, <1>3, <2>6, <2>7, <3>1, <3>6, OwnStep
    <2>13. Gifts'
        <3>1. \A p, k : Ended(p, k)' = Ended(p, k)
            BY <1>3 DEF Ended
        <3>2. ASSUME NEW p \in Objects, NEW q \in Objects, NEW k \in Nat, NEW name \in Names,
                     NEW end \in {0, 1}, <<q, k, name, end>> \in objects'[p].given
              PROVE  /\ k <= objects'[q].starts
                     /\ k = objects'[q].starts =>
                            IF q = p THEN (end = 0 <=> name = "in")
                            ELSE q \in crowded' \/ Ended(q, k)'
            <4>1. CASE p # o
                <5>1. /\ k <= objects[q].starts
                      /\ k = objects[q].starts =>
                            IF q = p THEN (end = 0 <=> name = "in") ELSE q \in crowded \/ Ended(q, k)
                    BY <2>6, <3>2, <4>1 DEF WinInv, Gifts
                <5> QED BY <2>8, <2>9, <3>1, <5>1
            <4>2. CASE p = o
                <5>1. <<q, k, name, end>> \in inheritable
                    BY <2>4, <2>6, <3>2, <4>2
                <5>2. Left(q, k, name, end) \/ (k = objects[q].starts /\ Shows(q, name, end))
                    BY <5>1 DEF WinInv, Opened
                <5>3. Left(q, k, name, end) => Ended(q, k)
                    BY DEF Left, Ended
                <5>4. objects[q].starts \in Nat
                    BY <1>0, Fielded
                <5>5. k <= objects[q].starts
                    BY <5>2, <5>3, <5>4 DEF WinInv, Losses
                <5>6. CASE q = o
                    <6>1. k = objects[q].starts => Shows(q, name, end)
                        BY <1>2, <5>2, <5>3, <5>6
                    <6>2. Shows(o, name, end) => (end = 0 <=> name = "in")
                        BY <1>1 DEF Shows, Names
                    <6> QED BY <2>8, <4>2, <5>5, <5>6, <6>1, <6>2
                <5>7. CASE q # o
                    <6>1. Shows(q, name, end) => N!Starting(q)
                        BY DEF Shows, N!Starting
                    <6>2. N!Starting(q) => q \in crowded'
                        BY <1>3, <5>7
                    <6> QED BY <2>8, <3>1, <4>2, <5>2, <5>3, <5>5, <5>7, <6>1, <6>2
                <5> QED BY <5>6, <5>7
            <4> QED BY <4>1, <4>2
        <3> QED BY <3>2, Zenon DEF Gifts
    <2> QED BY <2>10, <2>11, <2>12, <2>13 DEF WinInv
<1>4. ASSUME N!At(o, "idle"), lost' = lost \cup {<<o, objects[o].starts, objects[o].merge>>},
             UNCHANGED crowded
      PROVE  WinInv'
    <2>1. /\ objects' \in [Objects -> ObjectRecords]
          /\ \A p \in Objects : p # o => objects'[p] = objects[p]
          /\ objects'[o].at = "idle" /\ SameStart(objects[o], objects'[o])
          /\ SameResult(objects[o], objects'[o]) /\ SameChild(objects[o], objects'[o])
        BY <1>0, <1>4, Placing DEF WinPlaces
    <2>2. \A p \in Objects : objects'[p].starts = objects[p].starts
                             /\ objects'[p].given = objects[p].given
        BY <2>1 DEF SameStart, SameChild
    <2>3. objects[o].merge \in BOOLEAN
        BY <1>0, Fielded
    <2>4. WinTypes'
        <3>1. objects[o].starts \in 1..MaxStarts
            BY <1>0, <1>2, PrimitivesAssumption DEF WinTypes
        <3>2. <<o, objects[o].starts, objects[o].merge>> \in Objects \X (1..MaxStarts) \X BOOLEAN
            BY <2>3, <3>1
        <3>3. lost' \subseteq Objects \X (1..MaxStarts) \X BOOLEAN
            BY <1>0, <1>4, <3>2 DEF WinTypes
        <3> QED BY <1>0, <1>1, <1>4, <2>1, <2>2, <3>3 DEF WinTypes
    <2>5. ~objects'[o].m_hasStarted /\ ~objects'[o].m_hasStopped /\ ~N!Starting(o)'
        BY <1>2, <2>1 DEF SameStart, SameResult, N!Starting
    <2>6. Marked'
        <3>1. Marked
            BY DEF WinInv
        <3> QED BY <2>1, <2>5, <3>1, OthersMarked DEF Marked
    <2>7. \A p, k : /\ Ended(p, k) => Ended(p, k)'
                    /\ Ended(p, k)' => Ended(p, k) \/ (p = o /\ k = objects[o].starts)
        BY <1>4 DEF Ended
    <2>8. Losses'
        <3>1. ASSUME NEW p \in Objects, NEW k \in Nat, Ended(p, k)'
              PROVE  /\ k <= objects'[p].starts
                     /\ k = objects'[p].starts => ~N!Starting(p)' /\ ~objects'[p].m_hasStarted
            <4>1. CASE p = o /\ k = objects[o].starts
                BY <2>2, <2>5, <4>1
            <4>2. CASE ~(p = o /\ k = objects[o].starts)
                <5>1. /\ k <= objects[p].starts
                      /\ k = objects[p].starts => ~N!Starting(p) /\ ~objects[p].m_hasStarted
                    BY <2>7, <3>1, <4>2 DEF WinInv, Losses
                <5> QED BY <2>1, <2>2, <2>5, <5>1, SameOwner
            <4> QED BY <4>1, <4>2
        <3> QED BY <3>1 DEF Losses
    <2>9. Opened'
        <3>1. ASSUME NEW p \in Objects, NEW k \in Nat, NEW name \in Names, NEW end \in {0, 1}
              PROVE  /\ Left(p, k, name, end)' => <<p, k, name, end>> \in handles'
                     /\ <<p, k, name, end>> \in handles' =>
                            Left(p, k, name, end)' \/ (k = objects'[p].starts /\ Owns(p, name, end)')
                     /\ k = objects'[p].starts /\ Needs(p, name, end)' =>
                            <<p, k, name, end>> \in handles'
                     /\ <<p, k, name, end>> \in inheritable' =>
                            Left(p, k, name, end)' \/ (k = objects'[p].starts /\ Shows(p, name, end)')
            <4>1. CASE p = o /\ k = objects[o].starts
                <5>1. /\ ~Left(p, k, name, end)
                      /\ <<p, k, name, end>> \in handles <=> Owns(o, name, end)
                      /\ <<p, k, name, end>> \in inheritable => Shows(o, name, end)
                    BY <1>1, <4>1, StartEnds
                <5>2. \A merge : <<p, k, merge>> \in lost' <=> merge = objects[o].merge
                    BY <1>2, <1>4, <4>1 DEF Ended, WinTypes, WinInv
                <5>3. Left(p, k, name, end)' <=> (name = "err" /\ end = 0 => ~objects[o].merge)
                    BY <2>3, <5>2 DEF Left
                <5>4. Owns(o, name, end) <=> (name = "err" /\ end = 0 => ~objects[o].merge)
                    BY <1>1 DEF Owns, Names, WinPlaces
                <5>5. Shows(o, name, end) => Owns(o, name, end)
                    BY DEF Shows
                <5>6. ~Needs(o, name, end)'
                    BY <2>1, <2>5 DEF Needs, Owns
                <5> QED BY <1>1, <4>1, <5>1, <5>3, <5>4, <5>5, <5>6
            <4>2. CASE ~(p = o /\ k = objects[o].starts)
                <5>1. Left(p, k, name, end)' <=> Left(p, k, name, end)
                    BY <1>4, <4>2 DEF Left
                <5>2. /\ Left(p, k, name, end) => <<p, k, name, end>> \in handles
                      /\ <<p, k, name, end>> \in handles =>
                             Left(p, k, name, end) \/ (k = objects[p].starts /\ Owns(p, name, end))
                      /\ k = objects[p].starts /\ Needs(p, name, end) => <<p, k, name, end>> \in handles
                      /\ <<p, k, name, end>> \in inheritable =>
                             Left(p, k, name, end) \/ (k = objects[p].starts /\ Shows(p, name, end))
                    BY DEF WinInv, Opened
                <5> QED BY <1>1, <2>1, <2>2, <4>2, <5>1, <5>2, SameOwner
            <4> QED BY <4>1, <4>2
        <3> QED BY <3>1, Zenon DEF Opened
    <2>10. Gifts'
        <3>1. lost \subseteq lost' /\ crowded \subseteq crowded'
            BY <1>4
        <3> QED BY <2>2, <3>1, SameGifts
    <2> QED BY <2>4, <2>6, <2>8, <2>9, <2>10 DEF WinInv
<1> QED BY <1>3, <1>4 DEF N!launchProcess

\* The rest of a start that has launched its child.
LEMMA WinFinish ==
    ASSUME WinInv, NEW o \in Objects, N!finishExec(o)
    PROVE  WinInv'
<1>0. WinTypes /\ Marked
    BY DEF WinInv
<1> DEFINE old == objects[o]
           new == [old EXCEPT !.at = "idle", !.m_hasStarted = TRUE]
           childs == N!End(o, "in", 0) \cup N!End(o, "out", 1) \cup N!End(o, "err", 1)
<1>1. /\ objects[o].at = "launched" /\ N!Starting(o)
      /\ objects' = [objects EXCEPT ![o] = new]
      /\ handles' = handles \ childs /\ inheritable' = inheritable \ childs
      /\ UNCHANGED <<lost, crowded>>
    BY DEF N!finishExec, N!Before, N!Starting
<1>2. Shaped(old)
    BY <1>0, Fielded
<1>s. /\ ~Ended(o, objects[o].starts) /\ ~objects[o].m_hasStopped
      /\ objects[o].starts \in Nat /\ objects[o].starts > 0
      /\ \A name \in Names, end \in {0, 1} :
             LET h == <<o, objects[o].starts, name, end>> IN
             /\ ~Left(o, objects[o].starts, name, end)
             /\ h \in handles <=> Owns(o, name, end)
             /\ h \in inheritable => Shows(o, name, end)
    BY <1>1, StartEnds
<1>c. \A p, k, name, end : <<p, k, name, end>> \in childs <=>
          /\ p = o /\ k = objects[o].starts
          /\ \/ name = "in" /\ end = 0
             \/ name = "out" /\ end = 1
             \/ name = "err" /\ end = 1
    BY PipeEnds
<1> HIDE DEF old, childs
<1>3. new = [old EXCEPT !.at = "idle", !.m_hasStarted = TRUE]
    OBVIOUS
<1> HIDE DEF new
<1>4. /\ Shaped(new) /\ new.at = "idle" /\ new.m_hasStarted = TRUE
      /\ new.starts = old.starts /\ new.merge = old.merge
      /\ SameResult(old, new) /\ SameChild(old, new)
    BY <1>2, <1>3 DEF Shaped, SameResult, SameChild
<1>5. new \in ObjectRecords
    <2>1. new.at \in WinPlaces /\ new.m_hasStarted \in BOOLEAN
        BY <1>4 DEF WinPlaces
    <2> QED BY <1>0, <1>4, <2>1, Fielded, ShapedRecord DEF SameResult, SameChild, old
<1>6. /\ objects' \in [Objects -> ObjectRecords] /\ objects'[o] = new
      /\ \A p \in Objects : p # o => objects'[p] = objects[p]
    BY <1>0, <1>1, <1>5, OneChanged
<1>7. /\ objects'[o].at = "idle" /\ objects'[o].m_hasStarted = TRUE
      /\ objects'[o].starts = objects[o].starts /\ objects'[o].merge = objects[o].merge
      /\ ~objects'[o].m_hasStopped /\ objects'[o].given = objects[o].given
    BY <1>4, <1>6, <1>s DEF SameResult, SameChild, old
<1>8. WinTypes'
    <2>1. handles' \subseteq Handles /\ inheritable' \subseteq handles'
        BY <1>0, <1>1 DEF WinTypes
    <2>2. \A p \in Objects : objects'[p].starts = objects[p].starts
        BY <1>6, <1>7
    <2> QED BY <1>0, <1>1, <1>6, <2>1, <2>2, WinTyped
<1>9. Marked'
    <2>1. ~N!Starting(o)'
        BY <1>7 DEF N!Starting
    <2> QED BY <1>0, <1>6, <1>7, <2>1, OthersMarked DEF Marked
<1>10. OfOthers(o)
    BY <1>1, <1>c DEF OfOthers
<1>11. ASSUME NEW name \in Names, NEW end \in {0, 1}
       PROVE  LET h == <<o, objects'[o].starts, name, end>>
                  left == Left(o, objects[o].starts, name, end)' IN
              /\ left => h \in handles'
              /\ h \in handles' => left \/ Owns(o, name, end)'
              /\ Needs(o, name, end)' => h \in handles'
              /\ h \in inheritable' => left \/ Shows(o, name, end)'
    <2>1. Left(o, objects[o].starts, name, end)' = Left(o, objects'[o].starts, name, end)
        BY <1>1 DEF Left
    <2>2. ~Left(o, objects[o].starts, name, end)'
        BY <1>7, <1>s, <2>1
    <2>3. Needs(o, name, end)' => Owns(o, name, end)'
        BY DEF Needs
    <2> DEFINE child == \/ name = "in" /\ end = 0
                        \/ name = "out" /\ end = 1
                        \/ name = "err" /\ end = 1
    <2>4. Owns(o, name, end)' <=> Owns(o, name, end) /\ ~child
        BY <1>1, <1>7 DEF Owns, Names, WinPlaces
    <2>5. Shows(o, name, end) => child
        BY <1>1 DEF Shows
    <2>6. <<o, objects[o].starts, name, end>> \in childs <=> child
        BY <1>c
    <2> HIDE DEF child
    <2>7. <<o, objects[o].starts, name, end>> \in handles' <=> Owns(o, name, end)'
        BY <1>1, <1>s, <2>4, <2>6
    <2>8. <<o, objects[o].starts, name, end>> \notin inheritable'
        BY <1>1, <1>s, <2>5, <2>6
    <2>9. <<o, objects'[o].starts, name, end>> = <<o, objects[o].starts, name, end>>
        BY <1>7
    <2> QED BY <2>2, <2>3, <2>7, <2>8, <2>9
<1>12. OwnEnds(o)'
    BY <1>11 DEF OwnEnds
<1>13. Losses' /\ Opened'
    BY <1>1, <1>6, <1>7, <1>10, <1>12, <1>s, OwnStep
<1>14. Gifts'
    <2>1. \A p \in Objects : /\ objects'[p].given \subseteq objects[p].given
                             /\ objects'[p].starts = objects[p].starts
        BY <1>6, <1>7
    <2> QED BY <1>1, <2>1, SameGifts
<1> QED BY <1>8, <1>9, <1>13, <1>14 DEF WinInv

\* What an object owns, needs and shows once more, and what was left.
LEMMA Ends ==
    ASSUME WinInv, NEW o \in Objects, NEW name \in Names, NEW end \in {0, 1}
    PROVE  LET h == <<o, objects[o].starts, name, end>>
               left == Left(o, objects[o].starts, name, end) IN
           /\ left => h \in handles
           /\ h \in handles => left \/ Owns(o, name, end)
           /\ Needs(o, name, end) => h \in handles
           /\ h \in inheritable => left \/ Shows(o, name, end)
           /\ left => ~N!Starting(o) /\ ~objects[o].m_hasStarted
<1>1. objects[o].starts \in Nat
    BY Fielded DEF WinInv
<1>2. Left(o, objects[o].starts, name, end) => Ended(o, objects[o].starts)
    BY DEF Left, Ended
<1> QED BY <1>1, <1>2 DEF WinInv, Opened, Losses

\* The child ends, or is waited for: nothing is opened or closed in the parent.
LEMMA WinChild ==
    ASSUME WinInv, NEW o \in Objects, N!exit(o) \/ N!waitFor(o)
    PROVE  WinInv'
<1>0. WinTypes /\ Marked
    BY DEF WinInv
<1> DEFINE old == objects[o]
<1>2. Shaped(old)
    BY <1>0, Fielded
<1>n. UNCHANGED <<handles, inheritable, lost, crowded>>
    BY DEF N!exit, N!waitFor
<1>3. ASSUME NEW new, Shaped(new), new.at = old.at, SameStart(old, new),
             new.m_hasStopped \in BOOLEAN, new.m_return \in Codes \cup {0},
             new.child \in {"none", "runs", "exited"}, new.code \in Codes \cup {0},
             new.given \subseteq old.given,
             new.m_hasStopped => /\ new.m_hasStarted /\ new.child = "exited"
                                 /\ new.m_return = new.code,
             objects' = [objects EXCEPT ![o] = new]
      PROVE  WinInv'
    <2>1. new \in ObjectRecords
        <3>1. new.given \in SUBSET Handles
            BY <1>0, <1>3, Fielded
        <3> QED BY <1>0, <1>3, <3>1, Fielded, ShapedRecord DEF SameStart
    <2>2. /\ objects' \in [Objects -> ObjectRecords] /\ objects'[o] = new
          /\ \A p \in Objects : p # o => objects'[p] = objects[p]
        BY <1>0, <1>3, <2>1, OneChanged
    <2>3. \A p \in Objects : /\ objects'[p].given \subseteq objects[p].given
                             /\ objects'[p].starts = objects[p].starts
                             /\ objects'[p].at = objects[p].at
                             /\ objects'[p].merge = objects[p].merge
                             /\ objects'[p].m_hasStarted = objects[p].m_hasStarted
        BY <1>3, <2>2 DEF SameStart
    <2>4. WinTypes'
        <3>1. handles' \subseteq Handles /\ inheritable' \subseteq handles'
            BY <1>0, <1>n DEF WinTypes
        <3> QED BY <1>0, <1>n, <2>2, <2>3, <3>1, WinTyped
    <2>5. Marked'
        <3>1. /\ N!Starting(o)' => ~objects'[o].m_hasStarted /\ objects'[o].starts > 0
              /\ objects'[o].at \in {"openErr", "hideErr"} => ~objects'[o].merge
              /\ objects'[o].at = "duplicate" => objects'[o].merge
            BY <1>0, <2>3 DEF Marked, N!Starting
        <3>2. objects'[o].m_hasStopped => /\ objects'[o].m_hasStarted /\ objects'[o].child = "exited"
                                          /\ objects'[o].m_return = objects'[o].code
            BY <1>3, <2>2
        <3> QED BY <1>0, <2>2, <3>1, <3>2, OthersMarked DEF Marked
    <2>6. Losses' /\ Opened'
        <3>1. OfOthers(o)
            BY <1>n DEF OfOthers
        <3>2. ASSUME NEW name \in Names, NEW end \in {0, 1}
              PROVE  LET h == <<o, objects'[o].starts, name, end>>
                         left == Left(o, objects[o].starts, name, end)' IN
                     /\ left => h \in handles'
                     /\ h \in handles' => left \/ Owns(o, name, end)'
                     /\ Needs(o, name, end)' => h \in handles'
                     /\ h \in inheritable' => left \/ Shows(o, name, end)'
            <4>1. Left(o, objects[o].starts, name, end)' = Left(o, objects[o].starts, name, end)
                BY <1>n, <2>3 DEF Left
            <4>2. Owns(o, name, end)' = Owns(o, name, end)
                BY <2>3 DEF Owns
            <4>3. Needs(o, name, end)' = Needs(o, name, end)
                BY <2>3, <4>2 DEF Needs
            <4>4. Shows(o, name, end)' = Shows(o, name, end)
                BY <2>3, <4>2 DEF Shows
            <4> QED BY <1>n, <2>3, <4>1, <4>2, <4>3, <4>4, Ends
        <3>3. OwnEnds(o)'
            BY <3>2 DEF OwnEnds
        <3>4. Ended(o, objects[o].starts) => ~N!Starting(o)' /\ ~objects'[o].m_hasStarted
            BY <1>0, <2>3, Fielded DEF WinInv, Losses, N!Starting
        <3> QED BY <1>n, <2>2, <2>3, <3>1, <3>3, <3>4, OwnStep
    <2>7. Gifts'
        BY <1>n, <2>3, SameGifts
    <2> QED BY <2>4, <2>5, <2>6, <2>7 DEF WinInv
<1> DEFINE Result(new) == /\ new.m_hasStopped \in BOOLEAN /\ new.m_return \in Codes \cup {0}
                          /\ new.child \in {"none", "runs", "exited"}
                          /\ new.code \in Codes \cup {0}
<1>4. CASE N!exit(o)
    <2>1. PICK code : /\ code \in Codes /\ objects[o].child = "runs"
                      /\ objects' = [objects EXCEPT ![o].child = "exited", ![o].code = code,
                                                    ![o].given = {}]
        BY <1>4 DEF N!exit
    <2> DEFINE new == [old EXCEPT !.child = "exited", !.code = code, !.given = {}]
    <2>2. objects' = [objects EXCEPT ![o] = new]
        BY <2>1
    <2>h. ~old.m_hasStopped /\ old.m_hasStopped \in BOOLEAN /\ old.m_return \in Codes \cup {0}
        BY <1>0, <2>1, Fielded DEF Marked
    <2> HIDE DEF old
    <2>3. new = [old EXCEPT !.child = "exited", !.code = code, !.given = {}]
        OBVIOUS
    <2> HIDE DEF new
    <2>4. /\ Shaped(new) /\ new.at = old.at /\ SameStart(old, new)
          /\ new.child = "exited" /\ new.code = code /\ new.given = {}
          /\ new.m_hasStopped = old.m_hasStopped /\ new.m_return = old.m_return
        BY <1>2, <2>3 DEF Shaped, SameStart
    <2>5. Result(new) /\ ~new.m_hasStopped /\ new.given \subseteq old.given
        BY <2>1, <2>4, <2>h
    <2> QED BY <1>3, <2>2, <2>4, <2>5
<1>5. CASE N!waitFor(o)
    <2> DEFINE new == [old EXCEPT !.m_hasStopped = TRUE, !.m_return = old.code]
    <2>1. /\ objects[o].m_hasStarted /\ objects[o].child = "exited"
          /\ objects' = [objects EXCEPT ![o] = new]
        BY <1>5 DEF N!waitFor
    <2>h. old.m_hasStarted /\ old.child = "exited" /\ old.code \in Codes \cup {0}
        BY <1>0, <2>1, Fielded
    <2> HIDE DEF old
    <2>3. new = [old EXCEPT !.m_hasStopped = TRUE, !.m_return = old.code]
        OBVIOUS
    <2> HIDE DEF new
    <2>4. /\ Shaped(new) /\ new.at = old.at /\ SameStart(old, new)
          /\ new.child = old.child /\ new.code = old.code /\ new.given = old.given
          /\ new.m_hasStopped = TRUE /\ new.m_return = old.code
        BY <1>2, <2>3 DEF Shaped, SameStart
    <2>5. /\ Result(new) /\ new.given \subseteq old.given
          /\ new.m_hasStarted /\ new.child = "exited" /\ new.m_return = new.code
        BY <2>4, <2>h DEF SameStart
    <2> QED BY <1>3, <2>1, <2>4, <2>5
<1> QED BY <1>4, <1>5

\* The streams of an object that is idle are closed, one or all.
LEMMA WinClose ==
    ASSUME WinInv, NEW o \in Objects, N!closeInput(o) \/ N!destroy(o)
    PROVE  WinInv'
<1>0. WinTypes /\ Marked
    BY DEF WinInv
<1>n. objects[o].at = "idle" /\ UNCHANGED <<inheritable, lost, crowded>>
    BY DEF N!closeInput, N!destroy, N!Before
<1>1. /\ objects' \in [Objects -> ObjectRecords]
      /\ \A p \in Objects : p # o => objects'[p] = objects[p]
      /\ objects'[o].at \in {"idle", "destroyed"} /\ SameStart(objects[o], objects'[o])
      /\ SameResult(objects[o], objects'[o]) /\ SameChild(objects[o], objects'[o])
    <2>1. CASE N!closeInput(o)
        BY <1>0, <1>n, <2>1 DEF N!closeInput, WinTypes, SameStart, SameResult, SameChild
    <2>2. CASE N!destroy(o)
        BY <1>0, <2>2, Placing DEF N!destroy, WinPlaces
    <2> QED BY <2>1, <2>2
<1>2. /\ objects'[o].starts = objects[o].starts /\ objects'[o].merge = objects[o].merge
      /\ objects'[o].m_hasStarted = objects[o].m_hasStarted
      /\ ~N!Starting(o)'
    BY <1>1 DEF SameStart, N!Starting
<1>3. \A p, k, name, end : <<p, k, name, end>> \in N!Streams(o) <=>
          /\ p = o /\ k = objects[o].starts
          /\ \/ name = "in" /\ end = 1
             \/ name = "out" /\ end = 0
             \/ name = "err" /\ end = 0 /\ ~objects[o].merge
    <2>1. ASSUME NEW p, NEW k, NEW name, NEW end
          PROVE  <<p, k, name, end>> \in N!Streams(o) <=>
                    \/ <<p, k, name, end>> \in N!End(o, "in", 1)
                    \/ <<p, k, name, end>> \in N!End(o, "out", 0)
                    \/ <<p, k, name, end>> \in N!End(o, "err", 0) /\ ~objects[o].merge
        BY DEF N!Streams
    <2>2. ASSUME NEW p, NEW k, NEW name, NEW end
          PROVE  <<p, k, name, end>> \in N!Streams(o) <=>
                    /\ p = o /\ k = objects[o].starts
                    /\ \/ name = "in" /\ end = 1
                       \/ name = "out" /\ end = 0
                       \/ name = "err" /\ end = 0 /\ ~objects[o].merge
        <3>1. <<p, k, name, end>> \in N!End(o, "in", 1) <=>
                  p = o /\ k = objects[o].starts /\ name = "in" /\ end = 1
            BY PipeEnds
        <3>2. <<p, k, name, end>> \in N!End(o, "out", 0) <=>
                  p = o /\ k = objects[o].starts /\ name = "out" /\ end = 0
            BY PipeEnds
        <3>3. <<p, k, name, end>> \in N!End(o, "err", 0) <=>
                  p = o /\ k = objects[o].starts /\ name = "err" /\ end = 0
            BY PipeEnds
        <3> QED BY <2>1, <3>1, <3>2, <3>3
    <2> QED BY <2>2, Zenon
<1>4. /\ handles' \subseteq handles
      /\ \A p, k, name, end : ~(p = o /\ k = objects[o].starts) /\ <<p, k, name, end>> \in handles =>
             <<p, k, name, end>> \in handles'
    BY <1>3, PipeEnds DEF N!closeInput, N!destroy
<1>i. ASSUME NEW name \in Names, NEW end \in {0, 1}
      PROVE  <<o, objects[o].starts, name, end>> \in inheritable =>
                 Left(o, objects[o].starts, name, end) /\ ~objects[o].m_hasStarted
    <2>1. ~Shows(o, name, end)
        BY <1>n DEF Shows
    <2> QED BY <2>1, Ends
<1>5. inheritable' \subseteq handles'
    <2>1. ASSUME NEW h \in inheritable  PROVE h \in handles'
        <3>1. h \in handles /\ h \in Handles
            BY <1>0 DEF WinTypes
        <3>2. PICK p, k, name, end : /\ h = <<p, k, name, end>> /\ p \in Objects /\ k \in Nat
                                     /\ name \in Names /\ end \in {0, 1}
            BY <3>1 DEF Handles
        <3>3. CASE p = o /\ k = objects[o].starts
            <4>1. ~objects[o].m_hasStarted
                BY <1>i, <2>1, <3>2, <3>3
            <4>2. handles' = handles
                BY <4>1 DEF N!closeInput, N!destroy
            <4> QED BY <3>1, <4>2
        <3>4. CASE ~(p = o /\ k = objects[o].starts)
            BY <1>4, <3>1, <3>2, <3>4
        <3> QED BY <3>3, <3>4
    <2> QED BY <1>n, <2>1
<1>6. WinTypes'
    <2>1. handles' \subseteq Handles
        BY <1>0, <1>4 DEF WinTypes
    <2>2. \A p \in Objects : objects'[p].starts = objects[p].starts
        BY <1>1, <1>2
    <2> QED BY <1>0, <1>1, <1>5, <1>n, <2>1, <2>2, WinTyped
<1>7. Marked'
    <2>1. objects'[o].m_hasStopped => /\ objects'[o].m_hasStarted /\ objects'[o].child = "exited"
                                      /\ objects'[o].m_return = objects'[o].code
        BY <1>0, <1>1 DEF Marked, SameStart, SameResult, SameChild
    <2> QED BY <1>0, <1>1, <1>2, <2>1, OthersMarked DEF Marked
<1>8. Losses' /\ Opened'
    <2>1. OfOthers(o)
        BY <1>4, <1>n DEF OfOthers
    <2>2. ASSUME NEW name \in Names, NEW end \in {0, 1}
          PROVE  LET h == <<o, objects'[o].starts, name, end>>
                     left == Left(o, objects[o].starts, name, end)' IN
                 /\ left => h \in handles'
                 /\ h \in handles' => left \/ Owns(o, name, end)'
                 /\ Needs(o, name, end)' => h \in handles'
                 /\ h \in inheritable' => left \/ Shows(o, name, end)'
        <3>1. Left(o, objects[o].starts, name, end)' = Left(o, objects[o].starts, name, end)
            BY <1>2, <1>n DEF Left
        <3> DEFINE h == <<o, objects[o].starts, name, end>>
                   left == Left(o, objects[o].starts, name, end)
        <3>2. /\ left => h \in handles
              /\ h \in handles => left \/ Owns(o, name, end)
              /\ Needs(o, name, end) => h \in handles
              /\ left => ~objects[o].m_hasStarted
            BY Ends
        <3>3. h \in inheritable' => left
            BY <1>i, <1>n
        <3> DEFINE stream == \/ name = "in" /\ end = 1
                             \/ name = "out" /\ end = 0
                             \/ name = "err" /\ end = 0 /\ ~objects[o].merge
        <3>4. Owns(o, name, end) <=> objects[o].m_hasStarted /\ stream
            BY <1>n DEF Owns
        <3>5. Needs(o, name, end) <=> Owns(o, name, end) /\ name # "in"
            BY <1>n DEF Needs
        <3>6. CASE N!closeInput(o)
            <4>1. objects' = objects /\ handles' = handles \ N!End(o, "in", 1)
                BY <3>6 DEF N!closeInput
            <4>2. h \in N!End(o, "in", 1) <=> name = "in" /\ end = 1
                BY PipeEnds
            <4>3. Owns(o, name, end)' = Owns(o, name, end) /\ Needs(o, name, end)' = Needs(o, name, end)
                BY <4>1, SameOwner
            <4>4. objects[o].m_hasStarted
                BY <3>6 DEF N!closeInput
            <4> HIDE DEF left, stream
            <4> QED BY <1>2, <3>1, <3>2, <3>3, <3>5, <4>1, <4>2, <4>3, <4>4 DEF left
        <3>7. CASE N!destroy(o)
            <4>1. objects'[o].at = "destroyed"
                BY <1>0, <3>7, Placing DEF N!destroy, WinPlaces
            <4>2. handles' = IF objects[o].m_hasStarted THEN handles \ N!Streams(o) ELSE handles
                BY <3>7 DEF N!destroy
            <4>3. h \in N!Streams(o) <=> stream
                BY <1>3
            <4>4. ~Owns(o, name, end)'
                BY <4>1 DEF Owns
            <4>5. ~Needs(o, name, end)'
                BY <4>4 DEF Needs
            <4> HIDE DEF left, stream
            <4> QED BY <1>2, <3>1, <3>2, <3>3, <3>4, <4>2, <4>3, <4>4, <4>5 DEF left
        <3> QED BY <3>6, <3>7
    <2>3. OwnEnds(o)'
        BY <2>2 DEF OwnEnds
    <2>4. Ended(o, objects[o].starts) => ~objects'[o].m_hasStarted
        BY <1>0, <1>2, Fielded DEF WinInv, Losses
    <2> QED BY <1>1, <1>2, <1>n, <2>1, <2>3, <2>4, OwnStep
<1>9. Gifts'
    <2>1. \A p \in Objects : /\ objects'[p].given \subseteq objects[p].given
                             /\ objects'[p].starts = objects[p].starts
        BY <1>1, <1>2 DEF SameChild
    <2> QED BY <1>n, <2>1, SameGifts
<1> QED BY <1>6, <1>7, <1>8, <1>9 DEF WinInv

\* Each step keeps the invariant of the objects.
LEMMA WinStep == ASSUME WinInv, N!Next  PROVE WinInv'
<1>1. PICK o \in Objects :
        \/ \E merge \in BOOLEAN : N!internalExec(o, merge)
        \/ N!openIn(o) \/ N!hideIn(o) \/ N!openOut(o) \/ N!hideOut(o) \/ N!openErr(o)
        \/ N!hideErr(o) \/ N!duplicate(o) \/ N!launchProcess(o) \/ N!finishExec(o)
        \/ N!exit(o) \/ N!closeInput(o) \/ N!waitFor(o) \/ N!destroy(o)
    BY Zenon DEF N!Next
<1> QED BY <1>1, WinExec, WinStarts, WinLaunch, WinFinish, WinChild, WinClose

\* The invariant holds at first, and says what is wanted of the objects.
LEMMA WinStarted == N!Init => WinInv
<1> SUFFICES ASSUME N!Init  PROVE WinInv
    OBVIOUS
<1>1. /\ objects = [o \in Objects |-> N!NewObject]
      /\ handles = {} /\ inheritable = {} /\ lost = {} /\ crowded = {}
    BY DEF N!Init
<1>2. N!NewObject \in ObjectRecords
    <2>1. N!NewObject.given \in SUBSET Handles
        BY DEF N!NewObject
    <2>2. Shaped(N!NewObject)
        BY DEF N!NewObject, Shaped
    <2>3. /\ N!NewObject.at \in WinPlaces /\ N!NewObject.merge \in BOOLEAN
          /\ N!NewObject.starts \in Nat /\ N!NewObject.m_hasStarted \in BOOLEAN
          /\ N!NewObject.m_hasStopped \in BOOLEAN /\ N!NewObject.m_return \in Codes \cup {0}
          /\ N!NewObject.child \in {"none", "runs", "exited"}
          /\ N!NewObject.code \in Codes \cup {0}
        BY DEF N!NewObject, WinPlaces
    <2> QED BY <2>1, <2>2, <2>3, ShapedRecord
<1>3. \A o \in Objects : /\ objects[o].at = "idle" /\ objects[o].starts = 0
                         /\ ~objects[o].m_hasStarted /\ ~objects[o].m_hasStopped
                         /\ objects[o].given = {}
    BY <1>1 DEF N!NewObject
<1>4. WinTypes
    BY <1>1, <1>2, <1>3, PrimitivesAssumption DEF WinTypes
<1>5. Marked
    BY <1>3 DEF Marked, N!Starting
<1>6. Losses
    BY <1>1 DEF Losses, Ended
<1>7. Opened
    BY <1>1, <1>3 DEF Opened, Left, Needs, Owns
<1>8. Gifts
    BY <1>3 DEF Gifts
<1> QED BY <1>4, <1>5, <1>6, <1>7, <1>8 DEF WinInv

\* A child was given no end of a pipe of another start that met no other.
LEMMA WinGuarded == ASSUME WinInv  PROVE N!Guarded
<1>0. WinTypes /\ Marked
    BY DEF WinInv
<1>1. ASSUME NEW o \in Objects, objects[o].m_hasStarted, o \notin crowded,
             NEW p \in Objects, NEW name \in Names, NEW end \in {0, 1},
             p \in N!Given(o, name, end)
      PROVE  o = p /\ (end = 0 <=> name = "in")
    <2>1. <<o, objects[o].starts, name, end>> \in objects[p].given
        BY <1>1 DEF N!Given, N!End
    <2>2. objects[o].starts \in Nat
        BY <1>0, Fielded
    <2>3. IF o = p THEN (end = 0 <=> name = "in") ELSE o \in crowded \/ Ended(o, objects[o].starts)
        BY <2>1, <2>2 DEF WinInv, Gifts
    <2>4. ~Ended(o, objects[o].starts)
        BY <1>1, <2>2 DEF WinInv, Losses
    <2> QED BY <1>1, <2>3, <2>4
<1>2. ASSUME NEW o \in Objects, objects[o].m_hasStarted, o \notin crowded
      PROVE  /\ N!Given(o, "in", 1) = {} /\ N!Given(o, "out", 0) = {} /\ N!Given(o, "err", 0) = {}
             /\ N!Given(o, "out", 1) \cup N!Given(o, "err", 1) \subseteq {o}
    <2>1. \A n, e : N!Given(o, n, e) \subseteq Objects
        BY DEF N!Given
    <2>2. N!Given(o, "in", 1) = {}
        BY <1>1, <1>2, <2>1 DEF Names
    <2>3. N!Given(o, "out", 0) = {}
        BY <1>1, <1>2, <2>1 DEF Names
    <2>4. N!Given(o, "err", 0) = {}
        BY <1>1, <1>2, <2>1 DEF Names
    <2>5. N!Given(o, "out", 1) \subseteq {o}
        BY <1>1, <1>2, <2>1 DEF Names
    <2>6. N!Given(o, "err", 1) \subseteq {o}
        BY <1>1, <1>2, <2>1 DEF Names
    <2> QED BY <2>2, <2>3, <2>4, <2>5, <2>6
<1> QED BY <1>0, <1>2 DEF N!Guarded, Marked

\* The ends of a start that was lost, one by one.
WinLostEnds(l) ==
    {<<l[1], l[2], name, end>> : name \in {"in", "out"}, end \in {0, 1}}
      \cup (IF l[3] THEN {<<l[1], l[2], "err", 1>>}
            ELSE {<<l[1], l[2], "err", end>> : end \in {0, 1}})

\* What is open, of one handle.
LEMMA OpenedAt ==
    ASSUME WinInv, NEW o \in Objects, NEW k \in Nat, NEW name \in Names, NEW end \in {0, 1}
    PROVE  /\ Left(o, k, name, end) => <<o, k, name, end>> \in handles
           /\ <<o, k, name, end>> \in handles =>
                  Left(o, k, name, end) \/ (k = objects[o].starts /\ Owns(o, name, end))
           /\ k = objects[o].starts /\ Needs(o, name, end) => <<o, k, name, end>> \in handles
BY DEF WinInv, Opened

\* What the account says, from one end to the next.
LEMMA WinAccounted == ASSUME WinInv  PROVE N!Accounted
<1>0. WinTypes
    BY DEF WinInv
<1> DEFINE idle == {o \in Objects : ~N!Starting(o)}
           open == {o \in idle : objects[o].m_hasStarted /\ objects[o].at = "idle"}
           lostEnds == UNION {WinLostEnds(l) : l \in lost}
           inside == {h \in handles : h[1] \in idle}
<1>1. ASSUME NEW o \in Objects, NEW k \in Nat, NEW merge \in BOOLEAN, NEW name, NEW end
      PROVE  <<o, k, name, end>> \in WinLostEnds(<<o, k, merge>>) <=>
                 /\ name \in Names /\ end \in {0, 1}
                 /\ name = "err" /\ end = 0 => ~merge
    BY DEF WinLostEnds, Names
<1>2. \A l \in lost : /\ l[1] \in Objects /\ l[2] \in Nat /\ l[3] \in BOOLEAN
                      /\ l = <<l[1], l[2], l[3]>>
    BY <1>0 DEF WinTypes
<1>3. lostEnds \subseteq handles
    <2>1. ASSUME NEW o \in Objects, NEW k \in Nat, NEW merge \in BOOLEAN, <<o, k, merge>> \in lost,
                 NEW h \in WinLostEnds(<<o, k, merge>>)
          PROVE  h \in handles
        <3>1. PICK name, end : h = <<o, k, name, end>>
            BY <2>1 DEF WinLostEnds
        <3>2. /\ name \in Names /\ end \in {0, 1}
              /\ name = "err" /\ end = 0 => ~merge
            BY <1>1, <2>1, <3>1
        <3>3. Left(o, k, name, end)
            BY <2>1, <3>2 DEF Left
        <3>4. Left(o, k, name, end) => <<o, k, name, end>> \in handles
            BY <3>2, OpenedAt
        <3> QED BY <3>1, <3>3, <3>4
    <2>2. ASSUME NEW l \in lost  PROVE WinLostEnds(l) \subseteq handles
        <3>1. PICK o \in Objects, k \in Nat, merge \in BOOLEAN : l = <<o, k, merge>>
            BY <1>2
        <3> QED BY <2>1, <2>2, <3>1
    <2> QED BY <2>2
<1>s. ASSUME NEW o \in Objects, NEW p, NEW k, NEW name, NEW end
      PROVE  <<p, k, name, end>> \in N!Streams(o) <=>
                 /\ p = o /\ k = objects[o].starts
                 /\ \/ name = "in" /\ end = 1
                    \/ name = "out" /\ end = 0
                    \/ name = "err" /\ end = 0 /\ ~objects[o].merge
    <2>1. <<p, k, name, end>> \in N!Streams(o) <=>
                    \/ <<p, k, name, end>> \in N!End(o, "in", 1)
                    \/ <<p, k, name, end>> \in N!End(o, "out", 0)
                    \/ <<p, k, name, end>> \in N!End(o, "err", 0) /\ ~objects[o].merge
        BY DEF N!Streams
    <2>2. <<p, k, name, end>> \in N!End(o, "in", 1) <=>
              p = o /\ k = objects[o].starts /\ name = "in" /\ end = 1
        BY PipeEnds
    <2>3. <<p, k, name, end>> \in N!End(o, "out", 0) <=>
              p = o /\ k = objects[o].starts /\ name = "out" /\ end = 0
        BY PipeEnds
    <2>4. <<p, k, name, end>> \in N!End(o, "err", 0) <=>
              p = o /\ k = objects[o].starts /\ name = "err" /\ end = 0
        BY PipeEnds
    <2> QED BY <2>1, <2>2, <2>3, <2>4
<1>4. inside \ lostEnds \subseteq UNION {N!Streams(o) : o \in open}
    <2>1. ASSUME NEW h \in handles, h[1] \in idle, h \notin lostEnds
          PROVE  \E o \in open : h \in N!Streams(o)
        <3>1. PICK p, k, name, end : /\ h = <<p, k, name, end>> /\ p \in Objects /\ k \in Nat
                                     /\ name \in Names /\ end \in {0, 1}
            BY <1>0, <2>1 DEF Handles, WinTypes
        <3>2. ~Left(p, k, name, end)
            <4>1. ASSUME NEW merge \in BOOLEAN, <<p, k, merge>> \in lost,
                         name = "err" /\ end = 0 => ~merge
                  PROVE  FALSE
                <5>1. <<p, k, name, end>> \in WinLostEnds(<<p, k, merge>>)
                    BY <1>1, <3>1, <4>1
                <5> QED BY <2>1, <3>1, <4>1, <5>1
            <4> QED BY <4>1 DEF Left
        <3>3. k = objects[p].starts /\ Owns(p, name, end)
            <4>1. h \in handles => Left(p, k, name, end) \/ (k = objects[p].starts /\ Owns(p, name, end))
                BY <3>1, OpenedAt
            <4> QED BY <2>1, <3>2, <4>1
        <3>4. objects[p].at \in {"idle", "destroyed"}
            BY <2>1, <3>1 DEF N!Starting
        <3>5. /\ objects[p].at = "idle" /\ objects[p].m_hasStarted
              /\ \/ name = "in" /\ end = 1
                 \/ name = "out" /\ end = 0
                 \/ name = "err" /\ end = 0 /\ ~objects[p].merge
            BY <3>3, <3>4 DEF Owns
        <3>6. h \in N!Streams(p)
            BY <1>s, <3>1, <3>3, <3>5
        <3>7. p \in open
            BY <2>1, <3>1, <3>5
        <3> QED BY <3>6, <3>7
    <2> QED BY <2>1
<1>5. ASSUME NEW o \in open  PROVE N!Streams(o) \ N!End(o, "in", 1) \subseteq handles
    <2>0. o \in Objects /\ objects[o].at = "idle" /\ objects[o].m_hasStarted
        BY <1>5
    <2>1. objects[o].starts \in Nat
        BY <1>0, <2>0, Fielded
    <2>2. ASSUME NEW name \in Names, NEW end \in {0, 1}, Needs(o, name, end)
          PROVE  N!End(o, name, end) \subseteq handles
        <3>1. <<o, objects[o].starts, name, end>> \in handles
            BY <2>0, <2>1, <2>2, OpenedAt
        <3> QED BY <3>1 DEF N!End
    <2>3. Needs(o, "out", 0) /\ (~objects[o].merge => Needs(o, "err", 0))
        BY <2>0 DEF Needs, Owns
    <2>4. N!End(o, "out", 0) \subseteq handles
        BY <2>2, <2>3 DEF Names
    <2>5. ~objects[o].merge => N!End(o, "err", 0) \subseteq handles
        BY <2>2, <2>3 DEF Names
    <2> QED BY <2>4, <2>5 DEF N!Streams
<1> QED BY <1>3, <1>4, <1>5 DEF N!Accounted, WinLostEnds

\* The invariant of the objects says what is wanted of them.
LEMMA WinHolds == WinInv => N!TypeOK /\ N!Guarded /\ N!Accounted
<1> SUFFICES ASSUME WinInv  PROVE N!TypeOK /\ N!Guarded /\ N!Accounted
    OBVIOUS
<1>1. \A o \in Objects : objects[o].m_return \in Codes \cup {0}
    BY Fielded DEF WinInv
<1>2. N!TypeOK
    BY <1>1 DEF WinInv, WinTypes, N!TypeOK
<1> QED BY <1>2, WinGuarded, WinAccounted

-----------------------------------------------------------------------------
(* The program that uses one of the parts.                                 *)

IInv ==
    /\ part \in Parts
    /\ part = "Condition" => ConditionInv
    /\ part = "RWLock" => LockInv
    /\ part = "Once" => OnceInv
    /\ part = "Thread" => ThreadInv
    /\ part = "TimedWait" => WaitInv
    /\ part = "Process" => ProcessInv
    /\ part = "ProcessWin" => WinInv

\* A step of nobody changes no part.
LEMMA Resting == ASSUME IInv, UNCHANGED vars  PROVE IInv'
<1> USE DEF vars
<1>1. /\ UNCHANGED <<part, pc>> /\ UNCHANGED conditionVars /\ UNCHANGED lockVars
      /\ UNCHANGED onceVars /\ UNCHANGED threadVars /\ UNCHANGED waitVars
      /\ UNCHANGED processVars /\ UNCHANGED objectVars
    OBVIOUS
<1>2. ConditionInv => ConditionInv'
    BY <1>1 DEF conditionVars, ConditionInv, Formed, Fields, Owned, Waiters
<1>3. LockInv => LockInv'
    BY <1>1 DEF conditionVars, lockVars, LockInv, LockTypes, LockOwned, LockWaits, LockHeld, LockFree,
                Formed, Fields, Asleep, Readers, Writers
<1>4. OnceInv => OnceInv'
    BY <1>1 DEF onceVars, OnceInv
<1>5. ThreadInv => ThreadInv'
    BY <1>1 DEF threadVars, ThreadInv, T!TypeOK, T!Guarded, T!StartsNow, Joined
<1>6. WaitInv => WaitInv'
    BY <1>1 DEF waitVars, WaitInv, W!TypeOK, W!Guarded
<1>7. ProcessInv => ProcessInv'
    BY <1>1 DEF processVars, ProcessInv, ProcessTypes, P!TypeOK, Started, KeptEnds, Heard, Reaped,
                P!N, P!Child, FdsOf, Keeps
<1>8. WinInv => WinInv'
    <2>1. UNCHANGED <<objects, handles, inheritable, lost, crowded>>
        BY <1>1 DEF objectVars
    <2>2. /\ \A p, k, name, end : Left(p, k, name, end)' = Left(p, k, name, end)
          /\ \A p, k : Ended(p, k)' = Ended(p, k)
        BY <2>1 DEF Left, Ended
    <2>3. /\ \A o, name, end : Owns(o, name, end)' = Owns(o, name, end)
          /\ \A o, name, end : Needs(o, name, end)' = Needs(o, name, end)
          /\ \A o, name, end : Shows(o, name, end)' = Shows(o, name, end)
          /\ \A o : N!Starting(o)' = N!Starting(o)
        BY <2>1 DEF Owns, Needs, Shows, N!Starting
    <2> QED BY <2>1, <2>2, <2>3 DEF WinInv, WinTypes, Marked, Losses, Opened, Gifts
<1> QED BY <1>1, <1>2, <1>3, <1>4, <1>5, <1>6, <1>7, <1>8 DEF IInv

\* The invariant of the part in use holds in every state.
THEOREM Invariance == Spec => []IInv
<1>1. Init => IInv
    BY ConditionHolds, LockHolds, OnceHolds, ThreadHolds, WaitHolds, ProcessHolds, WinStarted
       DEF Init, Used, IInv, Parts
<1>2. IInv /\ [Next]_vars => IInv'
    <2> SUFFICES ASSUME IInv, [Next]_vars  PROVE IInv'
        OBVIOUS
    <2>1. CASE Next
        <3>1. part' = part /\ part \in Parts
            BY <2>1 DEF Next, IInv
        <3>2. /\ part = "Condition" => C!Next
              /\ part = "RWLock" => L!Next
              /\ part = "Once" => O!Next
              /\ part = "Thread" => T!Next
              /\ part = "TimedWait" => W!Next
              /\ part = "Process" => P!Next
              /\ part = "ProcessWin" => N!Next
            BY <2>1 DEF Next, Used
        <3>3. part = "Condition" => ConditionInv'
            BY <3>2, ConditionStep DEF IInv
        <3>4. part = "RWLock" => LockInv'
            BY <3>2, LockStep DEF IInv
        <3>5. part = "Once" => OnceInv'
            BY <3>2, OnceStep DEF IInv
        <3>6. part = "Thread" => ThreadInv'
            BY <3>2, ThreadStep DEF IInv
        <3>7. part = "TimedWait" => WaitInv'
            BY <3>2, WaitStep DEF IInv
        <3>8. part = "Process" => ProcessInv'
            BY <3>2, ProcessStep DEF IInv
        <3>9. part = "ProcessWin" => WinInv'
            BY <3>2, WinStep DEF IInv
        <3> QED BY <3>1, <3>3, <3>4, <3>5, <3>6, <3>7, <3>8, <3>9 DEF IInv
    <2>2. CASE UNCHANGED vars
        BY <2>2, Resting
    <2> QED BY <2>1, <2>2
<1> QED BY <1>1, <1>2, PTL DEF Spec

\* What each invariant says of its part, of whichever part is used.
LEMMA PartsHold == IInv => TypeOK /\ Guarded /\ Accounted
BY ConditionHolds, LockHolds, OnceHolds, ThreadHolds, WaitHolds, ProcessHolds, WinHolds
   DEF IInv, Parts, TypeOK, Guarded, Accounted

\* The fields of locks, threads and processes have their types, whatever part
\* of Condition.cpp, RWLock.cpp, Once.h, Thread.cpp and Process.cpp a program uses.
THEOREM PrimitivesTyped == Spec => []TypeOK
BY Invariance, PartsHold, PTL

\* A caller that comes back has what it asked for: it is alone in a critical
\* section and with a written lock, a function called once has ended and a
\* joined task too, and a child that does not overlap with another one is the
\* only one to hold its pipes.
THEOREM CallersGuarded == Spec => []Guarded
BY Invariance, PartsHold, PTL

\* The counters of waiting and released threads, readers, writers and children
\* agree with what the threads and children do, and a start that failed leaves
\* no handle open but where CreateProcess() failed.
THEOREM CountsAccounted == Spec => []Accounted
BY Invariance, PartsHold, PTL
=============================================================================
