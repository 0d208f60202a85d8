------------------------------ MODULE Primitives ------------------------------
(***************************************************************************)
(* The library's threads, locks and child processes, one program at a      *)
(* time: a program uses one of the Parts, and the others are Blank.        *)
(***************************************************************************)
EXTENDS Integers, FiniteSets

CONSTANTS
    Threads,
    Nobody, Garbage, Width, MaxCalls, MaxGeneration,    \* Condition, RWLock
    Clocks, Delays,                                     \* TimedWait
    Codes, Errors, MaxExecs,                            \* Process
    Objects, MaxStarts                                  \* ProcessWin

\* A counter is wide enough for the threads there are.
ASSUME PrimitivesAssumption ==
    /\ IsFiniteSet(Threads)
    /\ Nobody \notin Threads /\ Garbage \notin Threads \cup {Nobody}
    /\ Width \in Nat /\ Cardinality(Threads) < 2^Width
    /\ MaxGeneration \in Nat /\ MaxStarts \in Nat
    /\ Codes \subseteq Int /\ Errors \subseteq Int

\* A time is a number of seconds, and the nanoseconds beyond them.
ASSUME TimesAssumption ==
    /\ Clocks \subseteq Nat \X Nat /\ \A c \in Clocks : c[2] <= 999999999
    /\ Delays \subseteq Nat

VARIABLES
    part,
    pc,
    cond, mine, waited, calls, stolen,
    build, m_readers, m_writers, access,
    control, func,
    unix, object, wasStarted, isRunning, task, runnable, released,
    start, endTime, milliseconds, errno, outcome, ret,
    parent, m_hasStarted, m_hasStopped, m_return, children, childErrorPipe, fds, answer,
    objects, handles, inheritable, lost, crowded

C == INSTANCE Condition
L == INSTANCE RWLock
O == INSTANCE Once
T == INSTANCE Thread
W == INSTANCE TimedWait
P == INSTANCE Process
N == INSTANCE ProcessWin WITH object <- objects

Parts == {"Condition", "RWLock", "Once", "Thread", "TimedWait", "Process", "ProcessWin"}
Blank == {}
Used(users) == part \in users

conditionVars == <<cond, mine, waited, calls, stolen>>
lockVars == <<build, m_readers, m_writers, access>>
onceVars == <<control, func>>
threadVars == <<unix, object, wasStarted, isRunning, task, runnable, released>>
waitVars == <<start, endTime, milliseconds, errno, outcome, ret>>
processVars == <<parent, m_hasStarted, m_hasStopped, m_return, children, childErrorPipe,
                 fds, answer>>
objectVars == <<objects, handles, inheritable, lost, crowded>>
vars == <<part, pc, conditionVars, lockVars, onceVars, threadVars, waitVars, processVars,
          objectVars>>

-----------------------------------------------------------------------------

\* A part starts as its module says; what no used part has is Blank.
Init ==
    /\ part \in Parts
    /\ IF Used({"Condition"}) THEN C!Init ELSE TRUE
    /\ IF Used({"RWLock"}) THEN L!Init
       ELSE build = Blank /\ m_readers = Blank /\ m_writers = Blank /\ access = Blank
    /\ IF Used({"Once"}) THEN O!Init ELSE control = Blank /\ func = Blank
    /\ IF Used({"Thread"}) THEN T!Init
       ELSE /\ unix = Blank /\ object = Blank /\ wasStarted = Blank /\ isRunning = Blank
            /\ task = Blank /\ runnable = Blank /\ released = Blank
    /\ IF Used({"TimedWait"}) THEN W!Init
       ELSE /\ start = Blank /\ endTime = Blank /\ milliseconds = Blank
            /\ errno = Blank /\ outcome = Blank /\ ret = Blank
    /\ IF Used({"Process"}) THEN P!Init
       ELSE /\ parent = Blank /\ m_hasStarted = Blank /\ m_hasStopped = Blank
            /\ m_return = Blank /\ children = Blank /\ childErrorPipe = Blank
            /\ fds = Blank /\ answer = Blank
    /\ IF Used({"ProcessWin"}) THEN N!Init
       ELSE /\ objects = Blank /\ handles = Blank /\ inheritable = Blank
            /\ lost = Blank /\ crowded = Blank
    /\ IF Used({"Condition", "RWLock"}) THEN TRUE
       ELSE cond = Blank /\ mine = Blank /\ waited = Blank /\ calls = Blank /\ stolen = Blank
    /\ IF Used({"TimedWait", "Process", "ProcessWin"}) THEN pc = Blank ELSE TRUE

\* A step of the part that is used changes nothing of the others.
Kept(users, variables) == IF Used(users) THEN TRUE ELSE UNCHANGED variables
Next ==
    /\ UNCHANGED part
    /\ \/ Used({"Condition"}) /\ C!Next
       \/ Used({"RWLock"}) /\ L!Next
       \/ Used({"Once"}) /\ O!Next
       \/ Used({"Thread"}) /\ T!Next
       \/ Used({"TimedWait"}) /\ W!Next
       \/ Used({"Process"}) /\ P!Next
       \/ Used({"ProcessWin"}) /\ N!Next
    /\ Kept({"Condition", "RWLock"}, conditionVars)
    /\ Kept({"RWLock"}, lockVars)
    /\ Kept({"Once"}, onceVars)
    /\ Kept({"Thread"}, threadVars)
    /\ Kept({"TimedWait"}, waitVars)
    /\ Kept({"Process"}, processVars)
    /\ Kept({"ProcessWin"}, objectVars)
    /\ Kept(Parts \ {"TimedWait", "Process", "ProcessWin"}, pc)

Spec == Init /\ [][Next]_vars

-----------------------------------------------------------------------------

\* The types of every part's state.
TypeOK ==
    CASE part = "Condition" -> C!TypeOK
      [] part = "RWLock" -> L!TypeOK
      [] part = "Once" -> O!TypeOK
      [] part = "Thread" -> T!TypeOK
      [] part = "TimedWait" -> W!TypeOK
      [] part = "Process" -> P!TypeOK
      [] part = "ProcessWin" -> N!TypeOK

\* What a caller may rely on when a call has come back: it is alone in the
\* critical section or with a written lock, and who left is out of it; a
\* function called once has ended, a joined task too, and a process that was
\* waited for; a timed wait tells how long it was.
Guarded ==
    CASE part = "Condition" -> C!Guarded
      [] part = "RWLock" -> L!Guarded
      [] part = "Once" -> O!Guarded
      [] part = "Thread" -> T!Guarded
      [] part = "TimedWait" -> W!Guarded
      [] part = "Process" -> P!Guarded
      [] part = "ProcessWin" -> N!Guarded

\* The counters, flags and handles say what the threads and children do, and
\* nobody waits for what has already come.  Where the code does not keep that
\* the part's own Accounted names the exempt case.
Accounted ==
    CASE part = "Condition" -> C!Accounted
      [] part = "RWLock" -> L!Accounted
      [] part = "Once" -> O!Accounted
      [] part = "Thread" -> T!Accounted
      [] part = "TimedWait" -> W!Accounted
      [] part = "Process" -> P!Accounted
      [] part = "ProcessWin" -> N!Accounted
=============================================================================
