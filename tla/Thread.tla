-------------------------------- MODULE Thread --------------------------------
(***************************************************************************)
(* One object of the class Thread, on Windows and on unix: started by its  *)
(* owner, joined by any of the Threads, destroyed by the owner when it     *)
(* likes.                                                                  *)
(***************************************************************************)
EXTENDS Integers, FiniteSets

CONSTANT Threads

VARIABLES
    unix,
    object,     \* "alive" or "destroyed", what start() was given, and the
                \* handle or id that join() reads
    wasStarted, isRunning,
    task,       \* the thread of the system: "none", "runs" or "ended"
    runnable,   \* "alive" or "deleted"
    released,   \* joins and detaches of the system's thread
    pc          \* what a joining thread does

\* A join() on Windows may be repeated; a pthread is gone after one join or
\* detach, and a second one is undefined.
Release == released' = IF unix THEN released + 1 ELSE released

Init ==
    /\ unix \in BOOLEAN
    /\ object \in [state : {"alive"}, handle : {"unset"}, autoDelete : BOOLEAN]
    /\ wasStarted = FALSE /\ isRunning = FALSE
    /\ task = "none" /\ runnable = "alive" /\ released = 0
    /\ pc = [t \in Threads |-> "outside"]

\* start() sets the flags before there is a thread.
start ==
    /\ object.state = "alive" /\ ~wasStarted
    /\ wasStarted' = TRUE /\ isRunning' = TRUE
    /\ UNCHANGED <<unix, object, task, runnable, released, pc>>
StartsNow == wasStarted /\ object.handle = "unset"

\* The system creates the thread, or fails: unix takes the flags back, and
\* Windows leaves the object started and running, with no handle.
create ==
    /\ StartsNow /\ task = "none"
    /\ \/ task' = "runs" /\ UNCHANGED <<wasStarted, isRunning, object>>
       \/ /\ wasStarted' = ~unix /\ isRunning' = ~unix
          /\ object' = [object EXCEPT !.handle = IF unix THEN "unset" ELSE "null"]
          /\ UNCHANGED task
    /\ UNCHANGED <<unix, runnable, released, pc>>

\* The thread may run, and end, before its creator has the handle.
created ==
    /\ StartsNow /\ task # "none"
    /\ object' = [object EXCEPT !.handle = "set"]
    /\ UNCHANGED <<unix, wasStarted, isRunning, task, runnable, released, pc>>

\* The end of run(), whether it returns or throws.
taskStarter ==
    /\ task = "runs"
    /\ task' = "ended"
    /\ runnable' = IF object.autoDelete THEN "deleted" ELSE runnable
    /\ UNCHANGED <<unix, object, wasStarted, isRunning, released, pc>>

\* join() tests isRunning, waits for what the handle names, and then resets
\* isRunning.
join(t) ==
    /\ pc[t] = "outside" /\ object.state = "alive"
    /\ pc' = [pc EXCEPT ![t] = IF isRunning THEN "tested" ELSE "threw"]
    /\ UNCHANGED <<unix, object, wasStarted, isRunning, task, runnable, released>>

\* The handle a Windows object is made with names the process itself, whose
\* end never comes; the id a unix object is made with is undefined.
Waits(handle) ==
    CASE handle = "set" -> {"joins"}
      [] handle = "null" -> {"threw"}
      [] OTHER -> IF unix THEN {"threw", "stuck"} ELSE {"stuck"}
read(t) ==
    /\ pc[t] = "tested"
    /\ \E outcome \in Waits(object.handle) : pc' = [pc EXCEPT ![t] = outcome]
    /\ UNCHANGED <<unix, object, wasStarted, isRunning, task, runnable, released>>
joined(t) ==
    /\ pc[t] = "joins" /\ task = "ended"
    /\ pc' = [pc EXCEPT ![t] = "joined"]
    /\ isRunning' = FALSE
    /\ Release
    /\ UNCHANGED <<unix, object, wasStarted, task, runnable>>

\* On unix the destructor detaches whatever was started.  It is not called
\* with a call of the object under way.
Inside == {t \in Threads : pc[t] \in {"tested", "joins", "stuck"}}
destroy ==
    /\ object.state = "alive" /\ Inside = {} /\ ~StartsNow
    /\ object' = [object EXCEPT !.state = "destroyed"]
    /\ IF wasStarted THEN Release ELSE UNCHANGED released
    /\ UNCHANGED <<unix, wasStarted, isRunning, task, runnable, pc>>

Next ==
    \/ start \/ create \/ created \/ taskStarter \/ destroy
    \/ \E t \in Threads : join(t) \/ read(t) \/ joined(t)

-----------------------------------------------------------------------------

\* The flags and the system's thread have their types.
TypeOK ==
    /\ wasStarted \in BOOLEAN /\ isRunning \in BOOLEAN
    /\ task \in {"none", "runs", "ended"} /\ released \in Nat

\* Who came back from join() finds the task ended; the runnable is deleted
\* after its run(), and only where it was asked.
Guarded ==
    /\ \A t \in Threads : pc[t] = "joined" => task = "ended"
    /\ runnable = "deleted" => task = "ended" /\ object.autoDelete

\* A destroyed object leaves no pthread behind, and releases none twice.  The
\* code breaks the second where several joins passed the test together, and
\* where the destructor follows a join: these are exempt.  An object says it
\* runs for a task there is or will be, but on Windows after a start() that
\* failed, and never after a join().
Accounted ==
    /\ LET joins == Cardinality({t \in Threads : pc[t] = "joined"})
           destroyed == object.state = "destroyed" /\ wasStarted
       IN unix => /\ released > 1 => joins > 1 \/ (joins = 1 /\ destroyed)
                  /\ destroyed => released > 0
    /\ isRunning /\ task = "none" => StartsNow \/ (~unix /\ object.handle = "null")
    /\ (\E t \in Threads : pc[t] = "joined") => ~isRunning
=============================================================================
