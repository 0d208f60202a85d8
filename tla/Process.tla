------------------------------- MODULE Process -------------------------------
(***************************************************************************)
(* The class Process on unix: an object that executes programs, and the    *)
(* children it forks.  A child tells the parent of an error of exec() in   *)
(* four bytes through a pipe that a successful exec() closes.              *)
(***************************************************************************)
EXTENDS Integers, FiniteSets, Sequences

CONSTANTS Codes, Errors, MaxExecs

VARIABLES
    parent,        \* "idle", "reads" the error pipe, or "spins"
    m_hasStarted, m_hasStopped, m_return,
    children,      \* [state, code, normal, merge, by], the last is m_pid
    childErrorPipe,\* bytes in the pipe, and whether the child can write more
    fds,           \* open ends in the parent: <<exec, pipe, end>>
    answer         \* what waitFor() returned last, and for which child

processVars == <<parent, m_hasStarted, m_hasStopped, m_return, children,
                 childErrorPipe, fds, answer>>

N == Len(children)
Child == children[N]
Ends(names) == {<<N + 1, name, end>> : name \in names, end \in {0, 1}}
Pipes(merge) == {"in", "out", "child"} \cup (IF merge THEN {} ELSE {"err"})
NewChild(merge) ==
    [state |-> "forked", code |-> 0, normal |-> TRUE, merge |-> merge, by |-> "none"]
NoAnswer == [of |-> 0, code |-> 0]

Init ==
    /\ parent = "idle"
    /\ m_hasStarted = FALSE /\ m_hasStopped = FALSE /\ m_return = 0
    /\ children = <<>> /\ fds = {}
    /\ childErrorPipe = [bytes |-> 0, open |-> FALSE]
    /\ answer = NoAnswer

\* The parent up to its first read().  A pipe() or fork() that fails closes
\* what was opened and throws: nothing is left of it.
internalExec(merge) ==
    /\ parent = "idle" /\ N < MaxExecs
    /\ \/ /\ children' = Append(children, NewChild(merge))
          /\ childErrorPipe' = [bytes |-> 0, open |-> TRUE]
          /\ fds' = fds \cup (Ends(Pipes(merge)) \ {<<N + 1, "child", 1>>})
          /\ parent' = "reads"
       \/ UNCHANGED <<children, childErrorPipe, fds, parent>>
    /\ UNCHANGED <<m_hasStarted, m_hasStopped, m_return, answer>>

Becomes(i, state, code) == children' = [children EXCEPT ![i].state = state, ![i].code = code]

\* In the child: fcntl() or exec() fails, and the error is written before it
\* becomes the exit code; or the program runs, and the end of the pipe is
\* closed.
reportError ==
    /\ children # <<>> /\ Child.state = "forked"
    /\ \E error \in Errors : Becomes(N, "reports", error)
    /\ childErrorPipe' = [bytes |-> 4, open |-> FALSE]
    /\ UNCHANGED <<parent, m_hasStarted, m_hasStopped, m_return, fds, answer>>
execvp ==
    /\ children # <<>> /\ Child.state = "forked"
    /\ Becomes(N, "runs", 0)
    /\ childErrorPipe' = [childErrorPipe EXCEPT !.open = FALSE]
    /\ UNCHANGED <<parent, m_hasStarted, m_hasStopped, m_return, fds, answer>>
exit ==
    /\ \E i \in 1..N :
           \/ children[i].state = "reports" /\ Becomes(i, "exited", children[i].code)
           \/ children[i].state = "runs" /\ \E code \in Codes : Becomes(i, "exited", code)
    /\ UNCHANGED <<parent, m_hasStarted, m_hasStopped, m_return, childErrorPipe, fds, answer>>

\* A signal ends a child wherever it is, and closes its end of the pipe.
kill ==
    /\ \E i \in 1..N :
           /\ children[i].state \in {"forked", "reports", "runs"}
           /\ children' = [children EXCEPT ![i].state = "exited", ![i].normal = FALSE]
           /\ childErrorPipe' = [childErrorPipe EXCEPT !.open = @ /\ i # N]
    /\ UNCHANGED <<parent, m_hasStarted, m_hasStopped, m_return, fds, answer>>

\* readFully() takes the last read's result from the count before each read:
\* it reads nothing after the four bytes and returns 0, and at the end of the
\* pipe, where read() returns 0, it reads for ever.
readFully(bytes) == IF bytes = 4 THEN 0 ELSE -2

\* The parent after fork(): only four bytes counted would be an error.
finishExec ==
    /\ parent = "reads" /\ (childErrorPipe.bytes = 4 \/ ~childErrorPipe.open)
    /\ LET bytesRead == readFully(childErrorPipe.bytes)
           unused == {<<N, "child", 0>>, <<N, "in", 0>>, <<N, "out", 1>>, <<N, "err", 1>>}
       IN CASE bytesRead = -2 ->
                   /\ parent' = "spins"
                   /\ UNCHANGED <<m_hasStarted, fds>>
            [] bytesRead = 4 ->
                   /\ parent' = "idle"
                   /\ fds' = {fd \in fds : fd[1] # N}
                   /\ UNCHANGED m_hasStarted
            [] OTHER ->
                   /\ parent' = "idle"
                   /\ fds' = fds \ unused
                   /\ m_hasStarted' = TRUE
    /\ childErrorPipe' = [childErrorPipe EXCEPT !.bytes = 0]
    /\ UNCHANGED <<m_hasStopped, m_return, children, answer>>

Zombie == Child.state = "exited"
Reaped(by) == children' = [children EXCEPT ![N].state = "reaped", ![N].by = by]

\* isRunning() reaps a child that ended, and lets its exit code go.
isRunning ==
    /\ parent = "idle" /\ m_hasStarted /\ ~m_hasStopped /\ Zombie
    /\ Reaped("isRunning")
    /\ m_hasStopped' = TRUE
    /\ UNCHANGED <<parent, m_hasStarted, m_return, childErrorPipe, fds, answer>>

\* The exit status, of a child that exited: 1 stands for a signal.
Status(child) == IF child.normal THEN child.code ELSE 1

\* waitFor() of an object that never started throws; of one that stopped
\* once, it returns what it knows.
waitFor ==
    /\ parent = "idle" /\ m_hasStarted
    /\ IF m_hasStopped
       THEN answer' = [of |-> N, code |-> m_return] /\ UNCHANGED <<m_hasStopped, m_return, children>>
       ELSE /\ Zombie
            /\ Reaped("waitFor")
            /\ m_hasStopped' = TRUE
            /\ m_return' = Status(Child)
            /\ answer' = [of |-> N, code |-> Status(Child)]
    /\ UNCHANGED <<parent, m_hasStarted, childErrorPipe, fds>>

Next ==
    \/ \E merge \in BOOLEAN : internalExec(merge)
    \/ reportError \/ execvp \/ exit \/ kill \/ finishExec \/ isRunning \/ waitFor

-----------------------------------------------------------------------------

\* The object's fields have their types.
TypeOK ==
    /\ parent \in {"idle", "reads", "spins"}
    /\ m_hasStarted \in BOOLEAN /\ m_hasStopped \in BOOLEAN /\ m_return \in Int

\* waitFor() answers for a child that ended and was reaped.  An object that
\* is used again after its first child stopped answers at once for the next:
\* that is exempt.
First(i) == \A j \in 1..(i - 1) : children[j].state # "reaped"
Guarded == answer.of > 0 /\ First(answer.of) => children[answer.of].state = "reaped"

\* The answer is the child's exit status, or 1 if a signal ended it.  Exempt
\* are a child that isRunning() reaped, whose status is lost, and an object
\* that is used again.  The parent keeps its own ends of the streams, and no
\* other of the last child's pipes.
Accounted ==
    /\ answer.of > 0 /\ First(answer.of) /\ children[answer.of].by = "waitFor" =>
           answer.code = Status(children[answer.of])
    /\ parent = "idle" /\ m_hasStarted =>
           {fd \in fds : fd[1] = N} =
               {<<N, "in", 1>>, <<N, "out", 0>>} \cup (IF Child.merge THEN {} ELSE {<<N, "err", 0>>})
=============================================================================
