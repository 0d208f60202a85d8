--------------------------------- MODULE Once ---------------------------------
(***************************************************************************)
(* call_once() on Windows: a spin lock of three values that Threads call   *)
(* with a function that may throw.                                         *)
(***************************************************************************)
EXTENDS Integers, FiniteSets

CONSTANT Threads

VARIABLES
    control,    \* 0 not run, 1 taken, 2 run
    pc,         \* where a thread is
    func        \* how often the function began, came back and threw

\* The exchange of control: the first thread owns it, a later one spins or is
\* done.
call_once(t) ==
    /\ pc[t] \in {"outside", "spins"}
    /\ control' = IF control = 0 THEN 1 ELSE control
    /\ pc' = [pc EXCEPT ![t] =
                 CASE control = 0 -> "runs" [] control = 1 -> "spins" [] OTHER -> "returned"]
    /\ func' = IF control = 0 THEN [func EXCEPT !.began = @ + 1] ELSE func

finish(t) ==
    /\ pc[t] = "runs"
    /\ control' = 2
    /\ pc' = [pc EXCEPT ![t] = "returned"]
    /\ func' = [func EXCEPT !.ended = @ + 1]

\* The exception leaves control as it is.
throw(t) ==
    /\ pc[t] = "runs"
    /\ pc' = [pc EXCEPT ![t] = "threw"]
    /\ func' = [func EXCEPT !.threw = @ + 1]
    /\ UNCHANGED control

Init ==
    /\ control = 0
    /\ pc = [t \in Threads |-> "outside"]
    /\ func = [began |-> 0, ended |-> 0, threw |-> 0]

Next == \E t \in Threads : call_once(t) \/ finish(t) \/ throw(t)

-----------------------------------------------------------------------------

\* The control word has one of its three values.
TypeOK == control \in 0..2 /\ \A f \in DOMAIN func : func[f] \in Nat

\* The function begins once, and who came back from call_once() came back
\* after it had ended.
Guarded ==
    /\ func.began <= 1
    /\ \A t \in Threads : pc[t] = "returned" => func.ended = 1

\* The word tells what became of the function.  It says "taken" with nobody
\* running the function only when the function threw: then the other threads
\* spin for ever.
Accounted ==
    /\ control = 0 <=> func.began = 0
    /\ control = 2 <=> func.ended = 1
    /\ (control = 1 /\ \A t \in Threads : pc[t] # "runs") => func.threw = 1
=============================================================================
