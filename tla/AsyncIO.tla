------------------------------- MODULE AsyncIO -------------------------------
(***************************************************************************)
(* What a user of one of ge's asynchronous services may rely on, with no   *)
(* threads, no completion port and no reference counts: while the service  *)
(* is up it accepts requests, and it answers what it accepted by calling   *)
(* the user back.  Once it is closed nothing is answered any more.         *)
(* FileService.tla is shown to implement it.                               *)
(***************************************************************************)
CONSTANT Requests    \* the calls of fileRead, fileWrite... of the program

VARIABLES status,    \* where each request is in its life
          up         \* the service may call its users back

ioVars == <<status, up>>

IOInit ==
  /\ status = [r \in Requests |-> "fresh"]
  /\ up = FALSE

Open ==
  /\ ~up
  /\ up' = TRUE
  /\ UNCHANGED status

Accept(r) ==
  /\ up
  /\ status[r] = "fresh"
  /\ status' = [status EXCEPT ![r] = "accepted"]
  /\ UNCHANGED up

\* The first call of the callback of r.
Answer(r) ==
  /\ up
  /\ status[r] = "accepted"
  /\ status' = [status EXCEPT ![r] = "answered"]
  /\ UNCHANGED up

\* fileRead or fileWrite throws, at once or after it had joined the queue.
Refuse(r) ==
  /\ status[r] = "fresh"
  /\ status' = [status EXCEPT ![r] = "refused"]
  /\ UNCHANGED up

\* shutdown() returns: what was not answered by now never is.
Close ==
  /\ up
  /\ up' = FALSE
  /\ UNCHANGED status

IONext ==
  \/ Open \/ Close
  \/ \E r \in Requests : Accept(r) \/ Answer(r) \/ Refuse(r)

IOSpec == IOInit /\ [][IONext]_ioVars
=============================================================================
