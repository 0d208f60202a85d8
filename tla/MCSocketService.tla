--------------------------- MODULE MCSocketService ---------------------------
(* Instances of SocketService for TLC.                                       *)
EXTENDS SocketService, TLC

CONSTANTS r1, r2, s1, s2, c1, c2, w1

Call(k, s, t, by, throws) ==
  [kind |-> k, on |-> s, into |-> t, by |-> by, throws |-> throws]

Both(a, b) == r1 :> a @@ r2 :> b

\* A server that reads what it accepts, two threads that connect one socket,
\* and a file and what its callback sends after it.  The workers are alike, so
\* that the callback that asks for more may as well be w1's.
ServerClientsAndFiles ==
  {Both(Call("accept", s1, s2, {c1}, FALSE), Call("recv", s2, None, {w1}, FALSE)),
   Both(Call("connect", s1, None, {c1}, FALSE), Call("connect", s1, None, {c2}, FALSE)),
   Both(Call("file", s1, None, {c1}, TRUE), Call("send", s1, None, {w1}, FALSE))}

Careful == {"nested", "reopen", "throw"}
=============================================================================
