-------------------------- MODULE SocketServiceProofs --------------------------
(***************************************************************************)
(* Proofs about SocketService, for any number of clients, workers, sockets *)
(* and requests, any programs and both versions of Windows.  An            *)
(* OVERLAPPED_EX has one owner at a time unless a receive was told an      *)
(* error that was not its own; sockets are ready when the system gets      *)
(* them, however threads race to initialize them; and in a careful program *)
(* the service implements AsyncIO, receives that are answered twice        *)
(* included.                                                               *)
(***************************************************************************)
EXTENDS SocketService, FiniteSetTheorems, SequenceTheorems, TLAPS

Resting == {"out", "port", "spawn", "wake", "join", "drain", "store", "abort"}
Preparation == {"add", "own", "partner", "init", "create", "owner", "addInto",
                "ownInto", "bind", "count"}
Making == Preparation \union {"post"}
Sending == {"submit", "decide", "early"}
Busy == Sending \union {"write"}

\* A worker that has nothing to do with its request any more, although it has
\* still to find that out.
Released(w) == doing[w] = "decide" /\ completionQueued(result[w])

\* Where the request r is.
Served(r) == \E i \in DOMAIN packets : packets[i].key = "server" /\ packets[i].req = r
Native(r) == \E i \in DOMAIN packets : packets[i].key = "native" /\ packets[i].req = r
Comes(r) == Native(r) \/ F!InFlight(r)
Sends(w, r) == holds[w] = r /\ doing[w] \in Sending
Ends(w, r) == holds[w] = r /\ doing[w] = "write"
Touches(w, r) == (Sends(w, r) /\ ~Released(w)) \/ Ends(w, r)

Waits(r) == overlapped[r] = "live" /\ io[r] = "none" /\ calls[r] = 0

-----------------------------------------------------------------------------
(* What is true of one request.                                             *)

\* It is made by one thread, and seen by nobody before it is counted.
Made(r) ==
  /\ \A a, b \in Threads : arg[a] = r /\ arg[b] = r => a = b
  /\ \A a \in Threads : arg[a] = r /\ pc[a] # "post" => overlapped[r] = "none"
  /\ overlapped[r] = "none" => io[r] = "none" /\ calls[r] = 0

\* It goes to the system once: by the thread that posts it, the port, a worker.
Sent(r) ==
  /\ \A a \in Threads : arg[a] = r /\ pc[a] = "post" =>
       Waits(r) /\ ~Served(r) /\ \A w \in Workers : ~Sends(w, r)
  /\ Served(r) => Waits(r) /\ \A w \in Workers : ~Sends(w, r)
  /\ \A w \in Workers : Sends(w, r) =>
       IF doing[w] = "submit" THEN Waits(r)
       ELSE io[r] # "none" /\ overlapped[r] \notin {"none", "refused"}
  /\ \A v, w \in Workers : Sends(v, r) /\ Sends(w, r) => v = w

\* It comes back once at most: from the kernel, by the port, to a worker.
Back(r) ==
  /\ Native(r) => io[r] = "over"
  /\ Comes(r) => overlapped[r] = "live" /\ \A w \in Workers : ~Ends(w, r)
  /\ \A w \in Workers : Ends(w, r) => overlapped[r] = "live" /\ io[r] = "over"
  /\ \A v, w \in Workers : Ends(v, r) /\ Ends(w, r) => v = w

\* Its callback is called once on either way, at most.
Counted(r) ==
  /\ Comes(r) => calls[r] <= 1
  /\ \A w \in Workers : holds[w] = r /\ doing[w] = "decide" =>
       calls[r] <= 1 /\ (Comes(r) => calls[r] = 0)

\* A worker that was told the error of its own call has it alone.
Honest(r) ==
  r \notin misread =>
    /\ calls[r] <= 1
    /\ Comes(r) => calls[r] = 0 /\ \A w \in Workers : ~Touches(w, r)
    /\ \A w \in Workers : Sends(w, r) /\ doing[w] # "submit" /\ ~Released(w) =>
         /\ overlapped[r] = "live" /\ io[r] = "over"
         /\ calls[r] = IF doing[w] = "decide" THEN 0 ELSE 1
         /\ \A v \in Workers : ~Ends(v, r)

RequestInv(r) == Made(r) /\ Sent(r) /\ Back(r) /\ Counted(r) /\ Honest(r)

\* Its sockets exist, belong to the service and are bound as the call needs,
\* unless a race of init() replaced the one that was bound.
Ready(r) ==
  /\ handle[program[r].on] # "closed"
  /\ kind(r) = "connect" => bound[program[r].on] \/ program[r].on \in raced
  /\ kind(r) = "accept" => handle[program[r].into] # "closed" /\ owned[program[r].into]

\* What a thread knows of its request r at each place: from the test of a
\* socket on, or from its init(), nobody closes that.
Placed(r, place) ==
  /\ target[r] = program[r].on
  /\ handle[program[r].on] # "closed" \/ (kind(r) = "connect" /\ place \in {"init", "create"})
  /\ place \in {"partner", "addInto", "ownInto"} => kind(r) = "accept"
  /\ place \in {"init", "create", "owner"} => kind(r) \in {"accept", "connect"}
  /\ place = "bind" => kind(r) = "connect"
  /\ place \in {"owner", "addInto", "ownInto"} /\ kind(r) = "accept"
       => handle[program[r].into] # "closed"
  /\ place \in {"count", "post"} => Ready(r)

Stage(a, r) == Placed(r, pc[a])

\* From CountUp until its answer the sockets of a request stay ready.
SocketInv(r) ==
  /\ \A a \in Threads : arg[a] = r => Stage(a, r)
  /\ overlapped[r] # "none" => target[r] = program[r].on
  /\ overlapped[r] = "live" /\ calls[r] = 0 => Ready(r)

-----------------------------------------------------------------------------
(* The inductive invariant.                                                 *)

Fields ==
  /\ TypeOK
  /\ packets \in Seq(F!Packets)
  /\ overlapped \in [Requests -> {"none", "live", "refused", "freed", "drained"}]
  /\ target \in [Requests -> Sockets \union {None}]
  /\ io \in [Requests -> {"none", "flying", "cancelled", "unheard", "over"}]
  /\ doing \in [Workers -> Busy \union {"none", "failed", "wait", "ended"}]
  /\ holds \in [Workers -> Requests \union {None}]
  /\ result \in [Workers -> {"ok", "failed", "queued"}]
  /\ arg \in [Threads -> Requests \union {None}]
  /\ vista \in BOOLEAN /\ program \in Programs

\* Who is in the middle of something has a request, and nobody else.
HandsInv ==
  /\ \A a \in Threads : arg[a] \in Requests <=> pc[a] \in Making
  /\ \A w \in Workers : holds[w] \in Requests <=> doing[w] \in Busy
  /\ \A w \in Workers : doing[w] = "none" <=> w \notin threads

\* No request is in the port twice.
PortOnce ==
  \A i, j \in DOMAIN packets :
    packets[i].req \in Requests /\ packets[i].req = packets[j].req => i = j

\* Only a socket that exists is bound.
Existing ==
  /\ handle \in [Sockets -> {"closed", "open", "linked", "astray"}]
  /\ owned \in [Sockets -> BOOLEAN] /\ bound \in [Sockets -> BOOLEAN]
  /\ raced \subseteq Sockets
  /\ \A s \in Sockets : bound[s] => handle[s] # "closed"

IInv ==
  /\ Fields /\ HandsInv /\ PortOnce /\ Existing
  /\ \A r \in Requests : RequestInv(r)
  /\ \A r \in Requests : SocketInv(r)

-----------------------------------------------------------------------------
(* The port: what a packet taken or posted leaves where it was.             *)

\* The oldest packet leaves, and no other is about its request.
LEMMA PortTail ==
  ASSUME packets \in Seq(F!Packets), PortOnce, packets # <<>>, packets' = Tail(packets)
  PROVE  /\ packets' \in Seq(F!Packets) /\ PortOnce'
         /\ \A r : Served(r)' => Served(r)
         /\ \A r : Native(r)' => Native(r)
         /\ Head(packets) \in F!Packets
         /\ Head(packets).key = "server" => Served(Head(packets).req)
         /\ Head(packets).key = "native" => Native(Head(packets).req)
         /\ \A r \in Requests : r = Head(packets).req => ~Served(r)' /\ ~Native(r)'
<1>1. Len(packets) \in Nat /\ Len(packets) > 0 /\ DOMAIN packets = 1 .. Len(packets)
  BY EmptySeq, LenProperties
<1>2. Len(packets') = Len(packets) - 1 /\ packets' \in Seq(F!Packets) /\ Head(packets) \in F!Packets
  BY HeadTailProperties
<1>3. DOMAIN packets' = 1 .. Len(packets) - 1
  BY <1>2, LenProperties
<1>4. \A i \in DOMAIN packets' : i \in Nat /\ i + 1 \in DOMAIN packets /\ packets'[i] = packets[i + 1]
  BY <1>1, <1>3
<1>5. 1 \in DOMAIN packets /\ Head(packets) = packets[1]
  BY <1>1
<1>6. PortOnce'
  <2>1. ASSUME NEW i \in DOMAIN packets', NEW j \in DOMAIN packets',
               packets'[i].req \in Requests, packets'[i].req = packets'[j].req
        PROVE  i = j
    <3>1. i + 1 = j + 1
      BY <1>4, <2>1 DEF PortOnce
    <3> QED BY <1>4, <3>1
  <2> QED BY <2>1 DEF PortOnce
<1>7. ASSUME NEW i \in DOMAIN packets', packets[1].req \in Requests
      PROVE  packets'[i].req # packets[1].req
  <2>1. i \in Nat /\ i + 1 \in DOMAIN packets /\ packets'[i] = packets[i + 1] /\ i + 1 # 1
    BY <1>3, <1>4
  <2> QED BY <1>5, <1>7, <2>1 DEF PortOnce
<1>8. \A r : (Served(r)' => Served(r)) /\ (Native(r)' => Native(r))
  BY <1>4 DEF Served, Native
<1>9. (packets[1].key = "server" => Served(packets[1].req)) /\ (packets[1].key = "native" => Native(packets[1].req))
  BY <1>5 DEF Served, Native
<1>10. \A r \in Requests : r = packets[1].req => ~Served(r)' /\ ~Native(r)'
  BY <1>7 DEF Served, Native
<1> QED BY <1>2, <1>5, <1>6, <1>8, <1>9, <1>10

\* A packet comes last, for a request that has none there.
LEMMA PortAppend ==
  ASSUME packets \in Seq(F!Packets), PortOnce, NEW p \in F!Packets, packets' = Append(packets, p),
         p.req \in Requests => ~Served(p.req) /\ ~Native(p.req)
  PROVE  /\ packets' \in Seq(F!Packets) /\ PortOnce'
         /\ \A r : Served(r)' => Served(r) \/ (r = p.req /\ p.key = "server")
         /\ \A r : Native(r)' => Native(r) \/ (r = p.req /\ p.key = "native")
<1>1. Len(packets) \in Nat /\ DOMAIN packets = 1 .. Len(packets)
  BY LenProperties
<1>2. packets' \in Seq(F!Packets) /\ DOMAIN packets' = 1 .. Len(packets) + 1
  BY AppendProperties, LenProperties
<1>3. \A i \in DOMAIN packets' :
        (i \in DOMAIN packets /\ packets'[i] = packets[i]) \/ (i = Len(packets) + 1 /\ packets'[i] = p)
  BY <1>1, <1>2, AppendProperties
<1>4. \A i \in DOMAIN packets : packets[i].req = p.req /\ p.req \in Requests => FALSE
  <2>1. \A i \in DOMAIN packets : packets[i] \in F!Packets
    BY <1>1, ElementOfSeq
  <2>2. \A i \in DOMAIN packets : packets[i].key \in {"server", "native"}
    BY <2>1 DEF F!Packets
  <2> QED BY <2>2 DEF Served, Native
<1>5. PortOnce'
  BY <1>3, <1>4 DEF PortOnce
<1> QED BY <1>2, <1>3, <1>5 DEF Served, Native

-----------------------------------------------------------------------------
(* One request among the others.                                            *)

\* A step gives r into no hands that did not have it, and does nothing to it
\* but, perhaps, to cancel it.
Fewer(r) ==
  /\ overlapped'[r] = overlapped[r] /\ calls'[r] = calls[r]
  /\ io'[r] = io[r] \/ (io[r] = "flying" /\ io'[r] = "cancelled")
  /\ \A a \in Threads : arg'[a] = r => arg[a] = r /\ (pc'[a] = "post" <=> pc[a] = "post")
  /\ (Served(r)' => Served(r)) /\ (Native(r)' => Native(r))
  /\ \A w \in Workers : holds'[w] = r =>
       holds[w] = r /\ doing'[w] = doing[w] /\ result'[w] = result[w]
  /\ r \in misread => r \in misread'

\* What is true of a request stays true then.
LEMMA RequestKept ==
  ASSUME NEW r \in Requests, RequestInv(r), Fewer(r), vista' = vista
  PROVE  RequestInv(r)'
<1> USE DEF Fewer
<1>1. Made(r)'
  BY DEF RequestInv, Made
<1>2. \A w \in Workers : /\ Sends(w, r)' => Sends(w, r) /\ doing'[w] = doing[w] /\ result'[w] = result[w]
                         /\ Ends(w, r)' => Ends(w, r)
                         /\ Touches(w, r)' => Touches(w, r)
  BY DEF Sends, Ends, Touches, Released, completionQueued
<1>3. Comes(r)' => Comes(r)
  BY DEF Comes, F!InFlight
<1>4. Waits(r) => Waits(r)'
  BY DEF Waits
<1>5. Sent(r)'
  BY <1>2, <1>4 DEF RequestInv, Sent
<1>6. Back(r)'
  BY <1>2, <1>3 DEF RequestInv, Back
<1>7. Counted(r)'
  BY <1>2, <1>3 DEF RequestInv, Counted
<1>8. Honest(r)'
  <2>1. ASSUME NEW w \in Workers, Sends(w, r)', ~Released(w)'  PROVE ~Released(w)
    BY <1>2, <2>1 DEF Released, completionQueued
  <2> QED BY <1>2, <1>3, <2>1 DEF RequestInv, Honest
<1> QED BY <1>1, <1>5, <1>6, <1>7, <1>8 DEF RequestInv

\* A step that does nothing else to any request.
LEMMA AllKept ==
  ASSUME IInv, \A r \in Requests : Fewer(r), vista' = vista
  PROVE  \A r \in Requests : RequestInv(r)'
BY RequestKept DEF IInv

\* A step of one request.
LEMMA OneMoves ==
  ASSUME IInv, NEW q \in Requests, \A r \in Requests \ {q} : Fewer(r), vista' = vista,
         RequestInv(q)'
  PROVE  \A r \in Requests : RequestInv(r)'
BY RequestKept DEF IInv

\* What is known where a step begins.
LEMMA Known ==
  ASSUME IInv
  PROVE  /\ packets \in Seq(F!Packets) /\ PortOnce
         /\ None \notin Requests /\ None \notin Sockets /\ Clients \intersect Workers = {}
         /\ pc \in [Threads -> Making \union Resting]
         /\ arg \in [Threads -> Requests \union {None}]
         /\ doing \in [Workers -> Busy \union {"none", "failed", "wait", "ended"}]
         /\ holds \in [Workers -> Requests \union {None}]
         /\ result \in [Workers -> {"ok", "failed", "queued"}]
         /\ overlapped \in [Requests -> {"none", "live", "refused", "freed", "drained"}]
         /\ io \in [Requests -> {"none", "flying", "cancelled", "unheard", "over"}]
         /\ calls \in [Requests -> 0..2]
         /\ \A r \in Requests : RequestInv(r)
BY SocketAssumption DEF IInv, Fields, TypeOK, Making, Preparation, Resting

\* The sockets as they were.
LEMMA ExistingKept ==
  ASSUME IInv, UNCHANGED <<handle, owned, bound, raced>>
  PROVE  Existing'
BY DEF IInv, Existing

-----------------------------------------------------------------------------
(* The steps that leave the requests where they are.                        *)

\* The program, and the sockets that exist, are the service's or are bound;
\* one that is bound no more was replaced.
Standing ==
  /\ program' = program
  /\ \A s \in Sockets :
       /\ handle[s] # "closed" => handle'[s] # "closed"
       /\ owned[s] => owned'[s]
       /\ bound[s] => bound'[s] \/ s \in raced'
       /\ s \in raced => s \in raced'

\* The request r is not a step further towards its system call.
Steady(r) ==
  /\ \A a \in Threads : arg'[a] = r => arg[a] = r /\ pc'[a] = pc[a]
  /\ target'[r] = target[r]
  /\ overlapped'[r] # "none" => overlapped[r] # "none"
  /\ overlapped'[r] = "live" => overlapped[r] = "live"
  /\ calls'[r] = 0 => calls[r] = 0

\* What a program says of a request.
LEMMA ProgramType ==
  ASSUME IInv, NEW r \in Requests
  PROVE  /\ program[r].on \in Sockets /\ program[r].on # None
         /\ kind(r) \in Kinds
         /\ kind(r) = "accept" => program[r].into \in Sockets
BY SocketAssumption DEF IInv, Fields, Calls, kind

\* The sockets of a request stay ready then.
LEMMA SocketsStand ==
  ASSUME IInv, Standing, NEW r \in Requests, Steady(r)
  PROVE  SocketInv(r)'
<1>1. program[r].on \in Sockets /\ (kind(r) = "accept" => program[r].into \in Sockets)
  BY ProgramType
<1>2. kind(r)' = kind(r)
  BY DEF kind, Standing
<1>3. Ready(r) => Ready(r)'
  BY <1>1, <1>2 DEF Ready, Standing
<1> QED BY <1>1, <1>2, <1>3 DEF IInv, SocketInv, Stage, Placed, Standing, Steady

\* The port has no packet that it did not have, about a request.
PortKept ==
  /\ packets' \in Seq(F!Packets) /\ PortOnce'
  /\ \A r \in Requests : (Served(r)' => Served(r)) /\ (Native(r)' => Native(r))

\* Workers are created, if anything.
Hired ==
  /\ doing' \in [Workers -> Busy \union {"none", "failed", "wait", "ended"}]
  /\ \A w \in Workers : doing'[w] # doing[w] => doing[w] = "none" /\ doing'[w] \in {"wait", "failed"}
  /\ \A w \in Workers : doing'[w] = "none" <=> w \notin threads'

\* A step of startServing or shutdown that frees nothing.
LEMMA ServiceStep ==
  ASSUME IInv, PortKept, Hired,
         NEW a \in Threads, NEW place, place \in Resting, pc[a] \in Resting,
         pc' = [pc EXCEPT ![a] = place],
         UNCHANGED <<handle, owned, overlapped, target, io, calls, holds, result, arg, socketVars>>
  PROVE  IInv'
<1>1. Fields'
  <2>1. TypeOK'
    BY DEF IInv, Fields, TypeOK, socketVars, fixedVars, initVars, Resting, kind
  <2> QED BY <2>1 DEF IInv, Fields, PortKept, Hired, socketVars, fixedVars, initVars
<1>2. HandsInv'
  BY DEF IInv, Fields, TypeOK, HandsInv, Hired, Resting, Making, Preparation, Busy, Sending
<1>3. \A b \in Threads : arg[b] \in Requests => pc'[b] = pc[b]
  BY DEF IInv, Fields, TypeOK, HandsInv, Resting, Making, Preparation
<1>4. \A r \in Requests : Fewer(r)
  <2> SUFFICES ASSUME NEW r \in Requests PROVE Fewer(r)
    OBVIOUS
  <2>1. \A w \in Workers : holds'[w] = r => doing[w] \in Busy
    BY DEF IInv, HandsInv
  <2>2. \A w \in Workers : holds'[w] = r => doing'[w] = doing[w]
    BY <2>1 DEF Hired, Busy, Sending
  <2> QED BY <1>3, <2>2 DEF Fewer, PortKept, socketVars
<1>5. \A r \in Requests : RequestInv(r)'
  BY <1>4, AllKept DEF socketVars, fixedVars, initVars
<1>6. \A r \in Requests : SocketInv(r)'
  BY <1>3, SocketsStand DEF Standing, Steady, socketVars, fixedVars, initVars
<1> QED BY <1>1, <1>2, <1>5, <1>6, ExistingKept DEF IInv, PortKept, socketVars, initVars

\* The port as it was.
LEMMA PortUnchanged ==
  ASSUME IInv, packets' = packets
  PROVE  PortKept
BY DEF PortKept, IInv, Fields, PortOnce, Served, Native

\* The workers as they were.
LEMMA WorkersUnchanged ==
  ASSUME IInv, doing' = doing, threads' = threads
  PROVE  Hired
BY DEF Hired, IInv, Fields, HandsInv

\* startServing tests the state and moves it on: nothing of a request changes.
LEMMA StartServingKeeps ==
  ASSUME IInv, NEW c \in Clients, StartServing(c)
  PROVE  IInv'
<1>1. c \in Threads /\ pc[c] \in Resting /\ "port" \in Resting
  BY DEF StartServing, F!StartServing, Threads, Resting
<1>2. pc' = [pc EXCEPT ![c] = "port"] /\ packets' = packets /\ doing' = doing /\ threads' = threads
  BY DEF StartServing, F!StartServing, F!At, F!workerVars
<1>3. UNCHANGED <<handle, owned, overlapped, target, io, calls, holds, result, arg, socketVars>>
  BY DEF StartServing, F!StartServing, F!fileVars, F!requestVars, F!workerVars
<1> QED BY <1>1, <1>2, <1>3, PortUnchanged, WorkersUnchanged, ServiceStep

\* startServing opens an empty port, as the service was never served.
LEMMA CreatePortKeeps ==
  ASSUME IInv, NEW c \in Clients, CreatePort(c)
  PROVE  IInv'
<1>1. c \in Threads /\ pc[c] \in Resting /\ "spawn" \in Resting
  BY DEF CreatePort, F!CreatePort, Threads, Resting
<1>2. pc' = [pc EXCEPT ![c] = "spawn"] /\ packets' = packets /\ doing' = doing /\ threads' = threads
  BY DEF CreatePort, F!CreatePort, F!At, F!workerVars
<1>3. UNCHANGED <<handle, owned, overlapped, target, io, calls, holds, result, arg, socketVars>>
  BY DEF CreatePort, F!CreatePort, F!fileVars, F!requestVars, F!workerVars
<1> QED BY <1>1, <1>2, <1>3, PortUnchanged, WorkersUnchanged, ServiceStep

\* startServing gives the service a worker that holds nothing yet.
LEMMA SpawnWorkerKeeps ==
  ASSUME IInv, NEW c \in Clients, NEW w \in Workers, SpawnWorker(c, w)
  PROVE  IInv'
<1> DEFINE place == IF pc'[c] = "spawn" THEN "spawn" ELSE "out"
<1>1. c \in Threads /\ pc[c] \in Resting /\ place \in Resting
  BY DEF SpawnWorker, F!SpawnWorker, Threads, Resting
<1>2. /\ pc' = [pc EXCEPT ![c] = place]
      /\ packets' = packets /\ threads' = threads \union {w} /\ w \notin threads
  <2>1. pc \in [Threads -> Making \union Resting]
    BY Known
  <2>2. pc' = [pc EXCEPT ![c] = "out"] \/ pc' = [pc EXCEPT ![c] = "spawn"]
    BY DEF SpawnWorker, F!SpawnWorker, F!At
  <2>3. packets' = packets /\ threads' = threads \union {w} /\ w \notin threads
    BY DEF SpawnWorker, F!SpawnWorker
  <2> QED BY <1>1, <2>1, <2>2, <2>3
<1>3. UNCHANGED <<handle, owned, overlapped, target, io, calls, holds, result, arg, socketVars>>
  BY DEF SpawnWorker, F!SpawnWorker, F!fileVars, F!requestVars
<1>4. Hired
  <2>1. doing' = [doing EXCEPT ![w] = "wait"] \/ doing' = [doing EXCEPT ![w] = "failed"]
    BY DEF SpawnWorker, F!SpawnWorker
  <2> QED BY <1>2, <2>1 DEF Hired, IInv, Fields, HandsInv
<1> HIDE DEF place
<1> QED BY <1>1, <1>2, <1>3, <1>4, PortUnchanged, ServiceStep

\* shutdown() moves the state on: nothing of a request changes.
LEMMA ShutdownKeeps ==
  ASSUME IInv, NEW a \in Threads, Shutdown(a)
  PROVE  IInv'
<1> DEFINE place == pc'[a]
<1>1. pc[a] = "out" /\ pc \in [Threads -> Making \union Resting]
  BY Known DEF Shutdown, F!Shutdown, F!MayCall, Making, Preparation, Resting
<1>2. pc' = pc \/ pc' = [pc EXCEPT ![a] = "drain"] \/ pc' = [pc EXCEPT ![a] = "wake"]
  BY DEF Shutdown, F!Shutdown, F!At
<1>3. pc' = [pc EXCEPT ![a] = place] /\ place \in Resting /\ pc[a] \in Resting
  BY <1>1, <1>2 DEF Resting
<1>4. packets' = packets /\ doing' = doing /\ threads' = threads
  BY DEF Shutdown, F!Shutdown, F!workerVars
<1>5. UNCHANGED <<handle, owned, overlapped, target, io, calls, holds, result, arg, socketVars>>
  BY DEF Shutdown, F!Shutdown, F!fileVars, F!requestVars, F!workerVars
<1> HIDE DEF place
<1> QED BY <1>3, <1>4, <1>5, PortUnchanged, WorkersUnchanged, ServiceStep

\* OP_SHUTDOWN is about no request.
LEMMA ShutdownPacketType ==
  /\ F!ShutdownPacket \in F!Packets
  /\ F!ShutdownPacket.req = None
BY DEF F!ShutdownPacket, F!Packet, F!Packets, F!Results

\* shutdown() posts a packet that is about no request.
LEMMA PostShutdownKeeps ==
  ASSUME IInv, NEW a \in Threads, PostShutdown(a)
  PROVE  IInv'
<1> DEFINE place == pc'[a]
<1>1. pc[a] = "wake" /\ pc \in [Threads -> Making \union Resting]
  BY Known DEF PostShutdown, F!PostShutdown, Making, Preparation, Resting
<1>2. pc' = [pc EXCEPT ![a] = "join"] \/ pc' = [pc EXCEPT ![a] = "wake"] \/ pc' = [pc EXCEPT ![a] = "out"]
  BY DEF PostShutdown, F!PostShutdown, F!At
<1>3. pc' = [pc EXCEPT ![a] = place] /\ place \in Resting /\ pc[a] \in Resting
  BY <1>1, <1>2 DEF Resting
<1>4. doing' = doing /\ threads' = threads
  BY DEF PostShutdown, F!PostShutdown, F!workerVars
<1>5. UNCHANGED <<handle, owned, overlapped, target, io, calls, holds, result, arg, socketVars>>
  BY DEF PostShutdown, F!PostShutdown, F!fileVars, F!requestVars, F!workerVars
<1>6. PortKept
  <2>1. CASE packets' = packets
    BY <2>1, PortUnchanged
  <2>2. CASE packets' = Append(packets, F!ShutdownPacket)
    <3>1. None \notin Requests
      BY Known
    <3> QED BY <2>2, <3>1, Known, PortAppend, ShutdownPacketType DEF PortKept
  <2> QED BY <2>1, <2>2 DEF PostShutdown, F!PostShutdown
<1> HIDE DEF place
<1> QED BY <1>3, <1>4, <1>5, <1>6, WorkersUnchanged, ServiceStep

\* shutdown() joins a worker that has ended, and so holds nothing.
LEMMA JoinKeeps ==
  ASSUME IInv, NEW a \in Threads, Join(a)
  PROVE  IInv'
<1> DEFINE place == pc'[a]
<1>1. pc[a] = "join" /\ pc \in [Threads -> Making \union Resting]
  BY Known DEF Join, F!Join, Making, Preparation, Resting
<1>2. pc' = [pc EXCEPT ![a] = "drain"] \/ pc' = [pc EXCEPT ![a] = "out"]
  BY DEF Join, F!Join, F!At
<1>3. pc' = [pc EXCEPT ![a] = place] /\ place \in Resting /\ pc[a] \in Resting
  BY <1>1, <1>2 DEF Resting
<1>4. packets' = packets /\ doing' = doing /\ threads' = threads
  BY DEF Join, F!Join, F!serviceVars, F!workerVars
<1>5. UNCHANGED <<handle, owned, overlapped, target, io, calls, holds, result, arg, socketVars>>
  BY DEF Join, F!Join, F!fileVars, F!requestVars, F!workerVars
<1> HIDE DEF place
<1> QED BY <1>3, <1>4, <1>5, PortUnchanged, WorkersUnchanged, ServiceStep

\* shutdown() stores _pending: nothing of a request changes.
LEMMA StorePendingKeeps ==
  ASSUME IInv, NEW a \in Threads, StorePending(a)
  PROVE  IInv'
<1>1. pc[a] \in Resting /\ "drain" \in Resting /\ pc' = [pc EXCEPT ![a] = "drain"]
  BY DEF StorePending, F!StorePending, F!At, Resting
<1>2. packets' = packets /\ doing' = doing /\ threads' = threads
  BY DEF StorePending, F!StorePending, F!workerVars
<1>3. UNCHANGED <<handle, owned, overlapped, target, io, calls, holds, result, arg, socketVars>>
  BY DEF StorePending, F!StorePending, F!fileVars, F!requestVars, F!workerVars
<1> QED BY <1>1, <1>2, <1>3, PortUnchanged, WorkersUnchanged, ServiceStep

\* shutdown() closes the port, and what is still in it goes with it.
LEMMA ClosePortKeeps ==
  ASSUME IInv, NEW a \in Threads, ClosePort(a)
  PROVE  IInv'
<1>1. pc[a] \in Resting /\ "out" \in Resting /\ pc' = [pc EXCEPT ![a] = "out"]
  BY DEF ClosePort, F!ClosePort, F!At, Resting
<1>2. packets' = <<>> /\ doing' = doing /\ threads' = threads
  BY DEF ClosePort, F!ClosePort, F!workerVars
<1>3. UNCHANGED <<handle, owned, overlapped, target, io, calls, holds, result, arg, socketVars>>
  BY DEF ClosePort, F!ClosePort, F!fileVars, F!requestVars, F!workerVars
<1>4. PortKept
  <2>1. DOMAIN packets' = {} /\ packets' \in Seq(F!Packets)
    BY <1>2, EmptySeq
  <2> QED BY <2>1 DEF PortKept, PortOnce, Served, Native
<1> QED BY <1>1, <1>2, <1>3, <1>4, WorkersUnchanged, ServiceStep

\* The invariant holds when the service has been constructed.
LEMMA InitKeeps ==
  ASSUME Init
  PROVE  IInv
<1>1. Fields
  <2>1. packets \in Seq(F!Packets)
    BY EmptySeq DEF Init
  <2> QED BY <2>1 DEF Init, Fields, TypeOK, Busy, Sending
<1>2. HandsInv /\ PortOnce
  BY SocketAssumption DEF Init, HandsInv, PortOnce, Making, Preparation, Busy, Sending
<1>3. ASSUME NEW r \in Requests PROVE RequestInv(r) /\ SocketInv(r)
  <2>1. None # r
    BY SocketAssumption
  <2>2. ~Comes(r) /\ ~Served(r) /\ ~Native(r) /\ \A w \in Workers : ~Sends(w, r) /\ ~Ends(w, r)
    BY <2>1 DEF Init, Comes, Served, Native, Sends, Ends, Sending, F!InFlight
  <2>3. Made(r) /\ Sent(r) /\ Back(r) /\ Counted(r) /\ Honest(r)
    BY <2>1, <2>2 DEF Init, Made, Sent, Back, Counted, Honest
  <2>4. SocketInv(r)
    BY <2>1 DEF Init, SocketInv
  <2> QED BY <2>3, <2>4 DEF RequestInv
<1>4. Existing
  BY DEF Init, Existing
<1> QED BY <1>1, <1>2, <1>3, <1>4 DEF IInv

-----------------------------------------------------------------------------
(* AioSocket, and the first steps of a request.                             *)

\* A step of a program that moves no thread of the service and no request.
LEMMA ProgramStep ==
  ASSUME IInv, Touched, initializing' \subseteq Sockets, Existing', Standing
  PROVE  IInv'
<1>1. UNCHANGED <<packets, overlapped, io, calls, doing, holds, result, pc, arg, vista, program,
                  target, owned, threads, lastError, misread>>
  BY DEF Touched, serviceVars, requestVars, workerVars, fixedVars
<1>2. Fields'
  BY <1>1 DEF IInv, Fields, TypeOK, Existing, kind
<1>3. HandsInv' /\ PortOnce'
  BY <1>1 DEF IInv, HandsInv, PortOnce
<1>4. \A r \in Requests : Fewer(r)
  BY <1>1 DEF Fewer, Served, Native
<1>5. \A r \in Requests : RequestInv(r)'
  BY <1>1, <1>4, AllKept
<1>6. \A r \in Requests : SocketInv(r)'
  BY <1>1, SocketsStand DEF Steady
<1> QED BY <1>2, <1>3, <1>5, <1>6 DEF IInv

\* A socket gets a new system socket: what is not bound any more was replaced.
LEMMA RenewStands ==
  ASSUME IInv, NEW s \in Sockets, Renew(s), owned' = owned, program' = program
  PROVE  Existing' /\ Standing /\ handle'[s] # "closed"
BY DEF IInv, Existing, Renew, Standing

\* The test of _winSocket in an init() of the program changes no socket.
LEMMA InitSocketKeeps ==
  ASSUME IInv, NEW s \in Sockets, InitSocket(s)
  PROVE  IInv'
<1>1. UNCHANGED <<handle, owned, bound, raced, program>> /\ Touched /\ initializing' = initializing \union {s}
  BY DEF InitSocket, Touched, fixedVars
<1>2. Existing' /\ Standing
  BY <1>1, ExistingKept DEF Standing
<1> QED BY <1>1, <1>2, ProgramStep DEF IInv, Fields, TypeOK

\* The program's init() stores the new system socket, over whatever is there.
LEMMA InitStoresKeeps ==
  ASSUME IInv, NEW s \in Sockets, InitStores(s)
  PROVE  IInv'
<1>1. Renew(s) /\ Touched /\ owned' = owned /\ program' = program /\ initializing' = initializing \ {s}
  BY DEF InitStores, Touched, fixedVars
<1> QED BY <1>1, RenewStands, ProgramStep DEF IInv, Fields, TypeOK

\* AioSocket::bind binds a socket, and takes no readiness from any.
LEMMA BindSocketKeeps ==
  ASSUME IInv, NEW s \in Sockets, BindSocket(s)
  PROVE  IInv'
<1>1. /\ bound' = [bound EXCEPT ![s] = TRUE] /\ handle[s] # "closed"
      /\ Touched /\ UNCHANGED <<handle, owned, raced, program, initializing>>
  BY DEF BindSocket, Touched, fixedVars
<1>2. Existing' /\ Standing
  BY <1>1 DEF IInv, Existing, Standing
<1> QED BY <1>1, <1>2, ProgramStep DEF IInv, Fields, TypeOK

\* Who closes a socket has the answers of all its requests.
LEMMA CloseSocketKeeps ==
  ASSUME IInv, NEW s \in Sockets, CloseSocket(s)
  PROVE  IInv'
<1>1. /\ handle' = [handle EXCEPT ![s] = "closed"] /\ bound' = [bound EXCEPT ![s] = FALSE]
      /\ raced' = raced \ {s} /\ initializing' = initializing /\ Touched /\ Answered(s)
  BY DEF CloseSocket
<1>2. UNCHANGED <<packets, overlapped, io, calls, doing, holds, result, pc, arg, vista, program,
                  target, owned, threads, lastError, misread>>
  BY <1>1 DEF Touched, serviceVars, requestVars, workerVars, fixedVars
<1>3. Existing'
  BY <1>1, <1>2 DEF IInv, Existing
<1>4. Fields' /\ HandsInv' /\ PortOnce'
  <2>1. Fields'
    BY <1>1, <1>2, <1>3 DEF IInv, Fields, TypeOK, Existing, kind
  <2> QED BY <1>2, <2>1 DEF IInv, HandsInv, PortOnce
<1>5. \A r \in Requests : RequestInv(r)'
  <2>1. \A r \in Requests : Fewer(r)
    BY <1>2 DEF Fewer, Served, Native
  <2> QED BY <1>2, <2>1, AllKept
<1>6. ASSUME NEW r \in Requests PROVE SocketInv(r)'
  <2>1. program[r].on \in Sockets /\ program[r].on # None /\ (kind(r) = "accept" => program[r].into \in Sockets)
    BY ProgramType
  <2>2. SocketInv(r) /\ None # r /\ calls[r] \in 0..2
    BY Known DEF IInv
  <2>3. kind(r)' = kind(r)
    BY <1>2 DEF kind
  <2>4. CASE s \in {program[r].on, program[r].into} /\ target[r] # None
    <3>1. calls[r] > 0 \/ overlapped[r] = "refused"
      BY <1>1, <2>4 DEF Answered, Uses
    <3>2. \A a \in Threads : arg[a] # r
      BY <1>1, <2>2, <2>4 DEF Answered, Uses
    <3> QED BY <1>2, <2>2, <3>1, <3>2 DEF SocketInv
  <2>5. CASE target[r] = None
    <3>1. (\A a \in Threads : arg[a] # r) /\ overlapped[r] = "none"
      BY <2>1, <2>2, <2>5 DEF SocketInv, Stage, Placed
    <3> QED BY <1>2, <3>1 DEF SocketInv
  <2>6. CASE s \notin {program[r].on, program[r].into}
    <3>1. handle'[program[r].on] = handle[program[r].on]
      BY <1>1, <1>3, <2>1, <2>6 DEF IInv, Existing
    <3>2. kind(r) = "accept" => handle'[program[r].into] = handle[program[r].into]
      BY <1>1, <1>3, <2>1, <2>6 DEF IInv, Existing
    <3>3. Ready(r) => Ready(r)'
      BY <1>1, <1>2, <2>1, <2>3, <2>6, <3>1, <3>2 DEF Ready, IInv, Existing
    <3>4. ASSUME NEW a \in Threads, Stage(a, r) PROVE Stage(a, r)'
      BY <1>2, <2>3, <3>1, <3>2, <3>3, <3>4 DEF Stage, Placed
    <3> QED BY <1>2, <2>2, <3>3, <3>4 DEF SocketInv
  <2> QED BY <2>4, <2>5, <2>6
<1> QED BY <1>3, <1>4, <1>5, <1>6 DEF IInv

\* A thread that makes a request does the next step of it: what its other
\* steps have in common.
LEMMA CallerStep ==
  ASSUME IInv, NEW a \in Threads,
         UNCHANGED <<packets, threads, overlapped, io, calls, doing, holds, result,
                     lastError, misread, fixedVars, initializing>>,
         NEW place, place \in Making \union Resting, pc' = [pc EXCEPT ![a] = place],
         NEW q, q \in Requests \union {None}, arg' = [arg EXCEPT ![a] = q],
         q \in Requests <=> place \in Making,
         q \in Requests => /\ arg[a] = q \/ (arg[a] = None /\ \A b \in Threads : arg[b] # q)
                           /\ overlapped[q] = "none",
         place # "post" /\ pc[a] # "post", Existing',
         target' \in [Requests -> Sockets \union {None}]
  PROVE  Fields' /\ HandsInv' /\ PortOnce' /\ \A r \in Requests : RequestInv(r)'
<1>1. pc \in [Threads -> Making \union Resting] /\ arg \in [Threads -> Requests \union {None}]
  BY Known
<1>2. pc' \in [Threads -> Making \union Resting] /\ arg' \in [Threads -> Requests \union {None}]
  BY <1>1
<1>3. Fields'
  <2>1. TypeOK'
    BY <1>2 DEF IInv, Fields, TypeOK, Existing, kind, fixedVars, Making, Preparation, Resting
  <2> QED BY <1>2, <2>1 DEF IInv, Fields, fixedVars
<1>4. HandsInv'
  BY <1>1 DEF IInv, HandsInv
<1>5. PortOnce'
  BY DEF IInv, PortOnce
<1>6. ASSUME NEW r \in Requests, r # q PROVE Fewer(r)
  BY <1>1, <1>6 DEF Fewer, Served, Native
<1>7. ASSUME q \in Requests PROVE RequestInv(q)'
  <2>1. RequestInv(q)
    BY <1>7 DEF IInv
  <2>2. \A b \in Threads : arg'[b] = q <=> b = a
    <3>1. arg[a] = q => \A b \in Threads : arg[b] = q => b = a
      BY <2>1 DEF RequestInv, Made
    <3> QED BY <1>1, <1>7, <3>1
  <2>3. Made(q)'
    BY <1>7, <2>1, <2>2 DEF RequestInv, Made
  <2>4. UNCHANGED <<Served(q), Native(q), Comes(q), Waits(q)>>
    BY DEF Served, Native, Comes, Waits, F!InFlight
  <2>5. \A w \in Workers : /\ Sends(w, q)' = Sends(w, q) /\ Ends(w, q)' = Ends(w, q)
                           /\ Touches(w, q)' = Touches(w, q) /\ Released(w)' = Released(w)
    BY DEF Sends, Ends, Touches, Released, completionQueued, fixedVars
  <2>6. Sent(q)'
    BY <1>1, <2>1, <2>2, <2>4, <2>5 DEF RequestInv, Sent
  <2>7. Back(q)' /\ Counted(q)' /\ Honest(q)'
    BY <2>1, <2>4, <2>5 DEF RequestInv, Back, Counted, Honest
  <2> QED BY <2>3, <2>6, <2>7 DEF RequestInv
<1>8. \A r \in Requests : RequestInv(r)'
  BY <1>6, <1>7, AllKept, OneMoves DEF fixedVars
<1> QED BY <1>3, <1>4, <1>5, <1>8

\* The request a thread has in hands.
LEMMA InHands ==
  ASSUME IInv, NEW a \in Threads, pc[a] \in Making
  PROVE  /\ arg[a] \in Requests /\ arg[a] # None
         /\ \A b \in Threads : arg[b] = arg[a] => b = a
         /\ pc[a] # "post" => overlapped[arg[a]] = "none"
         /\ Placed(arg[a], pc[a])
         /\ program[arg[a]].on \in Sockets
         /\ kind(arg[a]) = "accept" => program[arg[a]].into \in Sockets
<1>1. arg[a] \in Requests
  BY DEF IInv, HandsInv
<1>2. RequestInv(arg[a]) /\ SocketInv(arg[a])
  BY <1>1 DEF IInv
<1>3. Made(arg[a])
  BY <1>2 DEF RequestInv
<1> QED BY <1>1, <1>2, <1>3, Known, ProgramType DEF Made, SocketInv, Stage

\* A thread goes on with its request q: the sockets of all.
LEMMA CallerSockets ==
  ASSUME IInv, Standing, NEW a \in Threads, UNCHANGED <<overlapped, calls>>,
         NEW q \in Requests, overlapped[q] = "none", \A b \in Threads : arg[b] = q => b = a,
         \A b \in Threads \ {a} : pc'[b] = pc[b] /\ arg'[b] = arg[b],
         arg'[a] = q, Stage(a, q)',
         \A r \in Requests : r # q => target'[r] = target[r]
  PROVE  \A r \in Requests : SocketInv(r)'
<1>1. ASSUME NEW r \in Requests, r # q PROVE SocketInv(r)'
  <2>1. \A b \in Threads : arg'[b] = r => arg[b] = r /\ pc'[b] = pc[b]
    BY <1>1
  <2>2. Steady(r)
    BY <1>1, <2>1 DEF Steady
  <2> QED BY <2>2, SocketsStand
<1>2. SocketInv(q)'
  <2>1. \A b \in Threads : arg'[b] = q => b = a
    OBVIOUS
  <2> QED BY <2>1 DEF SocketInv
<1> QED BY <1>1, <1>2

\* A thread gives its request q up.
LEMMA GivenUpSockets ==
  ASSUME IInv, Standing, NEW a \in Threads,
         UNCHANGED <<overlapped, calls>>,
         NEW place, pc' = [pc EXCEPT ![a] = place],
         NEW q \in Requests, overlapped[q] = "none", arg[a] = q, \A b \in Threads : arg[b] = q => b = a,
         arg' = [arg EXCEPT ![a] = None],
         \A r \in Requests : r # q => target'[r] = target[r]
  PROVE  \A r \in Requests : SocketInv(r)'
<1>1. arg \in [Threads -> Requests \union {None}] /\ pc \in [Threads -> Making \union Resting] /\ None \notin Requests
  BY Known
<1>2. ASSUME NEW r \in Requests, r # q PROVE SocketInv(r)'
  <2>1. \A b \in Threads : arg'[b] = r => arg[b] = r /\ pc'[b] = pc[b]
    BY <1>1, <1>2
  <2>2. Steady(r)
    BY <1>2, <2>1 DEF Steady
  <2> QED BY <2>2, SocketsStand
<1>3. SocketInv(q)'
  <2>1. \A b \in Threads : arg'[b] # q
    BY <1>1
  <2> QED BY <2>1, Known DEF SocketInv
<1> QED BY <1>2, <1>3

\* A thread that makes the request q goes on with it, or gives it up.
LEMMA PreparingKeeps ==
  ASSUME IInv, NEW a \in Threads, NEW q \in Requests, arg[a] = q, pc[a] \in Preparation, Preparing,
         NEW place \in Preparation, (Proceed(a, place) /\ Placed(q, place)') \/ GiveUp(a),
         Existing', Standing
  PROVE  IInv'
<1>1. /\ \A b \in Threads : arg[b] = q => b = a
      /\ overlapped[q] = "none" /\ pc[a] # "post" /\ place # "post"
  BY InHands DEF Making, Preparation
<1>2. UNCHANGED <<packets, threads, overlapped, io, calls, doing, holds, result,
                  lastError, misread, fixedVars, initializing>>
  BY DEF Preparing, serviceVars, requestVars, workerVars
<1>3. /\ pc \in [Threads -> Making \union Resting] /\ arg \in [Threads -> Requests \union {None}]
      /\ target \in [Requests -> Sockets \union {None}] /\ None \notin Requests
  BY Known DEF IInv, Fields
<1>4. CASE Proceed(a, place)
  <2>1. /\ pc' = [pc EXCEPT ![a] = place] /\ arg' = [arg EXCEPT ![a] = q] /\ UNCHANGED <<arg, target>>
    BY <1>3, <1>4 DEF Proceed, F!At
  <2>2. Placed(q, place)'
    <3>1. arg'[a] # None
      BY <1>3, <2>1
    <3> QED BY <1>3, <3>1 DEF GiveUp, F!Throw
  <2>3. Fields' /\ HandsInv' /\ PortOnce' /\ \A r \in Requests : RequestInv(r)'
    BY <1>1, <1>2, <1>3, <2>1, CallerStep DEF Making, Preparation
  <2>4. Stage(a, q)' /\ \A b \in Threads \ {a} : pc'[b] = pc[b]
    BY <1>3, <2>1, <2>2 DEF Stage
  <2>5. \A r \in Requests : SocketInv(r)'
    BY <1>1, <1>2, <2>1, <2>4, CallerSockets
  <2> QED BY <2>3, <2>5 DEF IInv
<1>5. CASE GiveUp(a)
  <2>1. /\ pc' = [pc EXCEPT ![a] = "out"] /\ arg' = [arg EXCEPT ![a] = None]
        /\ target' = [target EXCEPT ![q] = None]
    BY <1>5 DEF GiveUp, F!Throw, F!At
  <2>2. "out" \in Resting /\ "out" \notin Making /\ "out" # "post"
    BY DEF Resting, Making, Preparation
  <2>3. Fields' /\ HandsInv' /\ PortOnce' /\ \A r \in Requests : RequestInv(r)'
    BY <1>1, <1>2, <1>3, <2>1, <2>2, CallerStep
  <2>4. \A r \in Requests : SocketInv(r)'
    BY <1>1, <1>2, <1>3, <2>1, GivenUpSockets
  <2> QED BY <2>3, <2>4 DEF IInv
<1> QED BY <1>4, <1>5

\* Where a request of a socket that exists goes on from there.
LEMMA NextPlace ==
  ASSUME NEW q \in Requests, program' = program,
         target'[q] = program[q].on, handle'[program[q].on] # "closed"
  PROVE  NextStep(q) \in Preparation /\ \A place : place = NextStep(q) => Placed(q, place)'
<1>1. NextStep(q) \in Preparation
  BY DEF NextStep, Preparation
<1>2. SUFFICES ASSUME NEW place, place = NextStep(q) PROVE Placed(q, place)'
  BY <1>1
<1>3. /\ place \in {"partner", "bind", "count"}
      /\ place = "partner" => kind(q) = "accept"
      /\ place = "bind" => kind(q) = "connect"
      /\ place = "count" => kind(q) \notin {"accept", "connect"}
  BY <1>2 DEF NextStep
<1> QED BY <1>3 DEF Placed, Ready, kind

\* addSocket leaves every socket at least as ready.
LEMMA AssociateStands ==
  ASSUME IInv, NEW a, NEW at, NEW s \in Sockets, NEW then, Associate(a, at, s, then)
  PROVE  /\ Preparing /\ pc[a] = at /\ Existing' /\ Standing /\ UNCHANGED <<owned, bound, raced>>
         /\ (Proceed(a, then) /\ handle'[s] # "closed") \/ GiveUp(a)
<1>1. Preparing /\ pc[a] = at /\ UNCHANGED <<owned, bound, raced, program>>
  BY DEF Associate, Preparing, fixedVars
<1>2. handle \in [Sockets -> {"closed", "open", "linked", "astray"}]
  BY DEF IInv, Existing
<1>3. \/ /\ handle[s] = "open" /\ Proceed(a, then)
         /\ handle' = [handle EXCEPT ![s] = IF port = "open" THEN "linked" ELSE "astray"]
      \/ GiveUp(a) /\ handle' = handle
  BY DEF Associate
<1>4. Existing' /\ Standing
  BY <1>1, <1>2, <1>3 DEF IInv, Existing, Standing
<1> QED BY <1>1, <1>2, <1>3, <1>4

\* So does the store of its owner.
LEMMA OwnStands ==
  ASSUME IInv, NEW a, NEW at, NEW s \in Sockets, NEW then, Own(a, at, s, then)
  PROVE  /\ Preparing /\ pc[a] = at /\ Existing' /\ Standing /\ UNCHANGED <<handle, bound, raced>>
         /\ Proceed(a, then) /\ owned'[s]
<1>1. Preparing /\ pc[a] = at /\ UNCHANGED <<handle, bound, raced, program>> /\ Proceed(a, then)
      /\ owned' = [owned EXCEPT ![s] = TRUE]
  BY DEF Own, Preparing, fixedVars
<1>2. Existing' /\ Standing /\ owned'[s]
  BY <1>1 DEF IInv, Existing, Standing
<1> QED BY <1>1, <1>2

\* addSocket of the socket itself: the caller goes on with it ready, or gives up.
LEMMA AddTargetKeeps ==
  ASSUME IInv, NEW a \in Threads, AddTarget(a)
  PROVE  IInv'
<1>1. pc[a] \in {"add", "own"}
  BY DEF AddTarget, Associate, Own
<1>2. PICK q \in Requests : q = arg[a]
  BY <1>1, InHands DEF Making, Preparation
<1> DEFINE s == program[q].on
<1>3. Placed(q, pc[a]) /\ s \in Sockets
  BY <1>1, <1>2, InHands DEF Making, Preparation
<1>4. target[q] = s /\ handle[s] # "closed"
  BY <1>1, <1>3 DEF Placed
<1>5. CASE Associate(a, "add", target[arg[a]], "own")
  <2>1. Associate(a, "add", s, "own")
    BY <1>2, <1>4, <1>5
  <2>2. /\ Preparing /\ Existing' /\ Standing
        /\ (Proceed(a, "own") /\ handle'[s] # "closed") \/ GiveUp(a)
    BY <1>3, <2>1, AssociateStands
  <2>3. Proceed(a, "own") => target'[q] = s /\ program' = program
    BY <1>4, <2>2 DEF Proceed, Standing
  <2>4. (Proceed(a, "own") /\ Placed(q, "own")') \/ GiveUp(a)
    BY <2>2, <2>3 DEF Placed
  <2> QED BY <1>1, <1>2, <2>2, <2>4, PreparingKeeps DEF Preparation
<1>6. CASE Own(a, "own", target[arg[a]], NextStep(arg[a]))
  <2>1. PICK place : place = NextStep(q)
    OBVIOUS
  <2>2. Own(a, "own", s, place)
    BY <1>2, <1>4, <1>6, <2>1
  <2>3. Preparing /\ Existing' /\ Standing /\ Proceed(a, place) /\ handle' = handle
    BY <1>3, <2>2, OwnStands
  <2>4. target'[q] = s /\ program' = program /\ handle'[s] # "closed"
    BY <1>4, <2>3 DEF Proceed, Standing
  <2>5. place \in Preparation /\ Placed(q, place)'
    BY <2>1, <2>4, NextPlace
  <2> QED BY <1>1, <1>2, <2>3, <2>5, PreparingKeeps DEF Preparation
<1> QED BY <1>5, <1>6 DEF AddTarget

\* The socket that a connect or an accept initializes.
LEMMA FreshType ==
  ASSUME IInv, NEW q \in Requests, kind(q) \in {"accept", "connect"}
  PROVE  Fresh(q) \in Sockets
BY ProgramType DEF Fresh

\* Where a test of _winSocket leads.
LEMMA TestedPlace ==
  ASSUME NEW q \in Requests, program' = program, handle' = handle, target'[q] = program[q].on,
         \/ kind(q) = "connect"
         \/ kind(q) = "accept" /\ handle[program[q].on] # "closed"
  PROVE  /\ Tested(Fresh(q)) \in Preparation
         /\ \A place : place = Tested(Fresh(q)) => Placed(q, place)'
<1>1. Tested(Fresh(q)) \in Preparation
  BY DEF Tested, Preparation
<1>2. SUFFICES ASSUME NEW place, place = Tested(Fresh(q)) PROVE Placed(q, place)'
  BY <1>1
<1>3. place \in {"init", "owner"} /\ (place = "owner" => handle[Fresh(q)] # "closed")
  BY <1>2 DEF Tested
<1> QED BY <1>3 DEF Placed, Fresh, kind

\* A step of a thread that changes no socket.
LEMMA TestKeeps ==
  ASSUME IInv, NEW a \in Threads, NEW q \in Requests, arg[a] = q, pc[a] \in Preparation, Preparing,
         UNCHANGED <<handle, owned, bound, raced>>,
         NEW place \in Preparation, (Proceed(a, place) /\ Placed(q, place)') \/ GiveUp(a)
  PROVE  IInv'
<1>1. Existing' /\ Standing
  BY ExistingKept DEF Standing, Preparing, fixedVars
<1> QED BY <1>1, PreparingKeeps

\* socketAccept finds the accepting socket initialized or not.
LEMMA TestAcceptingKeeps ==
  ASSUME IInv, NEW a \in Threads, TestAccepting(a)
  PROVE  IInv'
<1>1. /\ pc[a] = "partner" /\ Preparing /\ UNCHANGED <<handle, owned, bound, raced>>
      /\ Proceed(a, Tested(Fresh(arg[a])))
  BY DEF TestAccepting
<1>2. PICK q \in Requests : q = arg[a]
  BY <1>1, InHands DEF Making, Preparation
<1>3. Placed(q, "partner")
  BY <1>1, <1>2, InHands DEF Making, Preparation
<1>4. kind(q) = "accept" /\ handle[program[q].on] # "closed" /\ target'[q] = program[q].on /\ program' = program
  BY <1>1, <1>3 DEF Placed, Proceed, Preparing, fixedVars
<1>5. PICK place : place = Tested(Fresh(q))
  OBVIOUS
<1>6. place \in Preparation /\ Placed(q, place)' /\ Proceed(a, place)
  BY <1>1, <1>2, <1>4, <1>5, TestedPlace
<1> QED BY <1>1, <1>2, <1>6, TestKeeps DEF Preparation

\* AioSocket::init finds the socket closed still, or throws.
LEMMA TestAgainKeeps ==
  ASSUME IInv, NEW a \in Threads, TestAgain(a)
  PROVE  IInv'
<1>1. /\ pc[a] = "init" /\ Preparing /\ UNCHANGED <<handle, owned, bound, raced>>
      /\ Proceed(a, "create") \/ GiveUp(a)
  BY DEF TestAgain
<1>2. PICK q \in Requests : q = arg[a]
  BY <1>1, InHands DEF Making, Preparation
<1>3. Placed(q, "init")
  BY <1>1, <1>2, InHands DEF Making, Preparation
<1>4. Proceed(a, "create") => Placed(q, "create")'
  BY <1>1, <1>3 DEF Placed, Proceed, Preparing, fixedVars, kind
<1> QED BY <1>1, <1>2, <1>4, TestKeeps DEF Preparation

\* AioSocket::init stores the new system socket, over whatever is there.
LEMMA CreateSocketKeeps ==
  ASSUME IInv, NEW a \in Threads, CreateSocket(a)
  PROVE  IInv'
<1>1. pc[a] = "create" /\ Preparing /\ Renew(Fresh(arg[a])) /\ Proceed(a, "owner") /\ UNCHANGED <<owned, program>>
  BY DEF CreateSocket, Preparing, fixedVars
<1>2. PICK q \in Requests : q = arg[a]
  BY <1>1, InHands DEF Making, Preparation
<1>3. Placed(q, "create") /\ program[q].on \in Sockets
  BY <1>1, <1>2, InHands DEF Making, Preparation
<1>4. kind(q) \in {"accept", "connect"} /\ Fresh(q) \in Sockets
  BY <1>3, FreshType DEF Placed
<1>5. Existing' /\ Standing /\ handle'[Fresh(q)] # "closed"
  BY <1>1, <1>2, <1>4, RenewStands
<1>6. Placed(q, "owner")'
  BY <1>1, <1>3, <1>4, <1>5 DEF Placed, Proceed, Standing, Fresh, kind
<1> QED BY <1>1, <1>2, <1>5, <1>6, PreparingKeeps DEF Preparation

\* The test of _owner, of the socket that was or has been initialized.
LEMMA TestOwnerKeeps ==
  ASSUME IInv, NEW a \in Threads, TestOwner(a)
  PROVE  IInv'
<1> DEFINE then(r) == IF kind(r) = "accept"
                      THEN IF owned[Fresh(r)] THEN "count" ELSE "addInto"
                      ELSE IF owned[Fresh(r)] THEN NextStep(r) ELSE "add"
<1>1. /\ pc[a] = "owner" /\ Preparing /\ UNCHANGED <<handle, owned, bound, raced, program>>
      /\ Proceed(a, then(arg[a]))
  BY DEF TestOwner, Preparing, fixedVars
<1> HIDE DEF then
<1>2. PICK q \in Requests : q = arg[a]
  BY <1>1, InHands DEF Making, Preparation
<1>3. Placed(q, "owner")
  BY <1>1, <1>2, InHands DEF Making, Preparation
<1>4. target'[q] = program[q].on /\ handle'[program[q].on] # "closed"
      /\ (kind(q) = "accept" => handle'[program[q].into] # "closed")
      /\ kind(q) \in {"accept", "connect"}
  BY <1>1, <1>3 DEF Placed, Proceed
<1>5. PICK place : place = then(q)
  OBVIOUS
<1>6. place \in Preparation /\ Placed(q, place)'
  <2>1. CASE place = NextStep(q) /\ kind(q) # "accept"
    BY <1>1, <1>4, <2>1, NextPlace
  <2>2. CASE place = "add"
    BY <1>1, <1>4, <2>2 DEF Placed, Preparation, kind
  <2>3. CASE place = "addInto" /\ kind(q) = "accept"
    BY <1>1, <1>4, <2>3 DEF Placed, Preparation, kind
  <2>4. CASE place = "count" /\ kind(q) = "accept" /\ owned[Fresh(q)]
    BY <1>1, <1>4, <2>4 DEF Placed, Ready, Preparation, kind, Fresh
  <2> QED BY <1>5, <2>1, <2>2, <2>3, <2>4 DEF then
<1>7. Proceed(a, place)
  BY <1>1, <1>2, <1>5
<1> QED BY <1>1, <1>2, <1>6, <1>7, TestKeeps DEF Preparation

\* addSocket of the accepting socket: the caller counts up with both ready, or gives up.
LEMMA AddAcceptingKeeps ==
  ASSUME IInv, NEW a \in Threads, AddAccepting(a)
  PROVE  IInv'
<1>1. pc[a] \in {"addInto", "ownInto"}
  BY DEF AddAccepting, Associate, Own
<1>2. PICK q \in Requests : q = arg[a]
  BY <1>1, InHands DEF Making, Preparation
<1> DEFINE s == program[q].into
<1>3. Placed(q, pc[a]) /\ (kind(q) = "accept" => s \in Sockets)
  BY <1>1, <1>2, InHands DEF Making, Preparation
<1>4. /\ kind(q) = "accept" /\ s \in Sockets /\ Fresh(q) = s /\ handle[s] # "closed"
      /\ target[q] = program[q].on /\ handle[program[q].on] # "closed" /\ program[q].on \in Sockets
  BY <1>1, <1>3, ProgramType DEF Placed, Fresh
<1>5. CASE Associate(a, "addInto", Fresh(arg[a]), "ownInto")
  <2>1. Associate(a, "addInto", s, "ownInto")
    BY <1>2, <1>4, <1>5
  <2>2. /\ Preparing /\ Existing' /\ Standing
        /\ (Proceed(a, "ownInto") /\ handle'[s] # "closed") \/ GiveUp(a)
    BY <1>4, <2>1, AssociateStands
  <2>3. (Proceed(a, "ownInto") /\ Placed(q, "ownInto")') \/ GiveUp(a)
    BY <1>4, <2>2 DEF Placed, Proceed, Standing, kind
  <2> QED BY <1>1, <1>2, <2>2, <2>3, PreparingKeeps DEF Preparation
<1>6. CASE Own(a, "ownInto", Fresh(arg[a]), "count")
  <2>1. Own(a, "ownInto", s, "count")
    BY <1>2, <1>4, <1>6
  <2>2. Preparing /\ Existing' /\ Standing /\ Proceed(a, "count") /\ handle' = handle /\ owned'[s]
    BY <1>4, <2>1, OwnStands
  <2>3. Placed(q, "count")'
    BY <1>4, <2>2 DEF Placed, Ready, Proceed, Standing, kind
  <2> QED BY <1>1, <1>2, <2>2, <2>3, PreparingKeeps DEF Preparation
<1> QED BY <1>5, <1>6 DEF AddAccepting

\* The bind of socketConnect: the caller counts up with the socket bound, or gives up.
LEMMA BindKeeps ==
  ASSUME IInv, NEW a \in Threads, Bind(a)
  PROVE  IInv'
<1>1. pc[a] = "bind"
  BY DEF Bind
<1>2. PICK q \in Requests : q = arg[a]
  BY <1>1, InHands DEF Making, Preparation
<1> DEFINE s == program[q].on
<1>3. Placed(q, "bind") /\ s \in Sockets
  BY <1>1, <1>2, InHands DEF Making, Preparation
<1>4. target[q] = s /\ handle[s] # "closed" /\ kind(q) = "connect"
  BY <1>3 DEF Placed
<1>5. /\ Preparing /\ bound' = [bound EXCEPT ![s] = TRUE] /\ UNCHANGED <<handle, owned, raced, program>>
      /\ Proceed(a, "count") \/ GiveUp(a)
  BY <1>2, <1>4 DEF Bind, Preparing, fixedVars
<1>6. Existing' /\ Standing /\ bound'[s]
  BY <1>3, <1>4, <1>5 DEF IInv, Existing, Standing
<1>7. Proceed(a, "count") => Placed(q, "count")'
  BY <1>4, <1>5, <1>6 DEF Placed, Ready, Proceed, kind
<1> QED BY <1>1, <1>2, <1>5, <1>6, <1>7, PreparingKeeps DEF Preparation

\* A call begins, and its first test lets it in.
LEMMA EnterKeeps ==
  ASSUME IInv, NEW a \in Threads, NEW q \in Requests, NEW place \in Preparation,
         Enter(a, q, place), Placed(q, place)'
  PROVE  IInv'
<1>1. /\ pc[a] = "out" /\ overlapped[q] = "none" /\ \A b \in Threads : arg[b] # q
      /\ pc' = [pc EXCEPT ![a] = place] /\ arg' = [arg EXCEPT ![a] = q]
      /\ target' = [target EXCEPT ![q] = program[q].on]
  BY DEF Enter, F!MayCall, F!At
<1>2. UNCHANGED <<packets, threads, overlapped, io, calls, doing, holds, result,
                  lastError, misread, fixedVars, initializing, program, handle, owned, bound, raced>>
  BY DEF Enter, serviceVars, requestVars, workerVars, socketVars, fixedVars, initVars
<1>3. /\ pc \in [Threads -> Making \union Resting] /\ arg \in [Threads -> Requests \union {None}]
      /\ target \in [Requests -> Sockets \union {None}] /\ program[q].on \in Sockets
  BY Known, ProgramType DEF IInv, Fields
<1>4. arg[a] = None /\ place \in Making /\ place # "post" /\ pc[a] # "post"
  BY <1>1, <1>3 DEF IInv, HandsInv, Making, Preparation
<1>5. target' \in [Requests -> Sockets \union {None}] /\ \A r \in Requests : r # q => target'[r] = target[r]
  BY <1>1, <1>3
<1>6. Existing' /\ Standing
  BY <1>2, ExistingKept DEF Standing
<1>7. Fields' /\ HandsInv' /\ PortOnce' /\ \A r \in Requests : RequestInv(r)'
  BY <1>1, <1>2, <1>4, <1>5, <1>6, CallerStep
<1>8. Stage(a, q)' /\ arg'[a] = q /\ \A b \in Threads \ {a} : pc'[b] = pc[b] /\ arg'[b] = arg[b]
  BY <1>1, <1>3 DEF Stage
<1>9. \A r \in Requests : SocketInv(r)'
  BY <1>1, <1>2, <1>5, <1>6, <1>8, CallerSockets
<1> QED BY <1>6, <1>7, <1>9 DEF IInv

\* The requests of sockets that exist.
LEMMA EnterWithSocketKeeps ==
  ASSUME IInv, NEW a \in Threads, NEW q \in Requests, EnterWithSocket(a, q)
  PROVE  IInv'
<1>1. PICK place : place = IF owned[program[q].on] THEN NextStep(q) ELSE "add"
  OBVIOUS
<1>2. Enter(a, q, place) /\ handle[program[q].on] # "closed"
  BY <1>1 DEF EnterWithSocket
<1>3. target'[q] = program[q].on /\ handle' = handle /\ program' = program
  BY <1>2, Known DEF Enter, socketVars, fixedVars, IInv, Fields
<1>4. place \in Preparation /\ Placed(q, place)'
  <2>1. CASE place = NextStep(q)
    BY <1>2, <1>3, <2>1, NextPlace
  <2>2. CASE place = "add"
    BY <1>2, <1>3, <2>2 DEF Placed, Preparation
  <2> QED BY <1>1, <2>1, <2>2
<1> QED BY <1>2, <1>4, EnterKeeps

\* socketConnect takes a socket that does not exist too.
LEMMA SocketConnectKeeps ==
  ASSUME IInv, NEW a \in Threads, NEW q \in Requests, socketConnect(a, q)
  PROVE  IInv'
<1>1. PICK place : place = Tested(program[q].on)
  OBVIOUS
<1>2. Enter(a, q, place) /\ kind(q) = "connect" /\ Fresh(q) = program[q].on
  BY <1>1 DEF socketConnect, Fresh
<1>3. target'[q] = program[q].on /\ handle' = handle /\ program' = program
  BY <1>2, Known DEF Enter, socketVars, fixedVars, IInv, Fields
<1>4. place \in Preparation /\ Placed(q, place)'
  BY <1>1, <1>2, <1>3, TestedPlace
<1> QED BY <1>2, <1>4, EnterKeeps

\* A request begins in Preparation.
LEMMA Entering ==
  ASSUME NEW a, NEW q \in Requests,
         \/ socketAccept(a, q) \/ socketConnect(a, q) \/ socketRead(a, q)
         \/ socketWrite(a, q) \/ socketSendFile(a, q)
  PROVE  \E place \in Preparation : Enter(a, q, place)
<1> DEFINE first == IF owned[program[q].on] THEN NextStep(q) ELSE "add"
<1>1. first \in Preparation /\ Tested(program[q].on) \in Preparation
  BY DEF NextStep, Tested, Preparation
<1>2. Enter(a, q, first) \/ Enter(a, q, Tested(program[q].on))
  BY DEF socketAccept, socketConnect, socketRead, socketWrite, socketSendFile, EnterWithSocket
<1> HIDE DEF first
<1> QED BY <1>1, <1>2

\* What the steps of a thread up to the count have in common.
Prepares(a) ==
  \/ AddTarget(a) \/ TestAccepting(a) \/ TestAgain(a) \/ CreateSocket(a)
  \/ TestOwner(a) \/ AddAccepting(a) \/ Bind(a)

LEMMA PreparesKeeps ==
  ASSUME IInv, NEW a \in Threads, Prepares(a)
  PROVE  IInv'
BY AddTargetKeeps, TestAcceptingKeeps, TestAgainKeeps, CreateSocketKeeps, TestOwnerKeeps, AddAcceptingKeeps,
   BindKeeps DEF Prepares

\* The thread goes to another place of the same call, or leaves it.
LEMMA PreparesMoves ==
  ASSUME IInv, NEW a \in Threads, Prepares(a)
  PROVE  /\ Preparing /\ pc[a] \in Preparation
         /\ \E place \in Preparation \union {"out"} : pc' = [pc EXCEPT ![a] = place]
         /\ arg' = arg \/ arg' = [arg EXCEPT ![a] = None]
<1> DEFINE Goes(place) == Proceed(a, place) \/ GiveUp(a)
<1>2. ASSUME NEW p, p \in Preparation, Goes(p)
      PROVE  /\ \E place \in Preparation \union {"out"} : pc' = [pc EXCEPT ![a] = place]
             /\ arg' = arg \/ arg' = [arg EXCEPT ![a] = None]
  BY <1>2 DEF Proceed, GiveUp, F!Throw, F!At
<1>3. Preparing /\ pc[a] \in Preparation
  BY DEF Prepares, AddTarget, TestAccepting, TestAgain, CreateSocket, TestOwner, AddAccepting, Bind, Associate, Own,
         Preparation
<1>5. PICK q \in Requests : q = arg[a]
  BY <1>3, InHands DEF Making, Preparation
<1> DEFINE then == IF kind(q) = "accept"
                   THEN IF owned[Fresh(q)] THEN "count" ELSE "addInto"
                   ELSE IF owned[Fresh(q)] THEN NextStep(q) ELSE "add"
<1>6. Tested(Fresh(q)) \in Preparation /\ NextStep(q) \in Preparation /\ then \in Preparation
  BY DEF NextStep, Tested, Preparation
<1>7. \E p \in Preparation : Goes(p)
  <2>1. CASE AddTarget(a)
    BY <1>5, <1>6, <2>1 DEF AddTarget, Associate, Own, Preparation
  <2>2. CASE TestAccepting(a)
    BY <1>5, <1>6, <2>2 DEF TestAccepting
  <2>3. CASE TestAgain(a)
    BY <2>3 DEF TestAgain, Preparation
  <2>4. CASE CreateSocket(a)
    BY <2>4 DEF CreateSocket, Preparation
  <2>5. CASE TestOwner(a)
    BY <1>5, <1>6, <2>5 DEF TestOwner
  <2>6. CASE AddAccepting(a)
    BY <2>6 DEF AddAccepting, Associate, Own, Preparation
  <2>7. CASE Bind(a)
    BY <2>7 DEF Bind, Preparation
  <2> HIDE DEF Goes, then
  <2> QED BY <2>1, <2>2, <2>3, <2>4, <2>5, <2>6, <2>7 DEF Prepares
<1> QED BY <1>2, <1>3, <1>7

\* new OVERLAPPED_EX: from here on the request is the service's.
LEMMA CountUpKeeps ==
  ASSUME IInv, NEW a \in Threads, CountUp(a)
  PROVE  IInv'
<1>1. pc[a] = "count" /\ pc[a] \in Making
  BY DEF CountUp, F!CountUp, Making, Preparation
<1>0. PICK q \in Requests : arg[a] = q
  BY <1>1, InHands
<1>2. /\ q \in Requests /\ q # None /\ \A b \in Threads : arg[b] = q => b = a
      /\ overlapped[q] = "none"
  BY <1>1, <1>0, InHands
<1>3. /\ overlapped' = [overlapped EXCEPT ![q] = "live"] /\ pc' = [pc EXCEPT ![a] = "post"]
      /\ UNCHANGED <<packets, threads, handle, owned, target, io, calls, doing, holds, result,
                     arg, vista, program, initVars, lastError, misread>>
  BY <1>0 DEF CountUp, F!CountUp, F!At, F!fileVars, F!workerVars, socketVars, fixedVars, initVars
<1>4. RequestInv(q) /\ SocketInv(q)
  BY <1>2 DEF IInv
<1>6. /\ pc \in [Threads -> Making \union Resting] /\ arg \in [Threads -> Requests \union {None}]
      /\ overlapped \in [Requests -> {"none", "live", "refused", "freed", "drained"}]
  BY Known
<1>7. Fields'
  <2>1. TypeOK'
    BY <1>3, <1>6 DEF IInv, Fields, TypeOK, kind, Making, Preparation, Resting, initVars
  <2> QED BY <1>3, <1>6, <2>1 DEF IInv, Fields
<1>8. HandsInv' /\ PortOnce'
  BY <1>1, <1>3, <1>6 DEF IInv, HandsInv, PortOnce, Making, Preparation
<1>9. ASSUME NEW r \in Requests, r # q PROVE Fewer(r)
  <2>1. \A b \in Threads : arg[b] = r => b # a
    BY <1>0, <1>9
  <2> QED BY <1>3, <1>6, <1>9, <2>1 DEF Fewer, Served, Native
<1>10. RequestInv(q)'
  <2>1. io[q] = "none" /\ calls[q] = 0 /\ overlapped'[q] = "live"
    BY <1>2, <1>3, <1>4, <1>6 DEF RequestInv, Made
  <2>2. ~Served(q) /\ ~Native(q) /\ ~Comes(q) /\ \A w \in Workers : ~Sends(w, q) /\ ~Ends(w, q)
    <3>1. ~Served(q) /\ ~Native(q) /\ ~F!InFlight(q)
      BY <1>2, <1>4, <2>1 DEF RequestInv, Sent, Back, Waits, F!InFlight
    <3>2. \A w \in Workers : Sends(w, q) => doing[w] # "submit" /\ io[q] # "none"
      BY <1>2, <1>4 DEF RequestInv, Sent, Waits
    <3> QED BY <1>2, <1>4, <2>1, <3>1, <3>2 DEF RequestInv, Back, Comes
  <2>3. Waits(q)' /\ ~Served(q)' /\ ~Comes(q)' /\ ~Native(q)' /\ \A w \in Workers : ~Sends(w, q)' /\ ~Ends(w, q)' /\ ~Touches(w, q)'
    BY <1>3, <2>1, <2>2 DEF Waits, Served, Native, Comes, Sends, Ends, Touches, F!InFlight
  <2>4. \A b \in Threads : arg'[b] = q => b = a /\ pc'[b] = "post"
    BY <1>2, <1>3, <1>6
  <2>5. Made(q)'
    BY <1>3, <2>1, <2>4 DEF Made
  <2>6. Sent(q)' /\ Back(q)'
    BY <2>3 DEF Sent, Back
  <2>7. \A w \in Workers : holds'[w] = q => doing'[w] # "decide"
    BY <2>3 DEF Sends, Sending
  <2>8. Counted(q)' /\ Honest(q)'
    BY <1>3, <2>1, <2>3, <2>7 DEF Counted, Honest
  <2> QED BY <2>5, <2>6, <2>8 DEF RequestInv
<1>11. \A r \in Requests : RequestInv(r)'
  BY <1>2, <1>3, <1>9, <1>10, OneMoves
<1>12. \A r \in Requests : SocketInv(r)'
  <2>1. Standing
    BY <1>3 DEF Standing, initVars
  <2>2. ASSUME NEW r \in Requests, r # q PROVE SocketInv(r)'
    <3>1. Steady(r)
      BY <1>3, <1>0, <1>6, <2>2 DEF Steady
    <3> QED BY <2>1, <3>1, SocketsStand
  <2>3. SocketInv(q)'
    <3>1. Ready(q) /\ target[q] = program[q].on
      BY <1>1, <1>4, <1>0 DEF SocketInv, Stage, Placed
    <3>2. Ready(q)' /\ kind(q)' = kind(q)
      BY <1>3, <3>1 DEF Ready, kind, initVars
    <3>3. \A b \in Threads : arg'[b] = q => b = a /\ pc'[b] = "post"
      BY <1>2, <1>3, <1>6
    <3> QED BY <1>3, <1>4, <3>1, <3>2, <3>3 DEF SocketInv, Stage, Placed, Ready
  <2> QED BY <2>2, <2>3
<1> QED BY <1>3, <1>7, <1>8, <1>11, <1>12, ExistingKept DEF IInv, initVars

\* A packet about a request.
LEMMA PacketType ==
  ASSUME NEW r \in Requests, NEW key, key \in {"server", "native"}, NEW res, res \in F!Results
  PROVE  /\ F!Packet(key, r, res) \in F!Packets
         /\ F!Packet(key, r, res).req = r
         /\ F!Packet(key, r, res).key = key
         /\ F!Packet(key, r, res).res = res
BY DEF F!Packet, F!Packets

\* PostQueuedCompletionStatus: the port has the request now, or it is refused and freed.
LEMMA PostKeeps ==
  ASSUME IInv, NEW a \in Threads, Post(a)
  PROVE  IInv'
<1>1. pc[a] = "post" /\ pc[a] \in Making
  BY DEF Post, F!Post, Making, Preparation
<1>0. PICK q \in Requests : arg[a] = q
  BY <1>1, InHands
<1>2. q \in Requests /\ q # None /\ \A b \in Threads : arg[b] = q => b = a
  BY <1>1, <1>0, InHands
<1>3. RequestInv(q) /\ SocketInv(q)
  BY <1>2 DEF IInv
<1>4. /\ Waits(q) /\ ~Served(q) /\ ~Comes(q) /\ ~Native(q)
      /\ \A w \in Workers : ~Sends(w, q) /\ ~Ends(w, q)
  BY <1>1, <1>3, <1>0 DEF RequestInv, Sent, Back, Waits, Comes, F!InFlight
<1>5. /\ pc' = [pc EXCEPT ![a] = "out"] /\ arg' = [arg EXCEPT ![a] = None]
      /\ \/ packets' = Append(packets, F!Packet("server", q, "ok")) /\ overlapped' = overlapped
         \/ packets' = packets /\ overlapped' = [overlapped EXCEPT ![q] = "refused"]
      /\ UNCHANGED <<threads, handle, owned, target, io, calls, doing, holds, result,
                     vista, program, initVars, lastError, misread>>
  BY <1>0 DEF Post, F!Post, F!Throw, F!At, F!fileVars, F!workerVars, socketVars, fixedVars, initVars
<1>7. /\ pc \in [Threads -> Making \union Resting] /\ arg \in [Threads -> Requests \union {None}]
      /\ overlapped \in [Requests -> {"none", "live", "refused", "freed", "drained"}]
      /\ None \notin Requests
  BY Known
<1>8. /\ packets' \in Seq(F!Packets) /\ PortOnce'
      /\ \A r \in Requests : (Served(r)' => Served(r) \/ r = q) /\ (Native(r)' => Native(r))
      /\ Served(q)' => overlapped' = overlapped
  <2>1. CASE packets' = packets
    BY <1>4, <2>1 DEF IInv, Fields, PortOnce, Served, Native
  <2>2. CASE packets' = Append(packets, F!Packet("server", q, "ok")) /\ overlapped' = overlapped
    <3> DEFINE p == F!Packet("server", q, "ok")
    <3>1. "server" \in {"server", "native"} /\ "ok" \in F!Results
      BY DEF F!Results
    <3>2. p \in F!Packets /\ p.req = q /\ p.key = "server"
      BY <1>2, <3>1, PacketType
    <3> HIDE DEF p
    <3>3. packets' = Append(packets, p)
      BY <2>2 DEF p
    <3> QED BY <1>4, <2>2, <3>2, <3>3, Known, PortAppend
  <2> QED BY <1>5, <2>1, <2>2
<1>9. Fields'
  <2>1. TypeOK'
    BY <1>5, <1>7 DEF IInv, Fields, TypeOK, kind, Making, Preparation, Resting, initVars
  <2> QED BY <1>5, <1>7, <1>8, <2>1 DEF IInv, Fields
<1>10. HandsInv'
  BY <1>5, <1>7 DEF IInv, HandsInv, Making, Preparation
<1>11. ASSUME NEW r \in Requests, r # q PROVE Fewer(r)
  <2>1. \A b \in Threads : arg'[b] = r => arg[b] = r /\ b # a
    BY <1>5, <1>0, <1>7, <1>11
  <2>2. \A b \in Threads : arg'[b] = r => pc'[b] = pc[b]
    BY <1>5, <1>7, <2>1
  <2>3. overlapped'[r] = overlapped[r]
    BY <1>5, <1>7, <1>11
  <2> QED BY <1>5, <1>8, <1>11, <2>1, <2>2, <2>3 DEF Fewer
<1>12. \A b \in Threads : arg'[b] # q
  BY <1>2, <1>5, <1>7
<1>13. RequestInv(q)'
  <2>1. io[q] = "none" /\ calls[q] = 0 /\ overlapped[q] = "live"
    BY <1>4 DEF Waits
  <2>2. ~Comes(q)' /\ ~Native(q)' /\ \A w \in Workers : ~Sends(w, q)' /\ ~Ends(w, q)' /\ ~Touches(w, q)'
    BY <1>2, <1>4, <1>5, <1>8 DEF Native, Comes, Sends, Ends, Touches, F!InFlight
  <2>3. overlapped'[q] # "none" /\ (Served(q)' => Waits(q)')
    BY <1>2, <1>5, <1>7, <1>8, <2>1 DEF Waits
  <2>4. Made(q)'
    BY <1>5, <1>12, <2>1, <2>3 DEF Made
  <2>5. Sent(q)' /\ Back(q)'
    BY <1>12, <2>2, <2>3 DEF Sent, Back
  <2>6. \A w \in Workers : holds'[w] = q => doing'[w] # "decide"
    BY <2>2 DEF Sends, Sending
  <2>7. Counted(q)' /\ Honest(q)'
    BY <1>5, <2>1, <2>2, <2>6 DEF Counted, Honest
  <2> QED BY <2>4, <2>5, <2>7 DEF RequestInv
<1>14. \A r \in Requests : RequestInv(r)'
  BY <1>2, <1>5, <1>11, <1>13, OneMoves
<1>15. \A r \in Requests : SocketInv(r)'
  <2>1. Standing
    BY <1>5 DEF Standing, initVars
  <2>2. ASSUME NEW r \in Requests PROVE Steady(r)
    <3>1. \A b \in Threads : arg'[b] = r => arg[b] = r /\ b # a
      BY <1>5, <1>0, <1>7, <2>2
    <3>2. \A b \in Threads : arg'[b] = r => pc'[b] = pc[b]
      BY <1>5, <1>7, <3>1
    <3>3. (overlapped'[r] # "none" => overlapped[r] # "none") /\ (overlapped'[r] = "live" => overlapped[r] = "live")
      BY <1>4, <1>5, <1>7 DEF Waits
    <3> QED BY <1>5, <3>1, <3>2, <3>3 DEF Steady
  <2> QED BY <2>1, <2>2, SocketsStand
<1> QED BY <1>5, <1>8, <1>9, <1>10, <1>14, <1>15, ExistingKept DEF IInv, initVars

-----------------------------------------------------------------------------
(* The kernel and the workers.                                              *)

\* What the steps of the kernel and the workers leave alone.
Apart == UNCHANGED <<threads, pc, arg, target, handle, owned, initVars, vista, program>>

\* The types of what they change.
Moved ==
  /\ packets' \in Seq(F!Packets) /\ PortOnce'
  /\ overlapped' \in [Requests -> {"none", "live", "refused", "freed", "drained"}]
  /\ io' \in [Requests -> {"none", "flying", "cancelled", "unheard", "over"}]
  /\ calls' \in [Requests -> 0..2]
  /\ result' \in [Workers -> {"ok", "failed", "queued"}]
  /\ lastError' \in [Workers -> {"ok", "failed", "queued"}]
  /\ misread' \subseteq {r \in Requests : kind(r) = "recv"}
  /\ \A r \in Requests : /\ \/ overlapped'[r] = overlapped[r]
                            \/ overlapped[r] # "none" /\ overlapped'[r] # "live"
                         /\ calls'[r] = 0 => calls[r] = 0

\* A step of a worker, but for what it does to requests.
LEMMA WorkerStepKeeps ==
  ASSUME IInv, Apart, Moved, NEW w \in Workers, doing[w] # "none",
         NEW place, place \in Busy \union {"wait", "ended"}, doing' = [doing EXCEPT ![w] = place],
         NEW q, q \in Requests \union {None}, holds' = [holds EXCEPT ![w] = q],
         q \in Requests <=> place \in Busy,
         \A r \in Requests : RequestInv(r)'
  PROVE  IInv'
<1>1. doing' \in [Workers -> Busy \union {"none", "failed", "wait", "ended"}]
      /\ holds' \in [Workers -> Requests \union {None}]
  BY Known
<1>2. Fields'
  <2>1. TypeOK'
    BY DEF IInv, Fields, TypeOK, Apart, Moved, kind, initVars
  <2> QED BY <1>1, <2>1 DEF IInv, Fields, Apart, Moved
<1>3. HandsInv'
  BY Known DEF IInv, HandsInv, Apart, Busy, Sending
<1>4. \A r \in Requests : SocketInv(r)'
  BY SocketsStand DEF Standing, Steady, Apart, Moved, initVars
<1> QED BY <1>2, <1>3, <1>4, ExistingKept DEF IInv, Moved, Apart, initVars

\* A step of the kernel or of shutdown.
LEMMA OtherStepKeeps ==
  ASSUME IInv, UNCHANGED <<threads, arg, target, handle, owned, initVars, vista, program, doing, holds>>,
         Moved, pc' \in [Threads -> Making \union Resting],
         \A a \in Threads : pc'[a] = pc[a] \/ (pc[a] \in Resting /\ pc'[a] \in Resting),
         \A r \in Requests : RequestInv(r)'
  PROVE  IInv'
<1>1. \A a \in Threads : arg[a] \in Requests => pc'[a] = pc[a]
  BY DEF IInv, HandsInv, Making, Preparation, Resting
<1>2. Fields'
  <2>1. TypeOK'
    BY DEF IInv, Fields, TypeOK, Moved, kind, Making, Preparation, Resting, initVars
  <2> QED BY <2>1 DEF IInv, Fields, Moved
<1>3. HandsInv'
  BY <1>1 DEF IInv, HandsInv, Making, Preparation, Resting
<1>4. \A r \in Requests : SocketInv(r)'
  BY <1>1, SocketsStand DEF Standing, Steady, Moved, initVars
<1> QED BY <1>2, <1>3, <1>4, ExistingKept DEF IInv, Moved, initVars

\* What the other workers do with r.
LEMMA OtherWorkers ==
  ASSUME NEW w, \A v \in Workers \ {w} :
           doing'[v] = doing[v] /\ holds'[v] = holds[v] /\ result'[v] = result[v],
         vista' = vista, NEW r
  PROVE  \A v \in Workers \ {w} :
           /\ Sends(v, r)' <=> Sends(v, r)
           /\ Ends(v, r)' <=> Ends(v, r)
           /\ Touches(v, r)' <=> Touches(v, r)
           /\ Released(v)' <=> Released(v)
BY DEF Sends, Ends, Touches, Released, completionQueued

\* The kernel ends the IO of a request, and posts a packet or does not.
LEMMA CompleteKeeps ==
  ASSUME IInv, NEW q \in Requests, Complete(q)
  PROVE  IInv'
<1>1. RequestInv(q) /\ None \notin Requests
  BY Known
<1>2. /\ io[q] \in {"flying", "cancelled", "unheard"} /\ io' = [io EXCEPT ![q] = "over"]
      /\ UNCHANGED <<threads, arg, target, handle, owned, initVars, vista, program, doing, holds,
                     pc, overlapped, calls, result, lastError, misread>>
  BY DEF Complete, F!Complete, F!fileVars, F!workerVars, F!callerVars, socketVars, fixedVars, initVars
<1>3. ~Served(q) /\ ~Native(q) /\ (F!InFlight(q) <=> io[q] # "unheard")
  BY <1>1, <1>2 DEF RequestInv, Sent, Back, Waits, F!InFlight
<1>4. /\ packets' \in Seq(F!Packets) /\ PortOnce'
      /\ \A r \in Requests : (Served(r)' => Served(r)) /\ (Native(r)' => Native(r) \/ r = q)
      /\ Native(q)' => F!InFlight(q)
  <2>1. CASE packets' = packets
    BY <1>3, <2>1 DEF IInv, Fields, PortOnce, Served, Native
  <2>2. CASE packets' # packets
    <3>1. PICK res : /\ packets' = Append(packets, F!Packet("native", q, res))
                     /\ res \in {"ok", "aborted", "failed", "eof"} /\ io[q] # "unheard"
      BY <2>2 DEF Complete, F!Complete, F!ResultsOf
    <3>2. PICK p : p = F!Packet("native", q, res)
      OBVIOUS
    <3>3. "native" \in {"server", "native"} /\ res \in F!Results
      BY <3>1 DEF F!Results
    <3>4. p \in F!Packets /\ p.req = q /\ p.key = "native"
      BY <3>2, <3>3, PacketType
    <3>5. packets' = Append(packets, p)
      BY <3>1, <3>2
    <3> QED BY <1>3, <3>1, <3>4, <3>5, Known, PortAppend
  <2> QED BY <2>1, <2>2
<1>5. Moved
  BY <1>2, <1>4 DEF Moved, IInv, Fields, TypeOK, kind
<1>6. ASSUME NEW r \in Requests, r # q PROVE Fewer(r)
  BY <1>2, <1>4, <1>6 DEF Fewer
<1>7. RequestInv(q)'
  <2>1. /\ overlapped'[q] = overlapped[q] /\ io'[q] = "over" /\ calls'[q] = calls[q]
        /\ (Comes(q)' => Comes(q)) /\ ~Served(q)'
    BY <1>2, <1>3, <1>4, Known DEF Comes, F!InFlight
  <2>2. \A w \in Workers : /\ Sends(w, q)' <=> Sends(w, q)
                           /\ Ends(w, q)' <=> Ends(w, q)
                           /\ Touches(w, q)' <=> Touches(w, q)
                           /\ Released(w)' <=> Released(w)
    BY <1>2 DEF Sends, Ends, Touches, Released, completionQueued
  <2>3. overlapped[q] # "none" /\ ~Waits(q)
    BY <1>1, <1>2 DEF RequestInv, Made, Waits
  <2>4. Made(q)'
    BY <1>1, <1>2, <2>3 DEF RequestInv, Made
  <2>5. Sent(q)'
    BY <1>1, <1>2, <2>1, <2>2, <2>3 DEF RequestInv, Sent
  <2>6. Back(q)'
    BY <1>1, <2>1, <2>2 DEF RequestInv, Back
  <2>7. Counted(q)'
    BY <1>1, <1>2, <2>1 DEF RequestInv, Counted
  <2>8. Honest(q)'
    BY <1>1, <1>2, <2>1, <2>2 DEF RequestInv, Honest
  <2> QED BY <2>4, <2>5, <2>6, <2>7, <2>8 DEF RequestInv
<1>8. \A r \in Requests : RequestInv(r)'
  BY <1>2, <1>6, <1>7, OneMoves
<1>9. pc' \in [Threads -> Making \union Resting] /\ \A a \in Threads : pc'[a] = pc[a]
  BY <1>2, Known DEF Making, Preparation, Resting
<1> QED BY <1>2, <1>5, <1>8, <1>9, OtherStepKeeps

\* A worker that waits has no request.
LEMMA Idle ==
  ASSUME IInv, NEW w \in Workers, doing[w] = "wait"
  PROVE  \A r \in Requests : ~Sends(w, r) /\ ~Ends(w, r) /\ ~Touches(w, r)
BY DEF Sends, Ends, Touches, Sending

\* OP_SHUTDOWN: the worker leaves, and its IO is cancelled.
LEMMA TakeShutdownKeeps ==
  ASSUME IInv, NEW w \in Workers, TakeShutdown(w)
  PROVE  IInv'
<1>1. /\ doing[w] = "wait" /\ packets # <<>> /\ packets' = Tail(packets)
      /\ doing' = [doing EXCEPT ![w] = "ended"] /\ holds' = [holds EXCEPT ![w] = None]
      /\ io' = [r \in Requests |-> IF io[r] = "flying" /\ issuer[r] = w THEN "cancelled" ELSE io[r]]
      /\ UNCHANGED <<threads, pc, arg, target, handle, owned, initVars, vista, program,
                     overlapped, calls, result, lastError, misread>>
  BY DEF TakeShutdown, F!TakeShutdown, F!Dequeues, F!Cancel, F!Goes, F!fileVars, F!callerVars, socketVars, fixedVars, initVars
<1>2. /\ packets' \in Seq(F!Packets) /\ PortOnce'
      /\ \A r \in Requests : (Served(r)' => Served(r)) /\ (Native(r)' => Native(r))
  BY <1>1, Known, PortTail
<1>3. Apart /\ Moved
  BY <1>1, <1>2 DEF Apart, Moved, IInv, Fields, TypeOK, kind
<1>4. ASSUME NEW r \in Requests PROVE Fewer(r)
  <2>1. r # None
    BY Known
  <2>2. \A v \in Workers : holds'[v] = r => holds[v] = r /\ doing'[v] = doing[v]
    BY <1>1, <2>1, Known
  <2> QED BY <1>1, <1>2, <2>2 DEF Fewer
<1>5. \A r \in Requests : RequestInv(r)'
  BY <1>1, <1>4, AllKept
<1>6. "ended" \notin Busy /\ None \notin Requests /\ doing[w] # "none"
  BY <1>1, Known DEF Busy, Sending
<1> QED BY <1>1, <1>3, <1>5, <1>6, WorkerStepKeeps

\* A callback throws: the worker leaves likewise, and what it had stays so.
LEMMA CallbackThrowsKeeps ==
  ASSUME IInv, NEW w \in Workers, CallbackThrows(w)
  PROVE  IInv'
<1>1. /\ doing[w] \in {"early", "read", "write"} /\ packets' = packets
      /\ doing' = [doing EXCEPT ![w] = "ended"] /\ holds' = [holds EXCEPT ![w] = None]
      /\ io' = [r \in Requests |-> IF io[r] = "flying" /\ issuer[r] = w THEN "cancelled" ELSE io[r]]
      /\ UNCHANGED <<threads, pc, arg, target, handle, owned, initVars, vista, program,
                     overlapped, calls, result, lastError, misread>>
  BY DEF CallbackThrows, F!CallbackThrows, F!InCallback, F!Cancel, F!Goes, F!serviceVars, F!fileVars, F!callerVars,
         socketVars, fixedVars
<1>2. PortKept
  BY <1>1, PortUnchanged
<1>3. Apart /\ Moved
  BY <1>1, <1>2 DEF Apart, Moved, PortKept, IInv, Fields, TypeOK, kind
<1>4. ASSUME NEW r \in Requests PROVE Fewer(r)
  <2>1. r # None
    BY Known
  <2>2. \A v \in Workers : holds'[v] = r => holds[v] = r /\ doing'[v] = doing[v]
    BY <1>1, <2>1, Known
  <2> QED BY <1>1, <1>2, <2>2 DEF Fewer, PortKept
<1>5. \A r \in Requests : RequestInv(r)'
  BY <1>1, <1>4, AllKept
<1>6. "ended" \notin Busy /\ None \notin Requests /\ doing[w] # "none"
  BY <1>1, Known DEF Busy, Sending
<1> QED BY <1>1, <1>3, <1>5, <1>6, WorkerStepKeeps

\* A worker takes a request from the port.
LEMMA TakeRequestKeeps ==
  ASSUME IInv, NEW w \in Workers, NEW q \in Requests, TakeRequest(w, q)
  PROVE  IInv'
<1>1. RequestInv(q) /\ None \notin Requests
  BY Known
<1>2. /\ doing[w] = "wait" /\ packets # <<>> /\ packets' = Tail(packets)
      /\ Head(packets) = F!Packet("server", q, "ok")
      /\ doing' = [doing EXCEPT ![w] = "submit"] /\ holds' = [holds EXCEPT ![w] = q]
      /\ UNCHANGED <<threads, pc, arg, target, handle, owned, initVars, vista, program,
                     overlapped, io, calls, result, lastError, misread>>
  BY DEF TakeRequest, F!TakeRequest, F!Dequeues, F!Goes, F!fileVars, F!requestVars, F!callerVars, socketVars, fixedVars, initVars
<1>3. Head(packets).req = q /\ Head(packets).key = "server"
  BY <1>2 DEF F!Packet
<1>4. /\ packets' \in Seq(F!Packets) /\ PortOnce' /\ Served(q) /\ ~Served(q)' /\ ~Native(q)'
      /\ \A r \in Requests : (Served(r)' => Served(r)) /\ (Native(r)' => Native(r))
  BY <1>2, <1>3, Known, PortTail
<1>5. Apart /\ Moved
  BY <1>2, <1>4 DEF Apart, Moved, IInv, Fields, TypeOK, kind
<1>6. ASSUME NEW r \in Requests, r # q PROVE Fewer(r)
  <2>1. \A v \in Workers : holds'[v] = r => holds[v] = r /\ doing'[v] = doing[v]
    BY <1>2, <1>6, Known
  <2> QED BY <1>2, <1>4, <2>1 DEF Fewer
<1>7. RequestInv(q)'
  <2>1. /\ Waits(q) /\ Waits(q)' /\ ~Comes(q)' /\ \A v \in Workers : ~Sends(v, q) /\ ~Ends(v, q)
        /\ \A a \in Threads : arg[a] = q => pc[a] # "post"
    BY <1>1, <1>2, <1>4 DEF RequestInv, Sent, Back, Waits, Comes, F!InFlight
  <2>2. \A v \in Workers \ {w} : doing'[v] = doing[v] /\ holds'[v] = holds[v] /\ result'[v] = result[v]
    BY <1>2, Known
  <2>3. \A v \in Workers \ {w} : ~Sends(v, q)' /\ ~Ends(v, q)'
    BY <1>2, <2>1, <2>2, OtherWorkers
  <2>4. doing'[w] = "submit" /\ ~Ends(w, q)'
    BY <1>2, Known DEF Ends
  <2>5. Made(q)'
    BY <1>1, <1>2, <2>1 DEF RequestInv, Made, Waits
  <2>6. Sent(q)'
    BY <1>2, <1>4, <2>1, <2>3, <2>4 DEF Sent
  <2>7. Back(q)'
    BY <1>4, <2>1, <2>3, <2>4 DEF Back
  <2>8. Counted(q)'
    BY <2>1, <2>2, <2>4 DEF Counted, Waits
  <2>9. Honest(q)'
    BY <2>1, <2>3, <2>4 DEF Honest, Waits
  <2> QED BY <2>5, <2>6, <2>7, <2>8, <2>9 DEF RequestInv
<1>8. \A r \in Requests : RequestInv(r)'
  BY <1>2, <1>6, <1>7, OneMoves
<1>9. "submit" \in Busy /\ doing[w] # "none"
  BY <1>2 DEF Busy, Sending
<1> QED BY <1>2, <1>5, <1>8, <1>9, WorkerStepKeeps

\* A worker takes a request that came back, and calls its user.
LEMMA TakeCompletionKeeps ==
  ASSUME IInv, NEW w \in Workers, NEW q \in Requests, TakeCompletion(w, q)
  PROVE  IInv'
<1>1. RequestInv(q) /\ None \notin Requests
  BY Known
<1>2. /\ doing[w] = "wait" /\ packets # <<>> /\ packets' = Tail(packets)
      /\ Head(packets).req = q /\ Head(packets).key = "native"
      /\ doing' = [doing EXCEPT ![w] = "write"] /\ holds' = [holds EXCEPT ![w] = q]
      /\ calls' = [calls EXCEPT ![q] = @ + 1]
      /\ UNCHANGED <<threads, pc, arg, target, handle, owned, initVars, vista, program,
                     overlapped, io, result, misread>>
  BY DEF TakeCompletion, F!TakeCompletion, F!Dequeues, F!Packet, F!Goes, F!CaseOf, F!Called, F!fileVars, F!callerVars, fixedVars
<1>3. lastError' = [lastError EXCEPT ![w] = "failed"] \/ lastError' = [lastError EXCEPT ![w] = @]
  BY DEF TakeCompletion
<1>4. /\ packets' \in Seq(F!Packets) /\ PortOnce' /\ Native(q) /\ ~Served(q)' /\ ~Native(q)'
      /\ \A r \in Requests : (Served(r)' => Served(r)) /\ (Native(r)' => Native(r))
  BY <1>2, Known, PortTail
<1>5. /\ io[q] = "over" /\ overlapped[q] = "live" /\ \A v \in Workers : ~Ends(v, q)
      /\ calls[q] <= 1 /\ \A v \in Workers : holds[v] = q /\ doing[v] = "decide" => calls[q] = 0
      /\ q \notin misread => calls[q] = 0 /\ \A v \in Workers : ~Touches(v, q)
  BY <1>1, <1>4 DEF RequestInv, Back, Counted, Honest, Comes
<1>6. calls \in [Requests -> 0..2] /\ calls' \in [Requests -> 0..2] /\ calls'[q] = calls[q] + 1
  BY <1>2, <1>5, Known
<1>7. Apart /\ Moved
  <2>1. lastError' \in [Workers -> {"ok", "failed", "queued"}]
    BY <1>3 DEF IInv, Fields, TypeOK
  <2>2. \A r \in Requests : calls'[r] = 0 => calls[r] = 0
    BY <1>2, <1>6
  <2> QED BY <1>2, <1>4, <1>6, <2>1, <2>2 DEF Apart, Moved, IInv, Fields, TypeOK, kind
<1>8. ASSUME NEW r \in Requests, r # q PROVE Fewer(r)
  <2>1. \A v \in Workers : holds'[v] = r => holds[v] = r /\ doing'[v] = doing[v]
    BY <1>2, <1>8, Known
  <2> QED BY <1>2, <1>4, <1>6, <1>8, <2>1 DEF Fewer
<1>9. RequestInv(q)'
  <2>1. \A v \in Workers \ {w} : doing'[v] = doing[v] /\ holds'[v] = holds[v] /\ result'[v] = result[v]
    BY <1>2, Known
  <2>2. \A v \in Workers \ {w} : /\ Sends(v, q)' <=> Sends(v, q)
                                 /\ ~Ends(v, q)'
                                 /\ Touches(v, q)' <=> Touches(v, q)
                                 /\ Released(v)' <=> Released(v)
    BY <1>2, <1>5, <2>1, OtherWorkers
  <2>3. doing'[w] = "write" /\ ~Sends(w, q)'
    BY <1>2, Known DEF Sends, Sending
  <2>4. ~Comes(q)' /\ ~Waits(q)
    BY <1>2, <1>4, <1>5 DEF Comes, Waits, F!InFlight
  <2>5. Made(q)'
    BY <1>1, <1>2, <1>5 DEF RequestInv, Made
  <2>6. Sent(q)'
    BY <1>1, <1>2, <1>4, <2>2, <2>3, <2>4 DEF RequestInv, Sent
  <2>7. Back(q)'
    BY <1>2, <1>4, <1>5, <2>2, <2>4 DEF Back
  <2>8. Counted(q)'
    BY <1>2, <1>5, <1>6, <2>1, <2>3, <2>4 DEF Counted
  <2>9. Honest(q)'
    <3>1. ASSUME q \notin misread, NEW v \in Workers, Sends(v, q)'
          PROVE  Released(v)'
      BY <1>5, <2>2, <2>3, <3>1 DEF Touches
    <3> QED BY <1>2, <1>5, <1>6, <2>4, <3>1 DEF Honest
  <2> QED BY <2>5, <2>6, <2>7, <2>8, <2>9 DEF RequestInv
<1>10. \A r \in Requests : RequestInv(r)'
  BY <1>2, <1>8, <1>9, OneMoves
<1>11. "write" \in Busy /\ doing[w] # "none"
  BY <1>2 DEF Busy, Sending
<1> QED BY <1>2, <1>7, <1>10, <1>11, WorkerStepKeeps

\* The request a worker has in hands.
LEMMA InWork ==
  ASSUME IInv, NEW w \in Workers, doing[w] \in Busy
  PROVE  holds[w] \in Requests /\ RequestInv(holds[w])
BY DEF IInv, HandsInv

\* The outcomes of a system call.
LEMMA CallOutcome ==
  ASSUME IInv, NEW w \in Workers, NEW k, NEW out \in Calling(w, k)
  PROVE  /\ out.res \in {"ok", "failed", "queued"} /\ out.left \in {"ok", "failed", "queued"}
         /\ out.winErr \in {"ok", "failed", "queued"}
         /\ k # "recv" => out.winErr = out.res
<1>1. lastError[w] \in {"ok", "failed", "queued"}
  BY DEF IInv, Fields, TypeOK
<1> DEFINE Heard(o) == /\ o.res \in {"ok", "failed", "queued"} /\ o.left \in {"ok", "failed", "queued"}
                       /\ o.winErr \in {"ok", "failed", "queued"}
<1>2. \A o \in NotDone : Heard(o) /\ o.winErr = o.res
  BY DEF NotDone, Outcome
<1>3. \A o \in OwnError(w) : Heard(o) /\ o.winErr = o.res
  <2>1. ASSUME NEW left \in {lastError[w], "ok"}
        PROVE  Heard(Outcome("ok", left, "ok")) /\ Outcome("ok", left, "ok").winErr = Outcome("ok", left, "ok").res
    BY <1>1 DEF Outcome
  <2> HIDE DEF Heard
  <2> QED BY <1>2, <2>1 DEF OwnError
<1>4. \A o \in AnyError(w) : Heard(o)
  <2>1. ASSUME NEW left \in {lastError[w], "ok"} PROVE Heard(Outcome("ok", left, left))
    BY <1>1 DEF Outcome
  <2> HIDE DEF Heard
  <2> QED BY <1>2, <2>1 DEF AnyError
<1> QED BY <1>3, <1>4 DEF Calling, WSARecv, WSASend, Extension

\* The system call of a request.
LEMMA SubmitKeeps ==
  ASSUME IInv, NEW w \in Workers, Submit(w)
  PROVE  IInv'
<1>1. doing[w] = "submit" /\ doing[w] \in Busy
  BY DEF Submit, Busy, Sending
<1>2. PICK q \in Requests : holds[w] = q
  BY <1>1, InWork
<1>3. RequestInv(q) /\ None \notin Requests /\ Sends(w, q)
  BY <1>1, <1>2, Known DEF Sends, Sending
<1>4. PICK out \in Calling(w, kind(q)) :
        /\ io' = [io EXCEPT ![q] = IF out.res # "queued" THEN "over"
                                   ELSE IF handle[target[q]] = "linked" THEN "flying" ELSE "unheard"]
        /\ packets' = IF out.res = "ok" /\ ~vista /\ handle[target[q]] = "linked"
                      THEN Append(packets, F!Packet("native", q, "ok"))
                      ELSE packets
        /\ result' = [result EXCEPT ![w] = out.winErr]
        /\ lastError' = [lastError EXCEPT ![w] = out.left]
        /\ misread' = IF out.winErr # out.res /\ kind(q) = "recv"
                      THEN misread \union {q} ELSE misread
  BY <1>2 DEF Submit
<1>5. /\ doing' = [doing EXCEPT ![w] = "decide"] /\ holds' = [holds EXCEPT ![w] = q]
      /\ UNCHANGED <<threads, pc, arg, target, handle, owned, initVars, vista, program, overlapped, calls>>
  BY <1>2 DEF Submit, F!Goes, stopVars, fixedVars
<1>6. /\ out.res \in {"ok", "failed", "queued"} /\ out.left \in {"ok", "failed", "queued"}
      /\ out.winErr \in {"ok", "failed", "queued"}
      /\ kind(q) # "recv" => out.winErr = out.res
  BY CallOutcome
<1>7. /\ Waits(q) /\ ~Served(q) /\ ~Native(q) /\ ~Comes(q) /\ \A v \in Workers : ~Ends(v, q)
      /\ \A v \in Workers : Sends(v, q) => v = w
      /\ \A a \in Threads : arg[a] = q => pc[a] # "post"
  BY <1>1, <1>3 DEF RequestInv, Sent, Back, Waits, Comes, F!InFlight
<1>8. /\ packets' \in Seq(F!Packets) /\ PortOnce' /\ ~Served(q)'
      /\ \A r \in Requests : (Served(r)' => Served(r)) /\ (Native(r)' => Native(r) \/ r = q)
      /\ Native(q)' => out.res = "ok" /\ ~vista
  <2>1. CASE packets' = packets
    BY <1>7, <2>1 DEF IInv, Fields, PortOnce, Served, Native
  <2>2. CASE packets' # packets
    <3>1. PICK p : p = F!Packet("native", q, "ok")
      OBVIOUS
    <3>2. packets' = Append(packets, p) /\ out.res = "ok" /\ ~vista
      BY <1>4, <2>2, <3>1
    <3>3. "native" \in {"server", "native"} /\ "ok" \in F!Results
      BY DEF F!Results
    <3>4. p \in F!Packets /\ p.req = q /\ p.key = "native"
      BY <3>1, <3>3, PacketType
    <3> QED BY <1>7, <3>2, <3>4, Known, PortAppend
  <2> QED BY <2>1, <2>2
<1>9. io' \in [Requests -> {"none", "flying", "cancelled", "unheard", "over"}]
      /\ result' \in [Workers -> {"ok", "failed", "queued"}]
      /\ lastError' \in [Workers -> {"ok", "failed", "queued"}]
      /\ misread' \subseteq {r \in Requests : kind(r) = "recv"}
  BY <1>4, <1>6 DEF IInv, Fields, TypeOK
<1>10. Apart /\ Moved
  BY <1>5, <1>8, <1>9 DEF Apart, Moved, IInv, Fields, TypeOK
<1>11. ASSUME NEW r \in Requests, r # q PROVE Fewer(r)
  <2>1. \A v \in Workers : holds'[v] = r => holds[v] = r /\ v # w
    BY <1>2, <1>5, <1>11, Known
  <2>2. \A v \in Workers : v # w => doing'[v] = doing[v] /\ result'[v] = result[v]
    BY <1>4, <1>5, Known
  <2>3. io'[r] = io[r] /\ (r \in misread => r \in misread')
    BY <1>4, <1>11, Known
  <2> QED BY <1>5, <1>8, <1>11, <2>1, <2>2, <2>3 DEF Fewer
<1>12. RequestInv(q)'
  <2>1. \A v \in Workers \ {w} : doing'[v] = doing[v] /\ holds'[v] = holds[v] /\ result'[v] = result[v]
    BY <1>4, <1>5, Known
  <2>2. \A v \in Workers \ {w} : ~Sends(v, q)' /\ ~Ends(v, q)'
    BY <1>5, <1>7, <2>1, OtherWorkers
  <2>3. doing'[w] = "decide" /\ holds'[w] = q /\ result'[w] = out.winErr /\ ~Ends(w, q)'
    BY <1>4, <1>5, Known DEF Ends
  <2>4. io'[q] = IF out.res # "queued" THEN "over"
                 ELSE IF handle[target[q]] = "linked" THEN "flying" ELSE "unheard"
    BY <1>4, Known
  <2>5. overlapped'[q] = "live" /\ calls'[q] = 0
    BY <1>5, <1>7 DEF Waits
  <2>6. Made(q)'
    BY <1>3, <1>5, <2>5 DEF RequestInv, Made
  <2>7. Sent(q)'
    BY <1>5, <1>7, <1>8, <2>2, <2>3, <2>4, <2>5 DEF Sent
  <2>8. Native(q)' => io'[q] = "over"
    BY <1>8, <2>4
  <2>9. Back(q)'
    BY <2>2, <2>3, <2>5, <2>8 DEF Back
  <2>10. Counted(q)'
    BY <2>5 DEF Counted
  <2>11. Comes(q)' => out.res = "queued" \/ (out.res = "ok" /\ ~vista)
    BY <1>8, <2>4 DEF Comes, F!InFlight
  <2>12. q \notin misread' => out.winErr = out.res
    BY <1>4, <1>6
  <2>13. Released(w)' <=> out.winErr = "queued" \/ (out.winErr = "ok" /\ ~vista)
    BY <1>5, <2>3 DEF Released, completionQueued
  <2>14. Honest(q)'
    <3>1. ASSUME q \notin misread', ~Released(w)'
          PROVE  ~Comes(q)' /\ io'[q] = "over"
      BY <2>4, <2>11, <2>12, <2>13, <3>1
    <3>2. \A v \in Workers : Touches(v, q)' => v = w /\ ~Released(w)'
      BY <2>2, <2>3 DEF Touches
    <3>3. \A v \in Workers : Sends(v, q)' => v = w
      BY <2>2
    <3>4. \A v \in Workers : ~Ends(v, q)'
      BY <2>2, <2>3
    <3> QED BY <2>3, <2>5, <3>1, <3>2, <3>3, <3>4 DEF Honest
  <2> QED BY <2>6, <2>7, <2>9, <2>10, <2>14 DEF RequestInv
<1>13. \A r \in Requests : RequestInv(r)'
  BY <1>5, <1>11, <1>12, OneMoves
<1>14. "decide" \in Busy /\ doing[w] # "none"
  BY <1>1 DEF Busy, Sending
<1> QED BY <1>5, <1>10, <1>13, <1>14, WorkerStepKeeps

\* "Trigger callback if completed immediately or failed"
LEMMA DecideKeeps ==
  ASSUME IInv, NEW w \in Workers, Decide(w)
  PROVE  IInv'
<1>1. doing[w] = "decide" /\ doing[w] \in Busy /\ doing[w] # "none"
  BY DEF Decide, Busy, Sending
<1>2. PICK q \in Requests : holds[w] = q
  BY <1>1, InWork
<1>3. RequestInv(q) /\ None \notin Requests /\ Sends(w, q)
  BY <1>1, <1>2, Known DEF Sends, Sending
<1>4. /\ result' = [result EXCEPT ![w] = "ok"]
      /\ UNCHANGED <<packets, threads, pc, arg, target, handle, owned, initVars, vista, program,
                     overlapped, io, lastError, misread>>
  BY DEF Decide, serviceVars, socketVars, fixedVars, initVars
<1>5. result' \in [Workers -> {"ok", "failed", "queued"}] /\ PortKept
  BY <1>4, Known, PortUnchanged
<1>6. CASE completionQueued(result[w])
  <2>1. /\ doing' = [doing EXCEPT ![w] = "wait"] /\ holds' = [holds EXCEPT ![w] = None] /\ calls' = calls
    BY <1>6 DEF Decide, F!Goes
  <2>2. Apart /\ Moved
    BY <1>4, <1>5, <2>1 DEF Apart, Moved, PortKept, IInv, Fields, TypeOK, kind
  <2>3. ASSUME NEW r \in Requests PROVE Fewer(r)
    <3>1. \A v \in Workers : holds'[v] = r => holds[v] = r /\ v # w
      BY <1>3, <2>1, Known
    <3>2. \A v \in Workers : v # w => doing'[v] = doing[v] /\ result'[v] = result[v]
      BY <1>4, <2>1, Known
    <3> QED BY <1>4, <1>5, <2>1, <3>1, <3>2 DEF Fewer, PortKept
  <2>4. \A r \in Requests : RequestInv(r)'
    BY <1>4, <2>3, AllKept
  <2>5. "wait" \notin Busy
    BY DEF Busy, Sending
  <2> QED BY <1>1, <1>3, <2>1, <2>2, <2>4, <2>5, WorkerStepKeeps
<1>7. CASE ~completionQueued(result[w])
  <2>1. /\ doing' = [doing EXCEPT ![w] = "early"] /\ holds' = [holds EXCEPT ![w] = q]
        /\ calls' = [calls EXCEPT ![q] = @ + 1]
    BY <1>2, <1>7 DEF Decide, F!Goes, F!Called
  <2>2. /\ calls[q] <= 1 /\ (Comes(q) => calls[q] = 0)
        /\ io[q] # "none" /\ overlapped[q] \notin {"none", "refused"}
        /\ \A v \in Workers : Sends(v, q) => v = w
    BY <1>1, <1>2, <1>3 DEF RequestInv, Counted, Sent
  <2>3. calls' \in [Requests -> 0..2] /\ calls'[q] = calls[q] + 1
    BY <2>1, <2>2, Known
  <2>4. Apart /\ Moved
    <3>1. \A r \in Requests : calls'[r] = 0 => calls[r] = 0
      BY <2>1, <2>3, Known
    <3> QED BY <1>4, <1>5, <2>1, <2>3, <3>1 DEF Apart, Moved, PortKept, IInv, Fields, TypeOK, kind
  <2>5. ASSUME NEW r \in Requests, r # q PROVE Fewer(r)
    <3>1. \A v \in Workers : holds'[v] = r => holds[v] = r /\ v # w
      BY <1>2, <2>1, <2>5, Known
    <3>2. \A v \in Workers : v # w => doing'[v] = doing[v] /\ result'[v] = result[v]
      BY <1>4, <2>1, Known
    <3>3. calls'[r] = calls[r]
      BY <2>1, <2>5
    <3> QED BY <1>4, <1>5, <3>1, <3>2, <3>3 DEF Fewer, PortKept
  <2>6. RequestInv(q)'
    <3>1. \A v \in Workers \ {w} : doing'[v] = doing[v] /\ holds'[v] = holds[v] /\ result'[v] = result[v]
      BY <1>4, <2>1, Known
    <3>2. \A v \in Workers \ {w} : ~Sends(v, q)' /\ (Ends(v, q)' <=> Ends(v, q))
      BY <1>4, <2>2, <3>1, OtherWorkers
    <3>3. doing'[w] = "early" /\ holds'[w] = q /\ ~Ends(w, q)' /\ ~Released(w)'
      BY <2>1, Known DEF Ends, Released
    <3>4. (Comes(q)' <=> Comes(q)) /\ (Served(q)' <=> Served(q)) /\ (Native(q)' <=> Native(q))
      BY <1>4 DEF Comes, Served, Native, F!InFlight
    <3>5. ~Served(q) /\ \A a \in Threads : arg[a] = q => pc[a] # "post"
      BY <1>3 DEF RequestInv, Sent
    <3>6. Made(q)'
      BY <1>3, <1>4, <2>2 DEF RequestInv, Made
    <3>7. Sent(q)'
      BY <1>4, <2>2, <3>2, <3>3, <3>4, <3>5 DEF Sent
    <3>8. Back(q)'
      BY <1>3, <1>4, <3>2, <3>3, <3>4 DEF RequestInv, Back
    <3>9. \A v \in Workers : holds'[v] = q => doing'[v] # "decide"
      BY <3>2, <3>3 DEF Sends, Sending
    <3>10. Counted(q)'
      BY <2>2, <2>3, <3>4, <3>9 DEF Counted
    <3>11. Honest(q)'
      <4>1. ASSUME q \notin misread
            PROVE  overlapped[q] = "live" /\ io[q] = "over" /\ calls[q] = 0 /\ ~Comes(q)
                   /\ \A v \in Workers : ~Ends(v, q)
        BY <1>1, <1>3, <1>7, <4>1 DEF RequestInv, Honest, Released, Touches
      <4> QED BY <1>4, <2>3, <3>2, <3>3, <3>4, <4>1 DEF Honest
    <3> QED BY <3>6, <3>7, <3>8, <3>10, <3>11 DEF RequestInv
  <2>7. \A r \in Requests : RequestInv(r)'
    BY <1>4, <2>5, <2>6, OneMoves
  <2>8. "early" \in Busy
    BY DEF Busy, Sending
  <2> QED BY <1>1, <2>1, <2>4, <2>7, <2>8, WorkerStepKeeps
<1> QED BY <1>6, <1>7

\* The callback of a call that was over at once.
LEMMA EarlyReturnsKeeps ==
  ASSUME IInv, NEW w \in Workers, EarlyReturns(w)
  PROVE  IInv'
<1>1. /\ doing[w] = "early"
      /\ doing' = [doing EXCEPT ![w] = "wait"] /\ holds' = [holds EXCEPT ![w] = None]
      /\ UNCHANGED <<packets, threads, pc, arg, target, handle, owned, initVars, vista, program,
                     overlapped, io, calls, result, lastError, misread>>
  BY DEF EarlyReturns, F!EarlyReturns, F!Goes, F!serviceVars, F!fileVars, F!requestVars, F!callerVars,
         socketVars, fixedVars, initVars
<1>2. Apart /\ Moved /\ PortKept
  BY <1>1, PortUnchanged DEF Apart, Moved, PortKept, IInv, Fields, TypeOK, kind
<1>3. ASSUME NEW r \in Requests PROVE Fewer(r)
  <2>1. \A v \in Workers : holds'[v] = r => holds[v] = r /\ doing'[v] = doing[v]
    BY <1>1, Known
  <2> QED BY <1>1, <1>2, <2>1 DEF Fewer, PortKept
<1>4. \A r \in Requests : RequestInv(r)'
  BY <1>1, <1>3, AllKept
<1>5. "wait" \notin Busy /\ None \notin Requests /\ doing[w] # "none"
  BY <1>1, Known DEF Busy, Sending
<1> QED BY <1>1, <1>2, <1>4, <1>5, WorkerStepKeeps

\* The callback of a call that came back: its OVERLAPPED_EX is freed.
LEMMA CompletionReturnsKeeps ==
  ASSUME IInv, NEW w \in Workers, CompletionReturns(w)
  PROVE  IInv'
<1>1. doing[w] = "write" /\ doing[w] \in Busy /\ doing[w] # "none"
  BY DEF CompletionReturns, F!WriteReturns, Busy
<1>2. PICK q \in Requests : holds[w] = q
  BY <1>1, InWork
<1>3. RequestInv(q) /\ None \notin Requests /\ Ends(w, q)
  BY <1>1, <1>2, Known DEF Ends
<1>4. /\ doing' = [doing EXCEPT ![w] = "wait"] /\ holds' = [holds EXCEPT ![w] = None]
      /\ overlapped' = [overlapped EXCEPT ![q] = "freed"]
      /\ UNCHANGED <<packets, threads, pc, arg, target, handle, owned, initVars, vista, program,
                     io, calls, result, lastError, misread>>
  BY <1>2 DEF CompletionReturns, F!WriteReturns, F!Goes, F!serviceVars, F!fileVars, F!callerVars,
         socketVars, fixedVars, initVars
<1>5. /\ overlapped[q] = "live" /\ io[q] = "over" /\ ~Comes(q) /\ ~Waits(q) /\ ~Native(q)
      /\ \A v \in Workers : Ends(v, q) => v = w
  BY <1>3 DEF RequestInv, Back, Waits, Comes
<1>6. PortKept /\ overlapped' \in [Requests -> {"none", "live", "refused", "freed", "drained"}]
  BY <1>4, Known, PortUnchanged
<1>7. Apart /\ Moved
  BY <1>4, <1>5, <1>6 DEF Apart, Moved, PortKept, IInv, Fields, TypeOK, kind
<1>8. ASSUME NEW r \in Requests, r # q PROVE Fewer(r)
  <2>1. \A v \in Workers : holds'[v] = r => holds[v] = r /\ doing'[v] = doing[v]
    BY <1>3, <1>4, Known
  <2>2. overlapped'[r] = overlapped[r]
    BY <1>4, <1>8
  <2> QED BY <1>4, <1>6, <2>1, <2>2 DEF Fewer, PortKept
<1>9. RequestInv(q)'
  <2>1. \A v \in Workers \ {w} : doing'[v] = doing[v] /\ holds'[v] = holds[v] /\ result'[v] = result[v]
    BY <1>4, Known
  <2>2. \A v \in Workers \ {w} : /\ Sends(v, q)' <=> Sends(v, q)
                                 /\ ~Ends(v, q)'
                                 /\ Released(v)' <=> Released(v)
    BY <1>4, <1>5, <2>1, OtherWorkers
  <2>3. ~Sends(w, q)' /\ ~Ends(w, q)' /\ holds'[w] # q
    BY <1>3, <1>4, Known DEF Sends, Ends
  <2>4. overlapped'[q] = "freed"
    BY <1>4, Known
  <2>5. ~Comes(q)' /\ ~Native(q)' /\ (Served(q)' <=> Served(q))
    BY <1>4, <1>5 DEF Comes, Native, Served, F!InFlight
  <2>6. Made(q)'
    BY <1>3, <1>4, <1>5, <2>4 DEF RequestInv, Made
  <2>7. Sent(q)'
    <3>1. ~Served(q) /\ \A a \in Threads : arg[a] = q => pc[a] # "post"
      BY <1>3, <1>5 DEF RequestInv, Sent
    <3>2. \A v \in Workers : Sends(v, q) => doing[v] # "submit"
      BY <1>3, <1>5 DEF RequestInv, Sent
    <3> QED BY <1>3, <1>4, <1>5, <2>1, <2>2, <2>3, <2>4, <2>5, <3>1, <3>2 DEF RequestInv, Sent
  <2>8. Back(q)'
    BY <2>2, <2>3, <2>5 DEF Back
  <2>9. Counted(q)'
    BY <1>3, <1>4, <2>1, <2>3, <2>5 DEF RequestInv, Counted
  <2>10. Honest(q)'
    <3>1. ASSUME q \notin misread, NEW v \in Workers, Sends(v, q), doing[v] # "submit"
          PROVE  Released(v)
      BY <1>3, <3>1 DEF RequestInv, Honest
    <3>2. ASSUME q \notin misread, NEW v \in Workers, Sends(v, q)', doing'[v] # "submit"
          PROVE  Released(v)'
      BY <2>1, <2>2, <2>3, <3>1, <3>2
    <3>3. q \notin misread => calls[q] <= 1
      BY <1>3 DEF RequestInv, Honest
    <3> QED BY <1>4, <2>5, <3>2, <3>3 DEF Honest
  <2> QED BY <2>6, <2>7, <2>8, <2>9, <2>10 DEF RequestInv
<1>10. \A r \in Requests : RequestInv(r)'
  BY <1>4, <1>8, <1>9, OneMoves
<1>11. "wait" \notin Busy
  BY DEF Busy, Sending
<1> QED BY <1>1, <1>3, <1>4, <1>7, <1>10, <1>11, WorkerStepKeeps

\* shutdown() frees what a packet is about.
LEMMA DrainKeeps ==
  ASSUME IInv, NEW a \in Threads, Drain(a)
  PROVE  IInv'
<1>1. /\ pc[a] = "drain" /\ (pc' = [pc EXCEPT ![a] = "store"] \/ pc' = [pc EXCEPT ![a] = "abort"])
      /\ UNCHANGED <<threads, arg, target, handle, owned, initVars, vista, program, doing, holds,
                     io, calls, result, lastError, misread>>
  BY DEF Drain, F!Drain, F!At, F!fileVars, F!workerVars, socketVars, fixedVars, initVars
<1>2. /\ pc' \in [Threads -> Making \union Resting]
      /\ \A b \in Threads : pc'[b] = pc[b] \/ (pc[b] \in Resting /\ pc'[b] \in Resting)
      /\ \A b \in Threads : pc'[b] = "post" <=> pc[b] = "post"
  BY <1>1, Known DEF Making, Preparation, Resting
<1>3. CASE port # "open"
  <2>1. packets' = packets /\ overlapped' = overlapped
    BY <1>3 DEF Drain, F!Drain
  <2>2. PortKept /\ Moved
    BY <1>1, <2>1, PortUnchanged DEF Moved, PortKept, IInv, Fields, TypeOK, kind
  <2>3. \A r \in Requests : Fewer(r)
    BY <1>1, <1>2, <2>1, <2>2 DEF Fewer, PortKept
  <2>4. \A r \in Requests : RequestInv(r)'
    BY <1>1, <2>3, AllKept
  <2> QED BY <1>1, <1>2, <2>2, <2>4, OtherStepKeeps
<1>4. CASE port = "open"
  <2>1. /\ packets # <<>> /\ packets' = Tail(packets)
        /\ overlapped' = [r \in Requests |->
             IF Head(packets).req = r /\ Head(packets).res \in {"ok", "aborted"} THEN "drained"
                                                                             ELSE overlapped[r]]
    BY <1>4 DEF Drain, F!Drain
  <2>2. /\ packets' \in Seq(F!Packets) /\ PortOnce' /\ Head(packets) \in F!Packets
        /\ Head(packets).key = "server" => Served(Head(packets).req)
        /\ Head(packets).key = "native" => Native(Head(packets).req)
        /\ \A r \in Requests : (Served(r)' => Served(r)) /\ (Native(r)' => Native(r))
        /\ \A r \in Requests : r = Head(packets).req => ~Served(r)' /\ ~Native(r)'
    BY <2>1, Known, PortTail
  <2>3. \A r \in Requests : r = Head(packets).req => Served(r) \/ Native(r)
    <3>1. Head(packets).key \in {"server", "native"}
      BY <2>2 DEF F!Packets
    <3> QED BY <2>2, <3>1
  <2>4. ASSUME NEW r \in Requests, overlapped'[r] # overlapped[r]
        PROVE  /\ overlapped'[r] = "drained" /\ (Served(r) \/ Native(r)) /\ ~Served(r)' /\ ~Native(r)'
    BY <2>1, <2>2, <2>3, <2>4
  <2>5. ASSUME NEW r \in Requests, Served(r) \/ Native(r)
        PROVE  overlapped[r] = "live"
    <3>1. RequestInv(r)
      BY Known
    <3> QED BY <2>5, <3>1 DEF RequestInv, Sent, Back, Comes, Waits
  <2>6. Moved
    <3>1. overlapped' \in [Requests -> {"none", "live", "refused", "freed", "drained"}]
      BY <2>1, Known
    <3>2. \A r \in Requests : \/ overlapped'[r] = overlapped[r]
                              \/ overlapped[r] # "none" /\ overlapped'[r] # "live"
      BY <2>4, <2>5
    <3> QED BY <1>1, <2>2, <3>1, <3>2 DEF Moved, IInv, Fields, TypeOK, kind
  <2>7. ASSUME NEW r \in Requests, overlapped'[r] = overlapped[r] PROVE RequestInv(r)'
    <3>1. Fewer(r)
      BY <1>1, <1>2, <2>2, <2>7 DEF Fewer
    <3> QED BY <1>1, <3>1, Known, RequestKept
  <2>8. ASSUME NEW r \in Requests, overlapped'[r] # overlapped[r] PROVE RequestInv(r)'
    <3>1. RequestInv(r) /\ overlapped'[r] = "drained" /\ ~Served(r)' /\ ~Native(r)'
      BY <2>4, <2>8, Known
    <3>2. \A w \in Workers : /\ Sends(w, r)' <=> Sends(w, r)
                             /\ Ends(w, r)' <=> Ends(w, r)
                             /\ Touches(w, r)' <=> Touches(w, r)
                             /\ Released(w)' <=> Released(w)
      BY <1>1 DEF Sends, Ends, Touches, Released, completionQueued
    <3>3. \A b \in Threads : arg'[b] = arg[b] /\ (pc'[b] = "post" <=> pc[b] = "post")
      BY <1>1, <1>2
    <3>4. io'[r] = io[r] /\ calls'[r] = calls[r] /\ (r \in misread' <=> r \in misread)
      BY <1>1
    <3>5. CASE Served(r)
      <4>1. /\ Waits(r) /\ ~Comes(r) /\ \A w \in Workers : ~Sends(w, r) /\ ~Ends(w, r)
            /\ \A b \in Threads : arg[b] = r => pc[b] # "post"
        BY <3>1, <3>5 DEF RequestInv, Sent, Back, Waits, Comes, F!InFlight
      <4>2. ~Comes(r)'
        BY <3>1, <3>4, <4>1 DEF Comes, F!InFlight
      <4>3. Made(r)'
        BY <3>1, <3>3, <4>1 DEF RequestInv, Made, Waits
      <4>4. Sent(r)' /\ Back(r)'
        BY <3>1, <3>2, <3>3, <4>1, <4>2 DEF Sent, Back
      <4>5. \A w \in Workers : holds'[w] = r => doing'[w] # "decide"
        BY <1>1, <4>1 DEF Sends, Sending
      <4>6. Counted(r)' /\ Honest(r)'
        BY <3>2, <3>4, <4>1, <4>2, <4>5 DEF Counted, Honest, Waits
      <4> QED BY <4>3, <4>4, <4>6 DEF RequestInv
    <3>6. CASE Native(r)
      <4>1. /\ Comes(r) /\ io[r] = "over" /\ overlapped[r] = "live" /\ \A w \in Workers : ~Ends(w, r)
        BY <3>1, <3>6 DEF RequestInv, Back, Comes
      <4>2. ~Comes(r)'
        BY <3>1, <3>4, <4>1 DEF Comes, F!InFlight
      <4>3. /\ \A b \in Threads : arg[b] = r => pc[b] # "post"
            /\ \A w \in Workers : Sends(w, r) => doing[w] # "submit"
        BY <3>1, <4>1 DEF RequestInv, Sent, Waits
      <4>4. Made(r)'
        BY <3>1, <3>3, <4>1, <4>3 DEF RequestInv, Made
      <4>5. Sent(r)'
        BY <1>1, <3>1, <3>2, <3>3, <3>4, <4>1, <4>3 DEF RequestInv, Sent
      <4>6. Back(r)'
        BY <3>1, <3>2, <4>1, <4>2 DEF Back
      <4>7. Counted(r)'
        BY <1>1, <3>1, <4>2 DEF RequestInv, Counted
      <4>8. Honest(r)'
        <5>1. r \notin misread => calls[r] = 0 /\ \A w \in Workers : ~Touches(w, r)
          BY <3>1, <4>1 DEF RequestInv, Honest
        <5>2. r \notin misread' => \A w \in Workers : Sends(w, r)' => Released(w)'
          BY <3>2, <3>4, <5>1 DEF Touches
        <5> QED BY <3>4, <4>2, <5>1, <5>2 DEF Honest
      <4> QED BY <4>4, <4>5, <4>6, <4>7, <4>8 DEF RequestInv
    <3> QED BY <2>4, <2>8, <3>5, <3>6
  <2>9. \A r \in Requests : RequestInv(r)'
    BY <2>7, <2>8
  <2> QED BY <1>1, <1>2, <2>6, <2>9, OtherStepKeeps
<1> QED BY <1>3, <1>4

-----------------------------------------------------------------------------
(* The invariant.                                                           *)

\* It holds from the start on, and no step breaks it.
THEOREM Invariance == Spec => []IInv
<1>1. Init => IInv
  BY InitKeeps
<1>2. ASSUME IInv, [Next]_vars PROVE IInv'
  <2>1. CASE UNCHANGED vars
    <3>1. UNCHANGED <<packets, threads, handle, owned, overlapped, target, io, calls, doing, holds,
                      result, pc, arg, vista, program, initVars, lastError, misread>>
      BY <2>1 DEF vars, serviceVars, requestVars, workerVars, socketVars, fixedVars
    <3>2. Fields'
      BY <1>2, <3>1 DEF IInv, Fields, TypeOK, kind, initVars
    <3>3. HandsInv' /\ PortOnce'
      BY <1>2, <3>1 DEF IInv, HandsInv, PortOnce
    <3>4. \A r \in Requests : RequestInv(r)'
      <4>1. \A r \in Requests : Fewer(r)
        BY <3>1 DEF Fewer, Served, Native
      <4> QED BY <1>2, <3>1, <4>1, AllKept
    <3>5. \A r \in Requests : SocketInv(r)'
      BY <1>2, <3>1, SocketsStand DEF Standing, Steady, initVars
    <3>6. Existing'
      BY <1>2, <3>1, ExistingKept DEF initVars
    <3> QED BY <3>2, <3>3, <3>4, <3>5, <3>6 DEF IInv
  <2>2. CASE Next
    <3>1. ASSUME NEW c \in Clients,
                 StartServing(c) \/ CreatePort(c) \/ \E w \in Workers : SpawnWorker(c, w)
          PROVE  IInv'
      BY <1>2, <3>1, StartServingKeeps, CreatePortKeeps, SpawnWorkerKeeps
    <3>2. ASSUME NEW a \in Threads, NEW r \in Requests,
                 \/ socketAccept(a, r) \/ socketConnect(a, r) \/ socketRead(a, r)
                 \/ socketWrite(a, r) \/ socketSendFile(a, r)
          PROVE  IInv'
      <4>1. EnterWithSocket(a, r) \/ socketConnect(a, r)
        BY <3>2 DEF socketAccept, socketRead, socketWrite, socketSendFile
      <4> QED BY <1>2, <4>1, EnterWithSocketKeeps, SocketConnectKeeps
    <3>3. ASSUME NEW a \in Threads, Shutdown(a) \/ InService(a)
          PROVE  IInv'
      BY <1>2, <3>3, ShutdownKeeps, PreparesKeeps, CountUpKeeps, PostKeeps,
         PostShutdownKeeps, JoinKeeps, DrainKeeps, StorePendingKeeps, ClosePortKeeps DEF InService, Prepares
    <3>4. ASSUME NEW w \in Workers, WorkerStep(w)
          PROVE  IInv'
      BY <1>2, <3>4, TakeShutdownKeeps, TakeRequestKeeps, TakeCompletionKeeps, SubmitKeeps, DecideKeeps,
         EarlyReturnsKeeps, CompletionReturnsKeeps, CallbackThrowsKeeps DEF WorkerStep
    <3>5. ASSUME NEW r \in Requests, Complete(r)
          PROVE  IInv'
      BY <1>2, <3>5, CompleteKeeps
    <3>6. ASSUME NEW s \in Sockets, InitSocket(s) \/ InitStores(s) \/ CloseSocket(s) \/ BindSocket(s)
          PROVE  IInv'
      BY <1>2, <3>6, InitSocketKeeps, InitStoresKeeps, CloseSocketKeeps, BindSocketKeeps
    <3> QED BY <2>2, <3>1, <3>2, <3>3, <3>4, <3>5, <3>6 DEF Next
  <2> QED BY <1>2, <2>1, <2>2
<1> QED BY <1>1, <1>2, PTL DEF Spec

\* Every variable has its type.
THEOREM ServiceTyped == Spec => []TypeOK
<1>1. IInv => TypeOK
  BY DEF IInv, Fields
<1> QED BY <1>1, Invariance, PTL

\* A set with no two members.
LEMMA OneAtMost ==
  ASSUME NEW S, \A x, y \in S : x = y
  PROVE  Cardinality(S) = IF S = {} THEN 0 ELSE 1
<1>1. CASE S = {}
  BY <1>1, FS_EmptySet
<1>2. CASE S # {}
  <2>1. PICK x : S = {x}
    BY <1>2
  <2> QED BY <1>2, <2>1, FS_Singleton
<1> QED BY <1>1, <1>2

\* What is true of one request makes its owner one.
LEMMA Alone ==
  ASSUME IInv, NEW r \in Requests, r \notin misread
  PROVE  /\ Holders(r) <= 1 /\ calls[r] <= 1
         /\ Holders(r) = 1 => overlapped[r] = "live"
<1>1. RequestInv(r) /\ None \notin Requests
  BY Known
<1>2. /\ \A a, b \in F!Posting(r) : a = b
      /\ F!Posting(r) # {} => Waits(r) /\ ~Served(r) /\ \A w \in Workers : ~Sends(w, r)
  BY <1>1 DEF F!Posting, Threads, F!Threads, RequestInv, Made, Sent
<1>3. /\ \A i, j \in F!InPort(r) : i = j
      /\ F!InPort(r) # {} => Served(r) \/ Native(r)
  <2>1. \A i \in DOMAIN packets : packets[i].key \in {"server", "native"}
    <3>1. packets \in Seq(F!Packets)
      BY Known
    <3>2. \A i \in DOMAIN packets : packets[i] \in F!Packets
      BY <3>1, ElementOfSeq, LenProperties
    <3> QED BY <3>2 DEF F!Packets
  <2> QED BY <2>1 DEF F!InPort, Served, Native, IInv, PortOnce
<1>4. \A w \in Touching(r) : Touches(w, r) /\ (Sends(w, r) \/ Ends(w, r))
  BY <1>1 DEF Touching, Touches, Sends, Ends, Released, IInv, HandsInv, Busy
<1>5. Touching(r) # {} => /\ ~Comes(r) /\ ~Served(r)
                          /\ F!Posting(r) = {}
                          /\ \A v, w \in Touching(r) : v = w
                          /\ overlapped[r] = "live"
  <2>1. ASSUME NEW w \in Touching(r), Ends(w, r)
        PROVE  /\ io[r] = "over" /\ overlapped[r] = "live" /\ ~Comes(r) /\ ~Served(r) /\ F!Posting(r) = {}
               /\ \A v \in Touching(r) : v = w
    <3>1. io[r] = "over" /\ overlapped[r] = "live" /\ ~Comes(r) /\ ~Waits(r)
          /\ \A v \in Workers : Ends(v, r) => v = w
      BY <1>1, <2>1 DEF Touching, RequestInv, Back, Waits
    <3>2. \A v \in Workers : Sends(v, r) => doing[v] # "submit"
      BY <1>1, <3>1 DEF RequestInv, Sent
    <3>3. \A v \in Workers : ~(Sends(v, r) /\ ~Released(v))
      BY <1>1, <2>1, <3>2 DEF Touching, RequestInv, Honest
    <3>4. \A v \in Touching(r) : Ends(v, r)
      BY <1>4, <3>3 DEF Touching, Touches
    <3> QED BY <1>1, <1>2, <3>1, <3>4 DEF Touching, RequestInv, Sent
  <2>2. ASSUME NEW w \in Touching(r), Sends(w, r), \A v \in Touching(r) : ~Ends(v, r)
        PROVE  /\ overlapped[r] = "live" /\ ~Comes(r) /\ ~Served(r) /\ F!Posting(r) = {}
               /\ \A v \in Touching(r) : v = w
    <3>1. ~Served(r) /\ F!Posting(r) = {} /\ \A v \in Workers : Sends(v, r) => v = w
      BY <1>1, <1>2, <2>2 DEF Touching, RequestInv, Sent
    <3>2. ~Comes(r)
      BY <1>1, <1>4 DEF Touching, RequestInv, Honest
    <3>3. overlapped[r] = "live"
      BY <1>1, <1>4, <2>2 DEF Touching, Touches, RequestInv, Honest, Sent, Waits
    <3> QED BY <1>4, <2>2, <3>1, <3>2, <3>3 DEF Touching
  <2> QED BY <1>4, <2>1, <2>2 DEF Touching
<1>6. /\ F!InFlight(r) => Comes(r) /\ ~Native(r) /\ ~Served(r) /\ F!Posting(r) = {}
      /\ Comes(r) => overlapped[r] = "live" /\ F!Posting(r) = {} /\ ~Served(r)
      /\ Served(r) \/ F!Posting(r) # {} => overlapped[r] = "live"
  BY <1>1, <1>2 DEF Comes, F!InFlight, RequestInv, Sent, Back, Waits
<1>7. /\ Cardinality(F!Posting(r)) = IF F!Posting(r) = {} THEN 0 ELSE 1
      /\ Cardinality(F!InPort(r)) = IF F!InPort(r) = {} THEN 0 ELSE 1
      /\ Cardinality(Touching(r)) = IF Touching(r) = {} THEN 0 ELSE 1
  BY <1>2, <1>3, <1>5, OneAtMost
<1>8. calls[r] <= 1
  BY <1>1 DEF RequestInv, Honest
<1>9. \/ F!Posting(r) = {} /\ F!InPort(r) = {} /\ Touching(r) = {} /\ ~F!InFlight(r)
      \/ /\ overlapped[r] = "live"
         /\ \/ F!InPort(r) = {} /\ Touching(r) = {} /\ ~F!InFlight(r)
            \/ F!Posting(r) = {} /\ Touching(r) = {} /\ ~F!InFlight(r)
            \/ F!Posting(r) = {} /\ F!InPort(r) = {} /\ ~F!InFlight(r)
            \/ F!Posting(r) = {} /\ F!InPort(r) = {} /\ Touching(r) = {}
  BY <1>2, <1>3, <1>5, <1>6 DEF Comes
<1> QED BY <1>7, <1>8, <1>9 DEF Holders

\* On either Windows a request that was told its own error has one owner.
THEOREM OneOwnerAlways == Spec => []OneOwner
<1>1. IInv => OneOwner
  BY Alone DEF OneOwner
<1> QED BY <1>1, Invariance, PTL

\* The system gets a request with its sockets as the call needs them, but for
\* a socket to connect that a race of init() replaced.
THEOREM SocketsPrepared == Spec => []Prepared
<1>1. ASSUME IInv, NEW w \in Workers, doing[w] = "submit"
      PROVE  /\ handle[target[holds[w]]] # "closed"
             /\ kind(holds[w]) = "connect" => bound[target[holds[w]]] \/ target[holds[w]] \in raced
             /\ kind(holds[w]) = "accept" =>
                  handle[program[holds[w]].into] # "closed" /\ owned[program[holds[w]].into]
  <2>1. holds[w] \in Requests /\ RequestInv(holds[w])
    BY <1>1, InWork DEF Busy, Sending
  <2>2. Waits(holds[w])
    BY <1>1, <2>1 DEF RequestInv, Sent, Sends, Sending
  <2>3. SocketInv(holds[w])
    BY <1>1, <2>1 DEF IInv
  <2> QED BY <2>2, <2>3 DEF SocketInv, Waits, Ready
<1>2. IInv => Prepared
  BY <1>1 DEF Prepared
<1> QED BY <1>2, Invariance, PTL

-----------------------------------------------------------------------------
(* A careful program: it uses the service and shuts it down when it has     *)
(* started, and not from a callback; Thread::start and                      *)
(* PostQueuedCompletionStatus have the memory they need.                    *)
CarefulProgram == Env \subseteq {"nested", "reopen", "throw"}

Opening == {"port", "spawn"}
Stopping == {"wake", "join", "drain", "store", "abort"}

\* startServing is one thread's; all workers have started when it returns.
StartInv ==
  /\ state = "none" => threads = {}
  /\ \A c \in Threads : pc[c] \in Opening => state = "started"
  /\ \A c, d \in Threads : pc[c] \in Opening /\ pc[d] \in Opening => c = d
  /\ \A c \in Threads : pc[c] = "spawn" => port = "open"
  /\ \A w \in Workers : pc[w] \notin Opening
  /\ state = "started" /\ ~F!Starting => threads = Workers /\ port = "open"

\* shutdown() is one thread's; it closes the port when no worker is left.
StopInv ==
  /\ \A a, b \in Threads : pc[a] \in Stopping /\ pc[b] \in Stopping => a = b
  /\ \A a \in Threads : pc[a] \in Stopping => state = "shutdown" /\ joins = Workers
  /\ \A w \in Workers : F!Alive(w) => port = "open"
  /\ \A a \in Threads : pc[a] \in {"drain", "store", "abort"}
       => \A w \in Workers : ~F!Alive(w)

CInv == StartInv /\ StopInv

\* A step that is none of startServing and shutdown().
Working ==
  /\ UNCHANGED <<state, port, threads, joins>>
  /\ \A a \in Threads :
       pc'[a] = pc[a] \/ (pc[a] \notin Opening \union Stopping /\ pc'[a] \notin Opening \union Stopping)
  /\ \A w \in Workers : F!Alive(w)' => F!Alive(w)

\* A step that leaves the service and the program's calls alone keeps what is known of them.
LEMMA WorkingKeeps ==
  ASSUME CInv, Working
  PROVE  CInv'
<1>1. \A a \in Threads : (pc'[a] \in Opening <=> pc[a] \in Opening) /\ (pc[a] \in Opening => pc'[a] = pc[a])
      /\ (pc'[a] = "spawn" => pc[a] = "spawn")
  BY DEF Working, Opening, Stopping
<1>2. \A a \in Threads : pc'[a] \in Stopping => pc'[a] = pc[a]
  BY DEF Working, Opening, Stopping
<1>3. F!Starting' <=> F!Starting
  <2>1. \A c \in Clients : pc'[c] \in Opening <=> pc[c] \in Opening
    BY <1>1 DEF Threads
  <2> QED BY <2>1 DEF F!Starting, Opening
<1>4. Workers \subseteq Threads
  BY DEF Threads
<1>5. StartInv'
  BY <1>1, <1>3, <1>4 DEF CInv, StartInv, Working
<1>6. StopInv'
  <2>1. \A a \in Threads : pc'[a] \in {"drain", "store", "abort"} => pc'[a] = pc[a]
    BY <1>2 DEF Stopping
  <2> QED BY <1>2, <2>1 DEF CInv, StopInv, Working
<1> QED BY <1>5, <1>6 DEF CInv

\* The steps of a request and of a socket do no more than that,
LEMMA RequestsWork ==
  ASSUME IInv, NEW a \in Threads,
         \/ Prepares(a) \/ CountUp(a) \/ Post(a)
         \/ \E r \in Requests : \E place \in Preparation : Enter(a, r, place)
  PROVE  Working
<1>1. pc \in [Threads -> Making \union Resting]
  BY Known
<1>2. ASSUME NEW place \in Making \union {"out"}, pc[a] \in Making \union {"out"},
             pc' = [pc EXCEPT ![a] = place], UNCHANGED <<state, port, threads, joins, doing>>
      PROVE  Working
  BY <1>1, <1>2 DEF Working, Opening, Stopping, Making, Preparation, F!Alive
<1>3. CASE Prepares(a)
  <2>1. PICK place \in Preparation \union {"out"} : pc' = [pc EXCEPT ![a] = place]
    BY <1>3, PreparesMoves
  <2>2. pc[a] \in Preparation /\ UNCHANGED <<state, port, threads, joins, doing>>
    BY <1>3, PreparesMoves DEF Preparing, serviceVars, workerVars, stopVars
  <2> QED BY <1>2, <2>1, <2>2 DEF Making, Preparation
<1>4. CASE CountUp(a)
  <2>1. /\ pc[a] = "count" /\ pc' = [pc EXCEPT ![a] = "post"]
        /\ UNCHANGED <<state, port, threads, joins, doing>>
    BY <1>4 DEF CountUp, F!CountUp, F!At, F!workerVars, F!stopVars
  <2> QED BY <1>2, <2>1 DEF Making, Preparation
<1>5. CASE Post(a)
  <2>1. /\ pc[a] = "post" /\ pc' = [pc EXCEPT ![a] = "out"]
        /\ UNCHANGED <<state, port, threads, joins, doing>>
    BY <1>5 DEF Post, F!Post, F!Throw, F!At, F!workerVars, F!stopVars
  <2> QED BY <1>2, <2>1 DEF Making, Preparation
<1>6. CASE \E r \in Requests : \E place \in Preparation : Enter(a, r, place)
  <2>1. PICK r \in Requests, place \in Preparation : Enter(a, r, place)
    BY <1>6
  <2>2. /\ pc[a] = "out" /\ pc' = [pc EXCEPT ![a] = place]
        /\ UNCHANGED <<state, port, threads, joins, doing>>
    BY <2>1 DEF Enter, F!MayCall, F!At, serviceVars, workerVars, stopVars
  <2> QED BY <1>2, <2>2 DEF Making, Preparation
<1> QED BY <1>3, <1>4, <1>5, <1>6

\* and the kernel and the workers do no more.
LEMMA WorkersWork ==
  ASSUME IInv,
         \/ \E w \in Workers : WorkerStep(w)
         \/ \E r \in Requests : Complete(r)
         \/ \E s \in Sockets : InitSocket(s) \/ InitStores(s) \/ CloseSocket(s) \/ BindSocket(s)
         \/ UNCHANGED vars
  PROVE  Working
<1>1. ASSUME NEW w \in Workers, WorkerStep(w)
      PROVE  /\ UNCHANGED <<state, port, threads, joins, pc>> /\ F!Alive(w)
             /\ \A v \in Workers \ {w} : doing'[v] = doing[v]
  <2>1. CASE TakeShutdown(w)
    BY <2>1, Known DEF TakeShutdown, F!TakeShutdown, F!Dequeues, F!Goes, F!callerVars, F!stopVars, F!Alive
  <2>2. CASE \E r \in Requests : TakeRequest(w, r) \/ TakeCompletion(w, r)
    <3>1. PICK r \in Requests : TakeRequest(w, r) \/ TakeCompletion(w, r)
      BY <2>2
    <3> QED BY <3>1, Known DEF TakeRequest, F!TakeRequest, TakeCompletion, F!TakeCompletion, F!Dequeues,
              F!Goes, F!callerVars, F!stopVars, F!Alive
  <2>3. CASE Submit(w)
    BY <2>3, Known DEF Submit, F!Goes, stopVars, F!Alive
  <2>4. CASE Decide(w)
    BY <2>4, Known DEF Decide, F!Goes, serviceVars, stopVars, F!Alive
  <2>5. CASE EarlyReturns(w)
    BY <2>5, Known DEF EarlyReturns, F!EarlyReturns, F!Goes, F!serviceVars, F!callerVars, F!stopVars, F!Alive
  <2>6. CASE CompletionReturns(w)
    BY <2>6, Known DEF CompletionReturns, F!WriteReturns, F!Goes, F!serviceVars, F!callerVars, F!stopVars, F!Alive
  <2>7. CASE CallbackThrows(w)
    BY <2>7, Known DEF CallbackThrows, F!CallbackThrows, F!InCallback, F!Goes, F!serviceVars, F!callerVars, F!stopVars, F!Alive
  <2> QED BY <1>1, <2>1, <2>2, <2>3, <2>4, <2>5, <2>6, <2>7 DEF WorkerStep
<1>2. ASSUME NEW r \in Requests, Complete(r)
      PROVE  UNCHANGED <<state, port, threads, joins, pc, doing>>
  BY <1>2 DEF Complete, F!Complete, F!workerVars, F!callerVars, F!stopVars
<1>3. ASSUME NEW s \in Sockets, InitSocket(s) \/ InitStores(s) \/ CloseSocket(s) \/ BindSocket(s)
      PROVE  UNCHANGED <<state, port, threads, joins, pc, doing>>
  BY <1>3 DEF InitSocket, InitStores, CloseSocket, BindSocket, Touched, serviceVars, workerVars, stopVars
<1>4. CASE \E w \in Workers : WorkerStep(w)
  <2>1. PICK w \in Workers : WorkerStep(w)
    BY <1>4
  <2>2. \A v \in Workers : F!Alive(v)' => F!Alive(v)
    BY <1>1, <2>1 DEF F!Alive
  <2> QED BY <1>1, <2>1, <2>2 DEF Working
<1>5. CASE UNCHANGED <<state, port, threads, joins, pc, doing>>
  BY <1>5 DEF Working, F!Alive
<1> QED BY <1>2, <1>3, <1>4, <1>5 DEF vars, serviceVars, workerVars, stopVars

\* startServing: one thread makes the port, and then the workers.
LEMMA StartingKeeps ==
  ASSUME IInv, CInv, CarefulProgram, NEW c \in Clients,
         StartServing(c) \/ CreatePort(c) \/ \E w \in Workers : SpawnWorker(c, w)
  PROVE  CInv'
<1>1. /\ pc \in [Threads -> Making \union Resting] /\ c \in Threads /\ c \notin Workers
      /\ Workers \subseteq Threads /\ Clients \subseteq Threads
  BY Known DEF Threads
<1>2. /\ doing \in [Workers -> Busy \union {"none", "failed", "wait", "ended"}]
      /\ \A w \in Workers : doing[w] = "none" <=> w \notin threads
  BY Known DEF IInv, HandsInv
<1>3. CASE StartServing(c)
  <2>1. /\ pc[c] = "out" /\ state = "none" /\ state' = "started" /\ pc' = [pc EXCEPT ![c] = "port"]
        /\ UNCHANGED <<port, threads, doing, joins>>
    BY <1>3 DEF StartServing, F!StartServing, F!At, F!workerVars, F!stopVars
  <2>2. \A a \in Threads : pc[a] \notin Opening \union Stopping
    BY <2>1 DEF CInv, StartInv, StopInv
  <2>3. \A a \in Threads : pc'[a] = IF a = c THEN "port" ELSE pc[a]
    BY <1>1, <2>1
  <2>4. F!Starting'
    BY <1>1, <2>3 DEF F!Starting
  <2>5. StartInv'
    BY <1>1, <2>1, <2>2, <2>3, <2>4 DEF StartInv, Opening
  <2>6. StopInv'
    BY <1>1, <2>1, <2>2, <2>3 DEF CInv, StopInv, Stopping, F!Alive
  <2> QED BY <2>5, <2>6 DEF CInv
<1>4. CASE CreatePort(c)
  <2>1. /\ pc[c] = "port" /\ port' = "open" /\ pc' = [pc EXCEPT ![c] = "spawn"]
        /\ UNCHANGED <<state, threads, doing, joins>>
    BY <1>4 DEF CreatePort, F!CreatePort, F!At, F!workerVars, F!stopVars
  <2>2. \A a \in Threads : (pc[a] \in Opening => a = c) /\ pc[a] \notin Stopping
    BY <1>1, <2>1 DEF CInv, StartInv, StopInv, Opening
  <2>3. \A a \in Threads : pc'[a] = IF a = c THEN "spawn" ELSE pc[a]
    BY <1>1, <2>1
  <2>4. F!Starting'
    BY <1>1, <2>3 DEF F!Starting
  <2>5. StartInv'
    BY <1>1, <2>1, <2>2, <2>3, <2>4 DEF CInv, StartInv, Opening
  <2>6. StopInv'
    BY <1>1, <2>1, <2>2, <2>3 DEF CInv, StopInv, Stopping, F!Alive
  <2> QED BY <2>5, <2>6 DEF CInv
<1>5. ASSUME NEW w \in Workers, SpawnWorker(c, w)
      PROVE  CInv'
  <2>1. /\ pc[c] = "spawn" /\ threads' = threads \union {w}
        /\ doing' = [doing EXCEPT ![w] = "wait"]
        /\ pc' = [pc EXCEPT ![c] = IF threads' = Workers THEN "out" ELSE "spawn"]
        /\ UNCHANGED <<state, port, joins>>
    BY <1>5 DEF SpawnWorker, F!SpawnWorker, F!At, F!stopVars, CarefulProgram
  <2>2. \A a \in Threads : (pc[a] \in Opening => a = c) /\ pc[a] \notin Stopping
    BY <1>1, <2>1 DEF CInv, StartInv, StopInv, Opening
  <2>3. /\ \A a \in Threads : a # c => pc'[a] = pc[a]
        /\ pc'[c] = IF threads' = Workers THEN "out" ELSE "spawn"
    BY <1>1, <2>1
  <2>4. state = "started" /\ port = "open"
    BY <1>1, <2>1 DEF CInv, StartInv, Opening
  <2>5. F!Starting' \/ threads' = Workers
    BY <1>1, <2>3 DEF F!Starting
  <2>6. StartInv'
    BY <1>1, <2>1, <2>2, <2>3, <2>4, <2>5 DEF CInv, StartInv, Opening
  <2>7. StopInv'
    BY <1>1, <2>1, <2>2, <2>3, <2>4 DEF CInv, StopInv, Stopping
  <2> QED BY <2>6, <2>7 DEF CInv
<1> QED BY <1>3, <1>4, <1>5

\* shutdown(): one thread posts, joins, drains and closes.
LEMMA StoppingKeeps ==
  ASSUME IInv, CInv, CarefulProgram, NEW a \in Threads,
         Shutdown(a) \/ PostShutdown(a) \/ Join(a) \/ Drain(a) \/ StorePending(a) \/ ClosePort(a)
  PROVE  CInv'
<1>1. /\ pc \in [Threads -> Making \union Resting] /\ Workers \subseteq Threads /\ Clients \subseteq Threads
  BY Known DEF Threads
<1>2. CASE Shutdown(a)
  <2>1. /\ pc[a] = "out" /\ a \in Clients /\ state' = "shutdown" /\ ~F!Starting
        /\ UNCHANGED <<port, threads, doing>>
    BY <1>2 DEF Shutdown, F!Shutdown, F!MayCall, F!workerVars, CarefulProgram
  <2>2. \A b \in Threads : pc[b] \notin Opening
    BY <2>1 DEF F!Starting, Opening, CInv, StartInv, Threads
  <2>3. CASE state # "started"
    <3>1. pc' = pc /\ joins' = joins
      BY <1>2, <2>3 DEF Shutdown, F!Shutdown, F!stopVars
    <3>2. StartInv'
      BY <1>1, <2>1, <2>2, <3>1 DEF StartInv, Opening
    <3>3. StopInv'
      BY <2>1, <3>1 DEF CInv, StopInv, F!Alive
    <3> QED BY <3>2, <3>3 DEF CInv
  <2>4. CASE state = "started"
    <3>1. /\ threads = Workers /\ joins' = Workers
          /\ pc' = [pc EXCEPT ![a] = IF Workers = {} THEN "drain" ELSE "wake"]
      BY <1>2, <2>1, <2>4 DEF Shutdown, F!Shutdown, F!Counted, F!At, CInv, StartInv
    <3>2. \A b \in Threads : pc[b] \notin Stopping
      BY <2>4 DEF CInv, StopInv
    <3>3. /\ \A b \in Threads : b # a => pc'[b] = pc[b]
          /\ pc'[a] = IF Workers = {} THEN "drain" ELSE "wake"
      BY <1>1, <3>1
    <3>4. StartInv'
      <4>1. \A b \in Threads : pc'[b] \notin Opening
        BY <2>2, <3>3 DEF Opening
      <4> QED BY <1>1, <2>1, <4>1 DEF StartInv, Opening
    <3>5. StopInv'
      BY <1>1, <2>1, <3>1, <3>2, <3>3 DEF CInv, StopInv, Stopping, F!Alive
    <3> QED BY <3>4, <3>5 DEF CInv
  <2> QED BY <2>3, <2>4
<1>3. CASE ~Shutdown(a)
  <2> DEFINE place == pc'[a]
  <2>1. /\ pc[a] \in Stopping /\ UNCHANGED <<state, threads, joins, doing>>
        /\ pc' = [pc EXCEPT ![a] = place] /\ place \in Stopping \union {"out"}
        /\ place \in {"drain", "store", "abort"} => pc[a] \in {"drain", "store"} \/ \A w \in joins : doing[w] = "ended"
        /\ port' = port \/ pc[a] = "drain"
    <3>1. CASE PostShutdown(a)
      BY <1>1, <3>1 DEF PostShutdown, F!PostShutdown, F!At, F!workerVars, Stopping
    <3>2. CASE Join(a)
      BY <1>1, <3>2 DEF Join, F!Join, F!At, F!AllEnded, F!serviceVars, F!stopVars, F!workerVars, Stopping
    <3>3. CASE Drain(a)
      BY <1>1, <3>3 DEF Drain, F!Drain, F!At, F!workerVars, Stopping
    <3>4. CASE StorePending(a)
      BY <1>1, <3>4 DEF StorePending, F!StorePending, F!At, F!workerVars, Stopping
    <3>5. CASE ClosePort(a)
      BY <1>1, <3>5 DEF ClosePort, F!ClosePort, F!At, F!stopVars, F!workerVars, Stopping
    <3> QED BY <1>3, <3>1, <3>2, <3>3, <3>4, <3>5
  <2> HIDE DEF place
  <2>2. /\ state = "shutdown" /\ joins = Workers /\ \A b \in Threads : pc[b] \in Stopping => b = a
        /\ \A b \in Threads : pc[b] \notin Opening
    BY <2>1 DEF CInv, StartInv, StopInv
  <2>3. /\ \A b \in Threads : b # a => pc'[b] = pc[b]
        /\ pc'[a] = place
    BY <1>1, <2>1
  <2>4. StartInv'
    <3>1. \A b \in Threads : pc'[b] \notin Opening
      BY <2>1, <2>2, <2>3 DEF Opening, Stopping
    <3> QED BY <1>1, <2>1, <2>2, <3>1 DEF StartInv, Opening
  <2>5. \A w \in Workers : F!Alive(w)' <=> F!Alive(w)
    BY <2>1 DEF F!Alive
  <2>6. pc[a] \in {"drain", "store"} => \A w \in Workers : ~F!Alive(w)
    BY DEF CInv, StopInv
  <2>7. StopInv'
    <3>1. \A b \in Threads : pc'[b] \in Stopping => b = a
      BY <2>2, <2>3
    <3>2. \A w \in Workers : F!Alive(w) => port' = "open"
      BY <2>1, <2>6 DEF CInv, StopInv
    <3>3. place \in {"drain", "store", "abort"} => \A w \in Workers : ~F!Alive(w)
      BY <2>1, <2>2, <2>6 DEF F!Alive
    <3> QED BY <2>1, <2>2, <2>3, <2>5, <3>1, <3>2, <3>3 DEF StopInv, Stopping
  <2> QED BY <2>4, <2>7 DEF CInv
<1> QED BY <1>2, <1>3

\* In a careful program shutdown() waits for every worker, and closes the port
\* under none.
THEOREM CarefulInvariance ==
  ASSUME CarefulProgram  PROVE Spec => [](IInv /\ CInv)
<1>1. Init => CInv
  <2> SUFFICES ASSUME Init PROVE CInv
    OBVIOUS
  <2> QED BY DEF Init, CInv, StartInv, StopInv, Opening, Stopping, F!Alive, Threads
<1>2. IInv /\ CInv /\ [Next]_vars => CInv'
  <2> SUFFICES ASSUME IInv, CInv, [Next]_vars PROVE CInv'
    OBVIOUS
  <2>1. CASE UNCHANGED vars
    BY <2>1, WorkersWork, WorkingKeeps
  <2>2. CASE Next
    <3>1. ASSUME NEW a \in Threads, InService(a) \/ Shutdown(a)
          PROVE  CInv'
      BY <3>1, RequestsWork, WorkingKeeps, StoppingKeeps DEF InService, Prepares
    <3>2. ASSUME NEW a \in Threads, NEW r \in Requests,
                 \/ socketAccept(a, r) \/ socketConnect(a, r) \/ socketRead(a, r)
                 \/ socketWrite(a, r) \/ socketSendFile(a, r)
          PROVE  CInv'
      <4>1. \E place \in Preparation : Enter(a, r, place)
        BY <3>2, Entering
      <4> QED BY <4>1, RequestsWork, WorkingKeeps
    <3>3. CASE \/ \E w \in Workers : WorkerStep(w)
               \/ \E r \in Requests : Complete(r)
               \/ \E s \in Sockets : InitSocket(s) \/ InitStores(s) \/ CloseSocket(s) \/ BindSocket(s)
      BY <3>3, WorkersWork, WorkingKeeps
    <3>4. ASSUME NEW c \in Clients,
                 StartServing(c) \/ CreatePort(c) \/ \E w \in Workers : SpawnWorker(c, w)
          PROVE  CInv'
      BY <3>4, StartingKeeps
    <3> QED BY <2>2, <3>1, <3>2, <3>3, <3>4 DEF Next
  <2> QED BY <2>1, <2>2
<1> QED BY <1>1, <1>2, Invariance, PTL DEF Spec

-----------------------------------------------------------------------------
(* The refinement of AsyncIO.                                               *)

\* Where a user sees a request to be.
Seen(r) ==
  IF calls[r] > 0 THEN "answered"
  ELSE IF overlapped[r] = "refused" THEN "refused"
  ELSE IF overlapped[r] = "none" \/ \E a \in Threads : pc[a] = "post" /\ arg[a] = r
  THEN "fresh"
  ELSE "accepted"

\* The mapping of the requests, with a name for what AsyncIO sees of one.
LEMMA StatusSeen == F!Status = [r \in Requests |-> Seen(r)]
BY DEF F!Status, Seen, F!Posting, F!Threads, Threads

\* A step that changes no request's status is a stutter of them.
LEMMA StatusKept ==
  ASSUME \A r \in Requests : Seen(r)' = Seen(r)
  PROVE  F!Status' = F!Status
<1>1. F!Status' = [r \in Requests |-> Seen(r)']
  BY DEF F!Status, Seen, F!Posting, F!Threads, Threads
<1> QED BY <1>1, StatusSeen

\* A step that moves one request's status is a step of that request.
LEMMA StatusMoves ==
  ASSUME NEW q \in Requests, NEW s, \A r \in Requests \ {q} : Seen(r)' = Seen(r), Seen(q)' = s
  PROVE  F!Status[q] = Seen(q) /\ F!Status' = [F!Status EXCEPT ![q] = s]
<1>1. F!Status' = [r \in Requests |-> Seen(r)']
  BY DEF F!Status, Seen, F!Posting, F!Threads, Threads
<1> QED BY <1>1, StatusSeen

\* What a user sees of r stays the same when nobody posts it or ends to post
\* it, and its calls and its OVERLAPPED_EX tell him nothing new.
LEMMA Unseen ==
  ASSUME NEW r, calls'[r] > 0 <=> calls[r] > 0,
         \/ overlapped'[r] = overlapped[r]
         \/ /\ overlapped[r] \notin {"none", "refused"} /\ overlapped'[r] \notin {"none", "refused"}
         \/ calls[r] > 0,
         \A a \in Threads : pc'[a] = "post" /\ arg'[a] = r <=> pc[a] = "post" /\ arg[a] = r
  PROVE  Seen(r)' = Seen(r)
BY DEF Seen

\* Nobody posts a request that is on its way.
LEMMA OnItsWay ==
  ASSUME IInv, NEW r \in Requests,
         Served(r) \/ Comes(r) \/ \E w \in Workers : Sends(w, r) \/ Ends(w, r)
  PROVE  /\ overlapped[r] \notin {"none", "refused"}
         /\ \A a \in Threads : ~(pc[a] = "post" /\ arg[a] = r)
<1>1. RequestInv(r)
  BY Known
<1>2. CASE Served(r)
  BY <1>1, <1>2 DEF RequestInv, Sent, Waits
<1>3. CASE Comes(r)
  <2>1. ~Waits(r) /\ overlapped[r] = "live"
    BY <1>1, <1>3 DEF RequestInv, Back, Waits, Comes, F!InFlight
  <2> QED BY <1>1, <2>1 DEF RequestInv, Sent
<1>4. ASSUME NEW w \in Workers, Sends(w, r)
      PROVE  overlapped[r] \notin {"none", "refused"} /\ \A a \in Threads : ~(pc[a] = "post" /\ arg[a] = r)
  BY <1>1, <1>4 DEF RequestInv, Sent, Waits
<1>5. ASSUME NEW w \in Workers, Ends(w, r)
      PROVE  overlapped[r] \notin {"none", "refused"} /\ \A a \in Threads : ~(pc[a] = "post" /\ arg[a] = r)
  <2>1. ~Waits(r) /\ overlapped[r] = "live"
    BY <1>1, <1>5 DEF RequestInv, Back, Waits
  <2> QED BY <1>1, <2>1 DEF RequestInv, Sent
<1> QED BY <1>2, <1>3, <1>4, <1>5

\* A callback: the first one is the answer, another is a stutter.
LEMMA CallbackAnswers ==
  ASSUME IInv, NEW q \in Requests, UNCHANGED <<port, pc, arg, overlapped>>, port = "open",
         calls' = [calls EXCEPT ![q] = @ + 1],
         overlapped[q] \notin {"none", "refused"},
         \A a \in Threads : ~(pc[a] = "post" /\ arg[a] = q)
  PROVE  [F!Abstract!IONext]_<<F!Status, (port = "open")>>
<1>1. calls \in [Requests -> 0..2]
  BY Known
<1>2. \A r \in Requests \ {q} : calls'[r] = calls[r]
  BY <1>1
<1>3. \A r \in Requests \ {q} : Seen(r)' = Seen(r)
  BY <1>2, Unseen
<1>4. calls'[q] = calls[q] + 1 /\ calls[q] \in 0..2
  BY <1>1
<1>5. Seen(q)' = "answered"
  BY <1>4 DEF Seen
<1>6. CASE calls[q] = 0
  <2>1. Seen(q) = "accepted"
    BY <1>6 DEF Seen
  <2>2. F!Status[q] = "accepted" /\ F!Status' = [F!Status EXCEPT ![q] = "answered"]
    BY <1>3, <1>5, <2>1, StatusMoves
  <2> QED BY <2>2 DEF F!Abstract!IONext, F!Abstract!Answer
<1>7. CASE calls[q] # 0
  <2>1. Seen(q) = "answered"
    BY <1>4, <1>7 DEF Seen
  <2>2. F!Status' = F!Status
    BY <1>3, <1>5, <2>1, StatusKept
  <2> QED BY <2>2
<1> QED BY <1>6, <1>7

\* A step that no user sees.
LEMMA Stutters ==
  ASSUME UNCHANGED <<port, calls, overlapped>>,
         \A r \in Requests : \A a \in Threads : pc'[a] = "post" /\ arg'[a] = r <=> pc[a] = "post" /\ arg[a] = r
  PROVE  [F!Abstract!IONext]_<<F!Status, (port = "open")>>
<1>1. \A r \in Requests : Seen(r)' = Seen(r)
  BY Unseen
<1>2. F!Status' = F!Status
  BY <1>1, StatusKept
<1> QED BY <1>2

\* What the steps of threads are for AsyncIO: Open,
LEMMA OpeningSeen ==
  ASSUME IInv, NEW c \in Clients,
         StartServing(c) \/ CreatePort(c) \/ \E w \in Workers : SpawnWorker(c, w)
  PROVE  [F!Abstract!IONext]_<<F!Status, (port = "open")>>
<1>1. pc \in [Threads -> Making \union Resting] /\ c \in Threads
  BY Known DEF Threads
<1> DEFINE place == pc'[c]
<1>2. /\ pc[c] # "post" /\ place # "post" /\ pc' = [pc EXCEPT ![c] = place]
      /\ UNCHANGED <<arg, calls, overlapped>>
      /\ port' = port \/ port' = "open"
  <2>1. CASE StartServing(c)
    BY <1>1, <2>1 DEF StartServing, F!StartServing, F!At, F!requestVars
  <2>2. CASE CreatePort(c)
    BY <1>1, <2>2 DEF CreatePort, F!CreatePort, F!At, F!requestVars
  <2>3. ASSUME NEW w \in Workers, SpawnWorker(c, w)
        PROVE  /\ pc[c] # "post" /\ place # "post" /\ pc' = [pc EXCEPT ![c] = place]
               /\ UNCHANGED <<arg, calls, overlapped>>
               /\ port' = port \/ port' = "open"
    BY <1>1, <2>3 DEF SpawnWorker, F!SpawnWorker, F!At, F!requestVars
  <2> QED BY <2>1, <2>2, <2>3
<1> HIDE DEF place
<1>3. \A a \in Threads : pc'[a] = "post" <=> pc[a] = "post"
  BY <1>1, <1>2
<1>4. \A r \in Requests : Seen(r)' = Seen(r)
  BY <1>2, <1>3, Unseen
<1>5. F!Status' = F!Status
  BY <1>4, StatusKept
<1> QED BY <1>2, <1>5 DEF F!Abstract!IONext, F!Abstract!Open

\* Accept and Refuse,
LEMMA RequestSeen ==
  ASSUME IInv, CarefulProgram, NEW a \in Threads,
         \/ Prepares(a) \/ CountUp(a) \/ Post(a)
         \/ \E r \in Requests : \E place \in Preparation : Enter(a, r, place)
  PROVE  [F!Abstract!IONext]_<<F!Status, (port = "open")>>
<1>1. /\ pc \in [Threads -> Making \union Resting] /\ arg \in [Threads -> Requests \union {None}]
      /\ calls \in [Requests -> 0..2]
      /\ overlapped \in [Requests -> {"none", "live", "refused", "freed", "drained"}]
  BY Known
<1>2. CASE \/ Prepares(a)
           \/ \E r \in Requests : \E place \in Preparation : Enter(a, r, place)
  <2>1. /\ pc[a] # "post" /\ \E place \in Preparation \union {"out"} : pc' = [pc EXCEPT ![a] = place]
        /\ \A b \in Threads \ {a} : arg'[b] = arg[b]
        /\ UNCHANGED <<port, calls, overlapped>>
    <3>1. CASE Prepares(a)
      BY <1>1, <3>1, PreparesMoves DEF Preparing, Preparation, serviceVars, requestVars
    <3>2. CASE \E r \in Requests : \E place \in Preparation : Enter(a, r, place)
      <4>1. PICK r \in Requests, place \in Preparation : Enter(a, r, place)
        BY <3>2
      <4> QED BY <1>1, <4>1 DEF Enter, F!MayCall, F!At, serviceVars, requestVars
    <3> QED BY <1>2, <3>1, <3>2
  <2>2. PICK place \in Preparation \union {"out"} : pc' = [pc EXCEPT ![a] = place]
    BY <2>1
  <2>3. place # "post"
    BY DEF Preparation
  <2>4. \A r \in Requests : \A b \in Threads : pc'[b] = "post" /\ arg'[b] = r <=> pc[b] = "post" /\ arg[b] = r
    BY <1>1, <2>1, <2>2, <2>3
  <2> QED BY <2>1, <2>4, Stutters
<1>3. CASE CountUp(a)
  <2>1. pc[a] = "count" /\ pc[a] \in Making
    BY <1>3 DEF CountUp, F!CountUp, Making, Preparation
  <2>2. PICK q \in Requests : arg[a] = q
    BY <2>1, InHands
  <2>3. /\ overlapped[q] = "none" /\ calls[q] = 0
    <3>1. RequestInv(q) /\ overlapped[q] = "none"
      BY <2>1, <2>2, InHands, Known
    <3> QED BY <3>1 DEF RequestInv, Made
  <2>4. /\ overlapped' = [overlapped EXCEPT ![q] = "live"] /\ pc' = [pc EXCEPT ![a] = "post"]
        /\ UNCHANGED <<port, arg, calls>>
    BY <1>3, <2>2 DEF CountUp, F!CountUp, F!At
  <2>5. Seen(q) = "fresh" /\ Seen(q)' = "fresh"
    BY <1>1, <2>2, <2>3, <2>4 DEF Seen
  <2>6. ASSUME NEW r \in Requests \ {q} PROVE Seen(r)' = Seen(r)
    <3>1. overlapped'[r] = overlapped[r] /\ calls'[r] = calls[r]
      BY <1>1, <2>4
    <3>2. \A b \in Threads : pc'[b] = "post" /\ arg'[b] = r <=> pc[b] = "post" /\ arg[b] = r
      BY <1>1, <2>1, <2>2, <2>4
    <3> QED BY <3>1, <3>2, Unseen
  <2>7. F!Status' = F!Status
    BY <2>5, <2>6, StatusKept
  <2> QED BY <2>4, <2>7
<1>4. CASE Post(a)
  <2>1. pc[a] = "post" /\ pc[a] \in Making
    BY <1>4 DEF Post, F!Post, Making, Preparation
  <2>2. PICK q \in Requests : arg[a] = q
    BY <2>1, InHands
  <2>3. Waits(q) /\ (\A b \in Threads : arg[b] = q => b = a) /\ None \notin Requests
    <3>1. RequestInv(q)
      BY Known
    <3> QED BY <2>1, <2>2, <3>1, InHands, Known DEF RequestInv, Sent
  <2>4. /\ pc' = [pc EXCEPT ![a] = "out"] /\ arg' = [arg EXCEPT ![a] = None]
        /\ UNCHANGED <<port, calls>>
        /\ \/ port = "open" /\ overlapped' = overlapped
           \/ port # "open" /\ overlapped' = [overlapped EXCEPT ![q] = "refused"]
    BY <1>4, <2>2 DEF Post, F!Post, F!Throw, F!At, CarefulProgram
  <2>5. Seen(q) = "fresh"
    BY <2>1, <2>2, <2>3 DEF Seen, Waits
  <2>6. \A b \in Threads : ~(pc'[b] = "post" /\ arg'[b] = q)
    BY <1>1, <2>1, <2>3, <2>4
  <2>7. ASSUME NEW r \in Requests \ {q} PROVE Seen(r)' = Seen(r)
    <3>1. overlapped'[r] = overlapped[r] /\ calls'[r] = calls[r]
      BY <1>1, <2>4
    <3>2. \A b \in Threads : pc'[b] = "post" /\ arg'[b] = r <=> pc[b] = "post" /\ arg[b] = r
      BY <1>1, <2>1, <2>2, <2>4
    <3> QED BY <3>1, <3>2, Unseen
  <2>8. CASE port = "open"
    <3>1. overlapped' = overlapped
      BY <2>4, <2>8
    <3>2. Seen(q)' = "accepted"
      BY <2>3, <2>4, <2>6, <3>1 DEF Seen, Waits
    <3>3. F!Status[q] = "fresh" /\ F!Status' = [F!Status EXCEPT ![q] = "accepted"]
      BY <2>5, <2>7, <3>2, StatusMoves
    <3> QED BY <2>4, <2>8, <3>3 DEF F!Abstract!IONext, F!Abstract!Accept
  <2>9. CASE port # "open"
    <3>1. overlapped'[q] = "refused"
      BY <1>1, <2>4, <2>9
    <3>2. Seen(q)' = "refused"
      BY <2>3, <2>4, <3>1 DEF Seen, Waits
    <3>3. F!Status[q] = "fresh" /\ F!Status' = [F!Status EXCEPT ![q] = "refused"]
      BY <2>5, <2>7, <3>2, StatusMoves
    <3> QED BY <2>4, <2>9, <3>3 DEF F!Abstract!IONext, F!Abstract!Refuse
  <2> QED BY <2>8, <2>9
<1> QED BY <1>2, <1>3, <1>4

\* Close,
LEMMA ClosingSeen ==
  ASSUME IInv, CInv, CarefulProgram, NEW a \in Threads,
         Shutdown(a) \/ PostShutdown(a) \/ Join(a) \/ Drain(a) \/ StorePending(a) \/ ClosePort(a)
  PROVE  [F!Abstract!IONext]_<<F!Status, (port = "open")>>
<1>1. pc \in [Threads -> Making \union Resting] /\ calls \in [Requests -> 0..2]
  BY Known
<1> DEFINE place == pc'[a]
<1>2. /\ pc[a] # "post" /\ place # "post" /\ pc' = [pc EXCEPT ![a] = place]
      /\ UNCHANGED <<arg, calls>>
      /\ port' = port \/ port' # "open"
      /\ overlapped' = overlapped \/ Drain(a)
  <2>1. CASE Shutdown(a)
    BY <1>1, <2>1 DEF Shutdown, F!Shutdown, F!MayCall, F!At, F!requestVars
  <2>2. CASE PostShutdown(a)
    BY <1>1, <2>2 DEF PostShutdown, F!PostShutdown, F!At, F!requestVars
  <2>3. CASE Join(a)
    BY <1>1, <2>3 DEF Join, F!Join, F!At, F!serviceVars, F!requestVars
  <2>4. CASE Drain(a)
    <3>1. /\ pc[a] # "post" /\ place # "post" /\ pc' = [pc EXCEPT ![a] = place]
          /\ UNCHANGED <<arg, calls>>
          /\ port' = port \/ port' # "open"
      BY <1>1, <2>4 DEF Drain, F!Drain, F!At
    <3> QED BY <2>4, <3>1
  <2>5. CASE StorePending(a)
    BY <1>1, <2>5 DEF StorePending, F!StorePending, F!At, F!requestVars
  <2>6. CASE ClosePort(a)
    BY <1>1, <2>6 DEF ClosePort, F!ClosePort, F!At, F!requestVars
  <2> QED BY <2>1, <2>2, <2>3, <2>4, <2>5, <2>6
<1> HIDE DEF place
<1>3. \A b \in Threads : pc'[b] = "post" <=> pc[b] = "post"
  BY <1>1, <1>2
<1>4. ASSUME NEW r \in Requests, overlapped'[r] # overlapped[r]
      PROVE  overlapped[r] \notin {"none", "refused"} /\ overlapped'[r] = "drained"
  <2>1. Drain(a)
    BY <1>2, <1>4
  <2>2. port = "open" /\ packets # <<>> /\ packets' = Tail(packets)
        /\ Head(packets).req = r /\ overlapped'[r] = "drained"
    BY <1>4, <2>1 DEF Drain, F!Drain
  <2>3. Served(r) \/ Native(r)
    <3>1. /\ Head(packets) \in F!Packets
          /\ Head(packets).key = "server" => Served(r)
          /\ Head(packets).key = "native" => Native(r)
      BY <2>2, Known, PortTail
    <3>2. Head(packets).key \in {"server", "native"}
      BY <3>1 DEF F!Packets
    <3> QED BY <3>1, <3>2
  <2> QED BY <2>2, <2>3, OnItsWay DEF Comes
<1>5. ASSUME NEW r \in Requests PROVE Seen(r)' = Seen(r)
  <2>1. overlapped'[r] = overlapped[r] \/
        (overlapped[r] \notin {"none", "refused"} /\ overlapped'[r] \notin {"none", "refused"})
    BY <1>4
  <2> QED BY <1>2, <1>3, <2>1, Unseen
<1>6. F!Status' = F!Status
  BY <1>5, StatusKept
<1> QED BY <1>2, <1>6 DEF F!Abstract!IONext, F!Abstract!Close

\* and Answer.
LEMMA WorkerSeen ==
  ASSUME IInv, CInv, NEW w \in Workers, WorkerStep(w)
  PROVE  [F!Abstract!IONext]_<<F!Status, (port = "open")>>
<1>1. CASE TakeShutdown(w)
  <2>1. UNCHANGED <<port, pc, arg, calls, overlapped>>
    BY <1>1 DEF TakeShutdown, F!TakeShutdown, F!callerVars
  <2> QED BY <2>1, Stutters
<1>2. ASSUME NEW r \in Requests, TakeRequest(w, r)
      PROVE  [F!Abstract!IONext]_<<F!Status, (port = "open")>>
  <2>1. UNCHANGED <<port, pc, arg, calls, overlapped>>
    BY <1>2 DEF TakeRequest, F!TakeRequest, F!callerVars, F!requestVars
  <2> QED BY <2>1, Stutters
<1>3. ASSUME NEW q \in Requests, TakeCompletion(w, q)
      PROVE  [F!Abstract!IONext]_<<F!Status, (port = "open")>>
  <2>1. /\ packets # <<>> /\ packets' = Tail(packets) /\ port = "open"
        /\ Head(packets).req = q /\ Head(packets).key = "native"
        /\ calls' = [calls EXCEPT ![q] = @ + 1] /\ UNCHANGED <<port, pc, arg, overlapped>>
    BY <1>3 DEF TakeCompletion, F!TakeCompletion, F!Dequeues, F!Packet, F!Called, F!callerVars
  <2>2. Native(q)
    BY <2>1, Known, PortTail
  <2> QED BY <2>1, <2>2, OnItsWay, CallbackAnswers DEF Comes
<1>4. CASE Submit(w)
  <2>1. UNCHANGED <<port, pc, arg, calls, overlapped>>
    BY <1>4 DEF Submit
  <2> QED BY <2>1, Stutters
<1>5. CASE Decide(w)
  <2>1. doing[w] = "decide" /\ doing[w] \in Busy /\ UNCHANGED <<port, pc, arg, overlapped>>
    BY <1>5 DEF Decide, serviceVars, Busy, Sending
  <2>2. PICK q \in Requests : holds[w] = q
    BY <2>1, InWork
  <2>3. calls' = calls \/ calls' = [calls EXCEPT ![q] = @ + 1]
    BY <1>5, <2>2 DEF Decide, F!Called
  <2>4. Sends(w, q) /\ port = "open"
    BY <2>1, <2>2 DEF Sends, Sending, CInv, StopInv, F!Alive
  <2> QED BY <2>1, <2>3, <2>4, OnItsWay, CallbackAnswers, Stutters
<1>6. CASE EarlyReturns(w)
  <2>1. UNCHANGED <<port, pc, arg, calls, overlapped>>
    BY <1>6 DEF EarlyReturns, F!EarlyReturns, F!serviceVars, F!callerVars, F!requestVars
  <2> QED BY <2>1, Stutters
<1>7. CASE CompletionReturns(w)
  <2>1. doing[w] = "write" /\ doing[w] \in Busy /\ UNCHANGED <<port, pc, arg, calls>>
    BY <1>7 DEF CompletionReturns, F!WriteReturns, F!serviceVars, F!callerVars, Busy
  <2>2. PICK q \in Requests : holds[w] = q
    BY <2>1, InWork
  <2>3. overlapped' = [overlapped EXCEPT ![q] = "freed"]
    BY <1>7, <2>2 DEF CompletionReturns, F!WriteReturns
  <2>4. Ends(w, q)
    BY <2>1, <2>2 DEF Ends
  <2>5. overlapped[q] \notin {"none", "refused"}
    BY <2>4, OnItsWay
  <2>6. \A r \in Requests : overlapped'[r] = IF r = q THEN "freed" ELSE overlapped[r]
    BY <2>3, Known
  <2>7. ASSUME NEW r \in Requests PROVE Seen(r)' = Seen(r)
    BY <2>1, <2>5, <2>6, Unseen
  <2>8. F!Status' = F!Status
    BY <2>7, StatusKept
  <2> QED BY <2>1, <2>8
<1>8. CASE CallbackThrows(w)
  <2>1. UNCHANGED <<port, pc, arg, calls, overlapped>>
    BY <1>8 DEF CallbackThrows, F!CallbackThrows, F!serviceVars, F!callerVars
  <2> QED BY <2>1, Stutters
<1> QED BY <1>1, <1>2, <1>3, <1>4, <1>5, <1>6, <1>7, <1>8 DEF WorkerStep

\* ImplementsAsyncIO, for any number of clients, workers, sockets and requests,
\* any careful program and both versions of Windows: requests are accepted and
\* answered while the port is open, and none is answered afterwards.
THEOREM SocketServiceImplementsAsyncIO ==
  ASSUME CarefulProgram  PROVE Spec => ImplementsAsyncIO
<1>1. Init => F!Abstract!IOInit
  <2> SUFFICES ASSUME Init PROVE F!Abstract!IOInit
    OBVIOUS
  <2>1. F!Status = [r \in Requests |-> "fresh"] /\ port # "open"
    BY StatusSeen DEF Init, Seen
  <2> QED BY <2>1 DEF F!Abstract!IOInit
<1>2. IInv /\ CInv /\ [Next]_vars => [F!Abstract!IONext]_<<F!Status, (port = "open")>>
  <2> SUFFICES ASSUME IInv, CInv, [Next]_vars
               PROVE  [F!Abstract!IONext]_<<F!Status, (port = "open")>>
    OBVIOUS
  <2>1. CASE UNCHANGED vars
    <3>1. UNCHANGED <<port, calls, overlapped, pc, arg>>
      BY <2>1 DEF vars, serviceVars, requestVars
    <3> QED BY <3>1, Stutters
  <2>2. CASE Next
    <3>1. ASSUME NEW c \in Clients,
                 StartServing(c) \/ CreatePort(c) \/ \E w \in Workers : SpawnWorker(c, w)
          PROVE  [F!Abstract!IONext]_<<F!Status, (port = "open")>>
      BY <3>1, OpeningSeen
    <3>2. ASSUME NEW a \in Threads, NEW r \in Requests,
                 \/ socketAccept(a, r) \/ socketConnect(a, r) \/ socketRead(a, r)
                 \/ socketWrite(a, r) \/ socketSendFile(a, r)
          PROVE  [F!Abstract!IONext]_<<F!Status, (port = "open")>>
      <4>1. \E place \in Preparation : Enter(a, r, place)
        BY <3>2, Entering
      <4> QED BY <4>1, RequestSeen
    <3>3. ASSUME NEW a \in Threads, Shutdown(a) \/ InService(a)
          PROVE  [F!Abstract!IONext]_<<F!Status, (port = "open")>>
      BY <3>3, RequestSeen, ClosingSeen DEF InService, Prepares
    <3>4. ASSUME NEW w \in Workers, WorkerStep(w)
          PROVE  [F!Abstract!IONext]_<<F!Status, (port = "open")>>
      BY <3>4, WorkerSeen
    <3>5. ASSUME NEW r \in Requests, Complete(r)
          PROVE  [F!Abstract!IONext]_<<F!Status, (port = "open")>>
      <4>1. UNCHANGED <<port, calls, overlapped, pc, arg>>
        BY <3>5 DEF Complete, F!Complete, F!callerVars
      <4> QED BY <4>1, Stutters
    <3>6. ASSUME NEW s \in Sockets, InitSocket(s) \/ InitStores(s) \/ CloseSocket(s) \/ BindSocket(s)
          PROVE  [F!Abstract!IONext]_<<F!Status, (port = "open")>>
      <4>1. UNCHANGED <<port, calls, overlapped, pc, arg>>
        BY <3>6 DEF InitSocket, InitStores, CloseSocket, BindSocket, Touched, serviceVars, requestVars
      <4> QED BY <4>1, Stutters
    <3> QED BY <2>2, <3>1, <3>2, <3>3, <3>4, <3>5, <3>6 DEF Next
  <2> QED BY <2>1, <2>2
<1> QED BY <1>1, <1>2, CarefulInvariance, PTL
        DEF Spec, ImplementsAsyncIO, F!Abstract!IOSpec, F!Abstract!ioVars
=============================================================================
