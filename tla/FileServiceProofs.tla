--------------------------- MODULE FileServiceProofs ---------------------------
(***************************************************************************)
(* Proofs about FileService, for any number of clients, workers, files and *)
(* requests.  Whatever the program and the system do, an OVERLAPPED_EX has *)
(* one owner at a time and none is forgotten; in a program that shuts the  *)
(* service down from outside, and when the system has the memory it needs, *)
(* shutdown() never waits for what cannot come and the service does what   *)
(* AsyncIO promises.                                                       *)
(***************************************************************************)
EXTENDS FileService, FiniteSetTheorems, SequenceTheorems, TLAPS

Making == {"add", "count", "post"}
Busy == {"submit", "decide"} \union InCallback

\* A worker that has nothing to do with its request any more, although it has
\* still to find that out.
Released(w) == doing[w] = "decide" /\ completionQueued(result[w])

Touches(w, r) == holds[w] = r /\ ~Released(w)

\* A request is made by one thread, and none of it is seen before it is posted.
CallersInv ==
  /\ \A a \in Threads : arg[a] \in Requests <=> pc[a] \in Making
  /\ \A a, b \in Threads : arg[a] = arg[b] /\ arg[a] \in Requests => a = b
  /\ \A a \in Threads : pc[a] \in {"add", "count"} => overlapped[arg[a]] = "none"
  /\ \A r \in Requests : overlapped[r] = "none" => io[r] = "none" /\ calls[r] = 0

\* What is posted next is in no other hands.
PostingInv ==
  \A a \in Threads : pc[a] = "post" =>
    /\ overlapped[arg[a]] = "live" /\ io[arg[a]] = "none" /\ calls[arg[a]] = 0
    /\ \A i \in DOMAIN packets : packets[i].req # arg[a]
    /\ \A w \in Workers : ~Touches(w, arg[a])

\* What is in the port is there once and in no other hands.
PortInv ==
  /\ \A i \in DOMAIN packets : packets[i].req \in Requests =>
       LET r == packets[i].req IN
       /\ overlapped[r] = "live" /\ calls[r] = 0
       /\ io[r] = IF packets[i].key = "server" THEN "none" ELSE "over"
       /\ \A w \in Workers : ~Touches(w, r)
  /\ \A i, j \in DOMAIN packets :
       packets[i].req \in Requests /\ packets[i].req = packets[j].req => i = j

\* How often the callback was called by a worker that has come this far.
CallsBy(place, r) ==
  CASE place \in {"submit", "decide"} -> 0
    [] place \in {"early", "read"} -> 1
    [] place = "write" -> IF r \in Reads THEN 2 ELSE 1

\* A worker that touches a request is the only one, and knows how far it came.
WorkerInv ==
  /\ \A w \in Workers : holds[w] \in Requests <=> doing[w] \in Busy
  /\ \A v, w \in Workers :
       holds[v] \in Requests /\ Touches(v, holds[v]) /\ Touches(w, holds[v]) => v = w
  /\ \A w \in Workers : doing[w] \in Busy =>
       IF Released(w) THEN io[holds[w]] # "none"
       ELSE /\ overlapped[holds[w]] = "live"
            /\ io[holds[w]] = IF doing[w] = "submit" THEN "none" ELSE "over"
            /\ calls[holds[w]] = CallsBy(doing[w], holds[w])
            /\ doing[w] = "read" => holds[w] \in Reads

\* The kernel works on nothing that was answered or freed.
KernelInv ==
  /\ \A r \in Requests : InFlight(r) => overlapped[r] = "live" /\ calls[r] = 0
  /\ \A r \in Requests : calls[r] > 1 => r \in Reads

\* A file is associated with the port once in its life, by the first request
\* that finds it without an owner.
FilesInv ==
  /\ \A f \in Files : handle[f] = "linked" => port # "null"
  /\ \A a \in Threads : pc[a] \in Making => target[arg[a]] \in Files
  /\ \A a \in Threads : pc[a] = "add" /\ owned[target[arg[a]]]
       => handle[target[arg[a]]] \in {"linked", "astray"}
  /\ \A a \in Threads : pc[a] \in {"count", "post"} => owned[target[arg[a]]]
  /\ \A r \in Requests : overlapped[r] # "none"
       => target[r] \in Files /\ owned[target[r]]

\* The port is closed, and a packet thrown away, after the shutdown only.
StateInv ==
  /\ port = "closed" => state = "shutdown"
  /\ \A a \in Threads : pc[a] \in {"wake", "join", "drain", "store", "abort"}
       => state = "shutdown"
  /\ \A r \in Requests : InFlight(r) => port # "null"
  /\ state = "none" => \A r \in Requests : overlapped[r] = "none"
  /\ state = "none" => \A a \in Threads : pc[a] \notin Making
  /\ \A w \in Workers : doing[w] = "none" <=> w \notin threads

\* Who has the request, or why it is lost: the port does not know its file.
InHands(r) ==
  \/ \E a \in Threads : pc[a] = "post" /\ arg[a] = r
  \/ \E i \in DOMAIN packets : packets[i].req = r
  \/ \E w \in Workers : Touches(w, r)
  \/ InFlight(r)
  \/ handle[target[r]] # "linked"

HeldInv ==
  \A r \in Requests :
    state = "started" /\ overlapped[r] = "live" /\ calls[r] = 0 => InHands(r)

OwnerInv == CallersInv /\ PostingInv /\ PortInv /\ WorkerInv /\ KernelInv

IInv == TypeOK /\ OwnerInv /\ FilesInv /\ StateInv /\ HeldInv

-----------------------------------------------------------------------------
(* Sequences: what a packet taken or posted leaves where it was.            *)

\* Taking the oldest packet moves the others one place forward.
LEMMA Taken ==
  ASSUME NEW S, NEW s \in Seq(S), s # <<>>
  PROVE  /\ Head(s) \in S /\ Tail(s) \in Seq(S)
         /\ 1 \in DOMAIN s /\ Head(s) = s[1]
         /\ \A i \in DOMAIN Tail(s) : i + 1 \in DOMAIN s /\ Tail(s)[i] = s[i + 1]
         /\ \A i \in DOMAIN s : i = 1 \/ (i - 1 \in DOMAIN Tail(s) /\ s[i] = Tail(s)[i - 1])
         /\ \A i \in DOMAIN Tail(s) : i \in Nat
<1>1. Len(s) \in Nat /\ Len(s) > 0 /\ DOMAIN s = 1 .. Len(s)
  BY EmptySeq, LenProperties
<1>2. Len(Tail(s)) = Len(s) - 1 /\ Tail(s) \in Seq(S) /\ Head(s) \in S
  BY HeadTailProperties
<1>3. DOMAIN Tail(s) = 1 .. Len(s) - 1
  BY <1>2, LenProperties
<1>4. \A i \in 1 .. Len(s) - 1 : Tail(s)[i] = s[i + 1]
  BY <1>1
<1> QED BY <1>1, <1>2, <1>3, <1>4

\* A packet that is posted comes last.
LEMMA Posted ==
  ASSUME NEW S, NEW s \in Seq(S), NEW e \in S
  PROVE  /\ Append(s, e) \in Seq(S)
         /\ Append(s, e)[Len(s) + 1] = e /\ Len(s) + 1 \in DOMAIN Append(s, e)
         /\ \A i \in DOMAIN Append(s, e) :
              (i \in DOMAIN s /\ Append(s, e)[i] = s[i]) \/ i = Len(s) + 1
         /\ \A i \in DOMAIN s : i \in DOMAIN Append(s, e) /\ Append(s, e)[i] = s[i]
         /\ Len(s) + 1 \notin DOMAIN s
<1>1. Len(s) \in Nat /\ DOMAIN s = 1 .. Len(s)
  BY LenProperties
<1>2. Append(s, e) \in Seq(S) /\ DOMAIN Append(s, e) = 1 .. Len(s) + 1
  BY AppendProperties, LenProperties
<1> QED BY <1>1, <1>2, AppendProperties

-----------------------------------------------------------------------------
(* The initial state, and one lemma for each part of IInv.                  *)

\* The invariant holds when the service has been constructed.
LEMMA InitIInv == Init => IInv
<1> SUFFICES ASSUME Init  PROVE IInv
  OBVIOUS
<1> USE ServiceAssumption
<1>1. TypeOK
  BY DEF Init, TypeOK, States, WorkerStates, Results, Packets
<1>2. OwnerInv
  BY DEF Init, OwnerInv, CallersInv, PostingInv, PortInv, WorkerInv, KernelInv,
         Making, Busy, InCallback, Touches, Released, InFlight
<1>3. FilesInv
  BY DEF Init, FilesInv, Making
<1>4. StateInv /\ HeldInv
  BY DEF Init, StateInv, HeldInv, InFlight, Making
<1> QED BY <1>1, <1>2, <1>3, <1>4 DEF IInv

\* What a step does to the port.
LEMMA PacketsStep ==
  ASSUME IInv, Next
  PROVE  \/ packets' = packets
         \/ packets' = <<>>
         \/ packets # <<>> /\ packets' = Tail(packets)
         \/ \E p \in Packets : packets' = Append(packets, p)
<1>1. \A a \in Threads : pc[a] = "post" => Packet("server", arg[a], "ok") \in Packets
  BY DEF IInv, OwnerInv, CallersInv, Making, Packet, Packets, Results
<1>2. \A w \in Workers : doing[w] = "submit" => Packet("native", holds[w], "ok") \in Packets
  BY DEF IInv, OwnerInv, WorkerInv, Busy, Packet, Packets, Results
<1>3. \A r \in Requests : \A res \in ResultsOf(r) \union {"ok", "aborted"} :
         Packet("native", r, res) \in Packets
  BY DEF ResultsOf, Packet, Packets, Results
<1>4. ShutdownPacket \in Packets
  BY DEF ShutdownPacket, Packet, Packets, Results
<1>5. ASSUME NEW a \in Threads, RequestStep(a)
      PROVE  packets' = packets \/ \E p \in Packets : packets' = Append(packets, p)
  BY <1>1, <1>5 DEF RequestStep, Request, AddFile, CountUp, Post, serviceVars
<1>6. ASSUME NEW a \in Threads, StopStep(a)
      PROVE  \/ packets' = packets
             \/ packets' = <<>>
             \/ packets # <<>> /\ packets' = Tail(packets)
             \/ \E p \in Packets : packets' = Append(packets, p)
  BY <1>4, <1>6 DEF StopStep, Shutdown, PostShutdown, Join, Drain, StorePending,
         ClosePort, serviceVars
<1>7. ASSUME NEW w \in Workers, WorkerStep(w)
      PROVE  \/ packets' = packets
             \/ packets # <<>> /\ packets' = Tail(packets)
             \/ \E p \in Packets : packets' = Append(packets, p)
  <2>1. CASE Submit(w)
    BY <1>2, <2>1 DEF Submit
  <2>2. CASE ~Submit(w)
    BY <1>7, <2>2 DEF WorkerStep, TakeShutdown, Abandoned, TakeRequest, TakeCompletion,
           Dequeues, Decide, EarlyReturns, ReadReturns, WriteReturns, CallbackThrows,
           serviceVars
  <2> QED BY <2>1, <2>2
<1>8. ASSUME NEW r \in Requests, Complete(r)
      PROVE  packets' = packets \/ \E p \in Packets : packets' = Append(packets, p)
  BY <1>3, <1>8 DEF Complete
<1> QED
  BY <1>5, <1>6, <1>7, <1>8 DEF Next, StartServing, CreatePort, SpawnWorker, CloseFile,
     OpenFile, serviceVars

\* A step keeps every field of its type.
LEMMA TypeStep ==
  ASSUME IInv, Next  PROVE TypeOK'
<1>0. packets' \in Seq(Packets)
  <2>1. packets \in Seq(Packets)
    BY DEF IInv, TypeOK
  <2>2. <<>> \in Seq(Packets)
    OBVIOUS
  <2>3. ASSUME packets # <<>>  PROVE Tail(packets) \in Seq(Packets)
    BY <2>1, <2>3, Taken
  <2>4. ASSUME NEW p \in Packets  PROVE Append(packets, p) \in Seq(Packets)
    BY <2>1, Posted
  <2> QED BY <2>1, <2>2, <2>3, <2>4, PacketsStep
<1> USE ServiceAssumption DEF IInv, TypeOK, States, WorkerStates, Threads,
        serviceVars, fileVars, requestVars, workerVars, callerVars, stopVars
<1>1. ASSUME NEW c \in Clients, StartServing(c)
      PROVE  TypeOK'
  BY <1>1, <1>0 DEF StartServing, At
<1>2. ASSUME NEW c \in Clients, CreatePort(c)
      PROVE  TypeOK'
  BY <1>2, <1>0 DEF CreatePort, At
<1>3. ASSUME NEW c \in Clients, NEW w \in Workers, SpawnWorker(c, w)
      PROVE  TypeOK'
  BY <1>3, <1>0, SMTT(20) DEF SpawnWorker, At
<1>4. ASSUME NEW a \in Threads, NEW r \in Requests, NEW f \in Files, Request(a, r, f)
      PROVE  TypeOK'
  BY <1>4, <1>0 DEF Request, MayCall, At
<1>5. ASSUME NEW a \in Threads, AddFile(a)
      PROVE  TypeOK'
  <2>1. arg[a] \in Requests /\ target[arg[a]] \in Files
    BY <1>5 DEF AddFile, OwnerInv, CallersInv, FilesInv, Making
  <2>2. CASE handle[target[arg[a]]] = "open"
    <3>1. handle' = [handle EXCEPT ![target[arg[a]]] = IF port = "open" THEN "linked"
                                                                        ELSE "astray"]
      BY <1>5, <2>2 DEF AddFile
    <3>2. handle' \in [Files -> {"open", "linked", "astray", "closed"}]
      BY <3>1
    <3>3. owned' = [owned EXCEPT ![target[arg[a]]] = TRUE] /\ UNCHANGED <<arg, target>>
      BY <1>5, <2>2 DEF AddFile
    <3>4. owned' \in [Files -> BOOLEAN]
      BY <3>3
    <3>5. pc' = [pc EXCEPT ![a] = "count"]
      BY <1>5, <2>2 DEF AddFile, At
    <3> QED BY <1>0, <1>5, <3>2, <3>3, <3>4, <3>5 DEF AddFile
  <2>3. CASE handle[target[arg[a]]] # "open"
    BY <1>0, <1>5, <2>1, <2>3 DEF AddFile, Throw, At
  <2> QED BY <2>2, <2>3
<1>6. ASSUME NEW a \in Threads, CountUp(a)
      PROVE  TypeOK'
  <2>1. arg[a] \in Requests
    BY <1>6 DEF CountUp, OwnerInv, CallersInv, Making
  <2> QED BY <1>0, <1>6, <2>1 DEF CountUp, At
<1>7. ASSUME NEW a \in Threads, Post(a)
      PROVE  TypeOK'
  BY <1>7, <1>0 DEF Post, Throw, At, Packet
<1>8. ASSUME NEW a \in Threads, Shutdown(a)
      PROVE  TypeOK'
  <2>1. Cardinality(threads) \in Int
    BY FS_CardinalityType, FS_Subset
  <2> QED BY <1>0, <1>8, <2>1 DEF Shutdown, MayCall, At, Counted
<1>9. ASSUME NEW a \in Threads, PostShutdown(a)
      PROVE  TypeOK'
  BY <1>9, <1>0 DEF PostShutdown, At, ShutdownPacket, Packet
<1>10. ASSUME NEW a \in Threads, Join(a)
      PROVE  TypeOK'
  BY <1>10, <1>0 DEF Join, At
<1>11. ASSUME NEW a \in Threads, Drain(a)
      PROVE  TypeOK'
  <2>1. overlapped' \in [Requests -> {"none", "live", "refused", "freed", "drained"}]
    BY <1>11 DEF Drain
  <2>2. \E place \in {"store", "abort"} : pc' = [pc EXCEPT ![a] = place]
    BY <1>11 DEF Drain, At
  <2> QED BY <1>0, <1>11, <2>1, <2>2 DEF Drain
<1>12. ASSUME NEW a \in Threads, StorePending(a)
      PROVE  TypeOK'
  BY <1>12, <1>0 DEF StorePending, At
<1>13. ASSUME NEW a \in Threads, ClosePort(a)
      PROVE  TypeOK'
  BY <1>13, <1>0 DEF ClosePort, At
<1>14. ASSUME NEW w \in Workers, TakeShutdown(w)
      PROVE  TypeOK'
  BY <1>14, <1>0 DEF TakeShutdown, Dequeues, Goes, Cancel
<1>15. ASSUME NEW w \in Workers, Abandoned(w)
      PROVE  TypeOK'
  BY <1>15, <1>0 DEF Abandoned, Goes, Cancel
<1>16. ASSUME NEW w \in Workers, NEW r \in Requests, TakeRequest(w, r)
      PROVE  TypeOK'
  BY <1>16, <1>0 DEF TakeRequest, Dequeues, Goes, CountDown, Packet
<1>17. ASSUME NEW w \in Workers, NEW r \in Requests, TakeCompletion(w, r)
      PROVE  TypeOK'
  <2>1. calls[r] = 0
    BY <1>17, Taken DEF TakeCompletion, Dequeues, Packet, OwnerInv, PortInv
  <2> QED BY <1>0, <1>17, <2>1 DEF TakeCompletion, Dequeues, Goes, CountDown, Called, CaseOf
<1>18. ASSUME NEW w \in Workers, Submit(w)
      PROVE  TypeOK'
  <2>1. holds[w] \in Requests
    BY <1>18 DEF Submit, OwnerInv, WorkerInv, Busy
  <2> QED BY <1>0, <1>18, <2>1 DEF Submit, Goes, ResultsOf, Results
<1>19. ASSUME NEW w \in Workers, Decide(w)
      PROVE  TypeOK'
  <2>1. holds[w] \in Requests
    BY <1>19 DEF Decide, OwnerInv, WorkerInv, Busy
  <2>2. ~completionQueued(result[w]) => calls[holds[w]] = 0
    BY <1>19, <2>1 DEF Decide, OwnerInv, WorkerInv, Busy, Released, CallsBy
  <2> QED BY <1>0, <1>19, <2>1, <2>2, SMTT(20) DEF Decide, Goes, Called, Results
<1>20. ASSUME NEW w \in Workers, EarlyReturns(w)
      PROVE  TypeOK'
  BY <1>20, <1>0 DEF EarlyReturns, Goes
<1>21. ASSUME NEW w \in Workers, ReadReturns(w)
      PROVE  TypeOK'
  <2>1. holds[w] \in Requests
    BY <1>21 DEF ReadReturns, OwnerInv, WorkerInv, Busy, InCallback
  <2>2. calls[holds[w]] = 1
    BY <1>21, <2>1 DEF ReadReturns, OwnerInv, WorkerInv, Busy, InCallback, Released, CallsBy
  <2> QED BY <1>0, <1>21, <2>1, <2>2 DEF ReadReturns, Goes, Called
<1>22. ASSUME NEW w \in Workers, WriteReturns(w)
      PROVE  TypeOK'
  BY <1>22, <1>0 DEF WriteReturns, Goes
<1>23. ASSUME NEW w \in Workers, CallbackThrows(w)
      PROVE  TypeOK'
  BY <1>23, <1>0 DEF CallbackThrows, Goes, Cancel, InCallback
<1>24. ASSUME NEW r \in Requests, Complete(r)
      PROVE  TypeOK'
  BY <1>24, <1>0 DEF Complete, Packet, ResultsOf
<1>25. ASSUME NEW f \in Files, CloseFile(f)
      PROVE  TypeOK'
  BY <1>25, <1>0 DEF CloseFile, Answered
<1>26. ASSUME NEW f \in Files, OpenFile(f)
      PROVE  TypeOK'
  BY <1>26, <1>0 DEF OpenFile
<1> QED
  BY <1>1, <1>2, <1>3, <1>4, <1>5, <1>6, <1>7, <1>8, <1>9, <1>10,
     <1>11, <1>12, <1>13, <1>14, <1>15, <1>16, <1>17, <1>18, <1>19,
     <1>20, <1>21, <1>22, <1>23, <1>24, <1>25, <1>26
     DEF Next, RequestStep, StopStep, WorkerStep

\* Drain frees the OVERLAPPED_EX of the oldest packet and no other.
LEMMA DrainTakes ==
  ASSUME IInv, NEW a \in Threads, Drain(a)
  PROVE  /\ \E place \in {"store", "abort"} : pc' = [pc EXCEPT ![a] = place]
         /\ packets' = packets \/ (packets # <<>> /\ packets' = Tail(packets))
         /\ \A r \in Requests :
              \/ overlapped'[r] = overlapped[r]
              \/ /\ overlapped'[r] = "drained" /\ packets[1].req = r
                 /\ packets # <<>> /\ packets' = Tail(packets)
<1>1. packets \in Seq(Packets) /\ DOMAIN overlapped = Requests
  BY DEF IInv, TypeOK
<1>2. packets # <<>> => Head(packets) = packets[1]
  BY <1>1, Taken
<1>3. \E place \in {"store", "abort"} : pc' = [pc EXCEPT ![a] = place]
  BY DEF Drain, At
<1>4. CASE port # "open"
  BY <1>3, <1>4 DEF Drain
<1>5. CASE port = "open"
  BY <1>1, <1>2, <1>3, <1>5, ZenonT(30) DEF Drain
<1> QED BY <1>4, <1>5

\* What a worker in the middle of process() knows of its request.
LEMMA WorkerKnows ==
  ASSUME IInv, NEW w \in Workers, doing[w] \in Busy
  PROVE  /\ holds[w] \in Requests
         /\ doing[w] # "decide" => ~Released(w)
         /\ ~Released(w) => Touches(w, holds[w])
         /\ Released(w) => io[holds[w]] # "none"
         /\ ~Released(w) =>
              /\ overlapped[holds[w]] = "live"
              /\ io[holds[w]] = IF doing[w] = "submit" THEN "none" ELSE "over"
              /\ calls[holds[w]] = CallsBy(doing[w], holds[w])
              /\ doing[w] = "read" => holds[w] \in Reads
BY DEF IInv, OwnerInv, WorkerInv, Released, Touches

\* These steps give no worker a request it had nothing to do with.
LEMMA TouchesLess ==
  ASSUME IInv, NEW w \in Workers,
         \/ TakeShutdown(w) \/ Abandoned(w) \/ Decide(w) \/ EarlyReturns(w)
         \/ ReadReturns(w) \/ WriteReturns(w) \/ CallbackThrows(w)
  PROVE  /\ \A v \in Workers, r \in Requests : Touches(v, r)' => Touches(v, r)
         /\ UNCHANGED callerVars
         /\ packets' = packets \/ (packets # <<>> /\ packets' = Tail(packets))
<1> USE ServiceAssumption DEF Touches, Released, Goes
<1>1. /\ None \notin Requests
      /\ doing \in [Workers -> WorkerStates]
      /\ holds \in [Workers -> Requests \union {None}]
      /\ result \in [Workers -> Results]
  BY DEF IInv, TypeOK
<1>2. CASE Decide(w)
  BY <1>1, <1>2 DEF Decide, serviceVars
<1>3. CASE ReadReturns(w)
  BY <1>1, <1>3 DEF ReadReturns, workerVars, serviceVars
<1>4. CASE TakeShutdown(w) \/ Abandoned(w)
  BY <1>1, <1>4 DEF TakeShutdown, Abandoned, Dequeues, serviceVars
<1>5. CASE EarlyReturns(w) \/ WriteReturns(w) \/ CallbackThrows(w)
  BY <1>1, <1>5 DEF EarlyReturns, WriteReturns, CallbackThrows, serviceVars
<1> QED BY <1>2, <1>3, <1>4, <1>5

\* A step keeps a request that is being made in one thread's hands, and unseen.
LEMMA CallersStep ==
  ASSUME IInv, Next  PROVE CallersInv'
<1> USE ServiceAssumption DEF IInv, TypeOK, OwnerInv, CallersInv, Making, Threads,
        serviceVars, fileVars, requestVars, workerVars, callerVars, stopVars
<1>1. ASSUME NEW c \in Clients, StartServing(c)
      PROVE  CallersInv'
  BY <1>1 DEF StartServing, At
<1>2. ASSUME NEW c \in Clients, CreatePort(c)
      PROVE  CallersInv'
  BY <1>2 DEF CreatePort, At
<1>3. ASSUME NEW c \in Clients, NEW w \in Workers, SpawnWorker(c, w)
      PROVE  CallersInv'
  BY <1>3 DEF SpawnWorker, At
<1>4. ASSUME NEW a \in Threads, NEW r \in Requests, NEW f \in Files, Request(a, r, f)
      PROVE  CallersInv'
  BY <1>4 DEF Request, MayCall, At
<1>5. ASSUME NEW a \in Threads, AddFile(a)
      PROVE  CallersInv'
  BY <1>5 DEF AddFile, Throw, At
<1>6. ASSUME NEW a \in Threads, CountUp(a)
      PROVE  CallersInv'
  BY <1>6 DEF CountUp, At
<1>7. ASSUME NEW a \in Threads, Post(a)
      PROVE  CallersInv'
  BY <1>7 DEF Post, Throw, At, Packet
<1>8. ASSUME NEW a \in Threads, Shutdown(a)
      PROVE  CallersInv'
  BY <1>8 DEF Shutdown, MayCall, At, Counted
<1>9. ASSUME NEW a \in Threads, PostShutdown(a)
      PROVE  CallersInv'
  BY <1>9 DEF PostShutdown, At, ShutdownPacket, Packet
<1>10. ASSUME NEW a \in Threads, Join(a)
      PROVE  CallersInv'
  <2>1. \E place \in {"drain", "out"} : pc' = [pc EXCEPT ![a] = place]
    BY <1>10 DEF Join, At
  <2> QED BY <1>10, <2>1 DEF Join
<1>11. ASSUME NEW a \in Threads, Drain(a)
      PROVE  CallersInv'
  BY <1>11, DrainTakes, Taken DEF Drain, PortInv
<1>12. ASSUME NEW a \in Threads, StorePending(a)
      PROVE  CallersInv'
  BY <1>12 DEF StorePending, At
<1>13. ASSUME NEW a \in Threads, ClosePort(a)
      PROVE  CallersInv'
  BY <1>13 DEF ClosePort, At
<1>14. ASSUME NEW w \in Workers, TakeShutdown(w)
      PROVE  CallersInv'
  BY <1>14 DEF TakeShutdown, Dequeues, Goes, Cancel
<1>15. ASSUME NEW w \in Workers, Abandoned(w)
      PROVE  CallersInv'
  BY <1>15 DEF Abandoned, Goes, Cancel
<1>16. ASSUME NEW w \in Workers, NEW r \in Requests, TakeRequest(w, r)
      PROVE  CallersInv'
  BY <1>16 DEF TakeRequest, Dequeues, Goes, CountDown, Packet
<1>17. ASSUME NEW w \in Workers, NEW r \in Requests, TakeCompletion(w, r)
      PROVE  CallersInv'
  BY <1>17, Taken DEF TakeCompletion, Dequeues, Goes, CountDown, Called, CaseOf, Packet, PortInv
<1>18. ASSUME NEW w \in Workers, Submit(w)
      PROVE  CallersInv'
  BY <1>18 DEF Submit, Goes, Packet, ResultsOf, WorkerInv, Busy
<1>19. ASSUME NEW w \in Workers, Decide(w)
      PROVE  CallersInv'
  BY <1>19 DEF Decide, Goes, Called, WorkerInv, Busy, Released
<1>20. ASSUME NEW w \in Workers, EarlyReturns(w)
      PROVE  CallersInv'
  BY <1>20 DEF EarlyReturns, Goes
<1>21. ASSUME NEW w \in Workers, ReadReturns(w)
      PROVE  CallersInv'
  BY <1>21 DEF ReadReturns, Goes, Called, WorkerInv, Busy, InCallback, Released
<1>22. ASSUME NEW w \in Workers, WriteReturns(w)
      PROVE  CallersInv'
  BY <1>22 DEF WriteReturns, Goes, WorkerInv, Busy, InCallback, Released
<1>23. ASSUME NEW w \in Workers, CallbackThrows(w)
      PROVE  CallersInv'
  BY <1>23 DEF CallbackThrows, Goes, Cancel, InCallback
<1>24. ASSUME NEW r \in Requests, Complete(r)
      PROVE  CallersInv'
  BY <1>24 DEF Complete, Packet, ResultsOf
<1>25. ASSUME NEW f \in Files, CloseFile(f)
      PROVE  CallersInv'
  BY <1>25 DEF CloseFile, Answered
<1>26. ASSUME NEW f \in Files, OpenFile(f)
      PROVE  CallersInv'
  BY <1>26 DEF OpenFile
<1> QED
  BY <1>1, <1>2, <1>3, <1>4, <1>5, <1>6, <1>7, <1>8, <1>9, <1>10,
     <1>11, <1>12, <1>13, <1>14, <1>15, <1>16, <1>17, <1>18, <1>19,
     <1>20, <1>21, <1>22, <1>23, <1>24, <1>25, <1>26
     DEF Next, RequestStep, StopStep, WorkerStep

\* A step gives the kernel nothing that was answered or freed.
LEMMA KernelStep ==
  ASSUME IInv, Next  PROVE KernelInv'
<1> USE ServiceAssumption DEF IInv, TypeOK, OwnerInv, KernelInv, InFlight, Threads,
        serviceVars, fileVars, requestVars, workerVars, callerVars, stopVars
<1>1. ASSUME NEW c \in Clients, StartServing(c)
      PROVE  KernelInv'
  BY <1>1 DEF StartServing, At
<1>2. ASSUME NEW c \in Clients, CreatePort(c)
      PROVE  KernelInv'
  BY <1>2 DEF CreatePort, At
<1>3. ASSUME NEW c \in Clients, NEW w \in Workers, SpawnWorker(c, w)
      PROVE  KernelInv'
  BY <1>3 DEF SpawnWorker, At
<1>4. ASSUME NEW a \in Threads, NEW r \in Requests, NEW f \in Files, Request(a, r, f)
      PROVE  KernelInv'
  BY <1>4 DEF Request, MayCall, At
<1>5. ASSUME NEW a \in Threads, AddFile(a)
      PROVE  KernelInv'
  BY <1>5 DEF AddFile, Throw, At
<1>6. ASSUME NEW a \in Threads, CountUp(a)
      PROVE  KernelInv'
  BY <1>6 DEF CountUp, At, CallersInv, Making
<1>7. ASSUME NEW a \in Threads, Post(a)
      PROVE  KernelInv'
  BY <1>7 DEF Post, Throw, At, Packet, PostingInv
<1>8. ASSUME NEW a \in Threads, Shutdown(a)
      PROVE  KernelInv'
  BY <1>8 DEF Shutdown, MayCall, At, Counted
<1>9. ASSUME NEW a \in Threads, PostShutdown(a)
      PROVE  KernelInv'
  BY <1>9 DEF PostShutdown, At, ShutdownPacket, Packet
<1>10. ASSUME NEW a \in Threads, Join(a)
      PROVE  KernelInv'
  BY <1>10 DEF Join, At
<1>11. ASSUME NEW a \in Threads, Drain(a)
      PROVE  KernelInv'
  <2>1. UNCHANGED <<io, calls>>
    BY <1>11 DEF Drain
  <2>2. ASSUME NEW r \in Requests, InFlight(r)  PROVE overlapped'[r] = overlapped[r]
    <3>1. packets # <<>> => packets[1].req # r
      BY <2>2, Taken DEF PortInv
    <3> QED BY <1>11, <3>1, DrainTakes
  <2> QED BY <2>1, <2>2
<1>12. ASSUME NEW a \in Threads, StorePending(a)
      PROVE  KernelInv'
  BY <1>12 DEF StorePending, At
<1>13. ASSUME NEW a \in Threads, ClosePort(a)
      PROVE  KernelInv'
  BY <1>13 DEF ClosePort, At
<1>14. ASSUME NEW w \in Workers, TakeShutdown(w)
      PROVE  KernelInv'
  BY <1>14 DEF TakeShutdown, Dequeues, Goes, Cancel
<1>15. ASSUME NEW w \in Workers, Abandoned(w)
      PROVE  KernelInv'
  BY <1>15 DEF Abandoned, Goes, Cancel
<1>16. ASSUME NEW w \in Workers, NEW r \in Requests, TakeRequest(w, r)
      PROVE  KernelInv'
  BY <1>16 DEF TakeRequest, Dequeues, Goes, CountDown, Packet
<1>17. ASSUME NEW w \in Workers, NEW r \in Requests, TakeCompletion(w, r)
      PROVE  KernelInv'
  BY <1>17, Taken DEF TakeCompletion, Dequeues, Goes, CountDown, Called, CaseOf, Packet, PortInv
<1>18. ASSUME NEW w \in Workers, Submit(w)
      PROVE  KernelInv'
  <2>1. holds[w] \in Requests /\ overlapped[holds[w]] = "live" /\ calls[holds[w]] = 0
    BY <1>18, WorkerKnows DEF Submit, Busy, CallsBy
  <2> QED BY <1>18, <2>1 DEF Submit
<1>19. ASSUME NEW w \in Workers, Decide(w)
      PROVE  KernelInv'
  <2>1. holds[w] \in Requests
    BY <1>19, WorkerKnows DEF Decide, Busy
  <2>2. ~completionQueued(result[w]) => calls[holds[w]] = 0 /\ io[holds[w]] = "over"
    BY <1>19, WorkerKnows DEF Decide, Busy, CallsBy, Released
  <2> QED BY <1>19, <2>1, <2>2 DEF Decide, Called
<1>20. ASSUME NEW w \in Workers, EarlyReturns(w)
      PROVE  KernelInv'
  BY <1>20 DEF EarlyReturns, Goes
<1>21. ASSUME NEW w \in Workers, ReadReturns(w)
      PROVE  KernelInv'
  BY <1>21 DEF ReadReturns, Goes, Called, WorkerInv, Busy, InCallback, Released, CallsBy
<1>22. ASSUME NEW w \in Workers, WriteReturns(w)
      PROVE  KernelInv'
  BY <1>22 DEF WriteReturns, Goes, WorkerInv, Busy, InCallback, Released
<1>23. ASSUME NEW w \in Workers, CallbackThrows(w)
      PROVE  KernelInv'
  BY <1>23 DEF CallbackThrows, Goes, Cancel, InCallback
<1>24. ASSUME NEW r \in Requests, Complete(r)
      PROVE  KernelInv'
  BY <1>24 DEF Complete, Packet, ResultsOf
<1>25. ASSUME NEW f \in Files, CloseFile(f)
      PROVE  KernelInv'
  BY <1>25 DEF CloseFile, Answered
<1>26. ASSUME NEW f \in Files, OpenFile(f)
      PROVE  KernelInv'
  BY <1>26 DEF OpenFile
<1> QED
  BY <1>1, <1>2, <1>3, <1>4, <1>5, <1>6, <1>7, <1>8, <1>9, <1>10,
     <1>11, <1>12, <1>13, <1>14, <1>15, <1>16, <1>17, <1>18, <1>19,
     <1>20, <1>21, <1>22, <1>23, <1>24, <1>25, <1>26
     DEF Next, RequestStep, StopStep, WorkerStep

\* A step that takes no more than a packet away, and leaves the requests that
\* are being posted alone.
LEMMA PostingKept ==
  ASSUME IInv,
         packets' = packets \/ (packets # <<>> /\ packets' = Tail(packets)),
         \A v \in Workers, r \in Requests : Touches(v, r)' => Touches(v, r),
         \A b \in Threads : pc'[b] = "post" =>
           /\ pc[b] = "post" /\ arg'[b] = arg[b]
           /\ overlapped'[arg[b]] = overlapped[arg[b]]
           /\ io'[arg[b]] = io[arg[b]] /\ calls'[arg[b]] = calls[arg[b]]
  PROVE  PostingInv'
<1>1. /\ packets \in Seq(Packets)
      /\ \A a \in Threads : pc[a] = "post" => arg[a] \in Requests
  BY DEF IInv, TypeOK, OwnerInv, CallersInv, Making
<1>2. \A i \in DOMAIN packets' : \E j \in DOMAIN packets : packets'[i] = packets[j]
  <2>1. CASE packets' = packets
    BY <2>1
  <2>2. CASE packets # <<>> /\ packets' = Tail(packets)
    BY <1>1, <2>2, Taken
  <2> QED BY <2>1, <2>2
<1>3. ASSUME NEW b \in Threads, pc'[b] = "post"
      PROVE  \A i \in DOMAIN packets' : packets'[i].req # arg'[b]
  BY <1>2, <1>3 DEF IInv, OwnerInv, PostingInv
<1>4. ASSUME NEW b \in Threads, pc'[b] = "post"
      PROVE  /\ overlapped'[arg'[b]] = "live" /\ io'[arg'[b]] = "none"
             /\ calls'[arg'[b]] = 0
             /\ \A w \in Workers : ~Touches(w, arg[b])
  BY <1>4 DEF IInv, OwnerInv, PostingInv
<1>5. ASSUME NEW b \in Threads, pc'[b] = "post"
      PROVE  \A w \in Workers : ~Touches(w, arg[b])'
  <2>1. arg'[b] \in Requests /\ arg'[b] = arg[b]
    BY <1>1, <1>5
  <2> QED BY <1>4, <1>5, <2>1
<1> QED BY <1>3, <1>4, <1>5 DEF PostingInv

\* A step leaves a request that is about to be posted in no other hands.
LEMMA PostingStep ==
  ASSUME IInv, Next  PROVE PostingInv'
<1>0. /\ packets \in Seq(Packets)
      /\ \A a \in Threads : pc[a] = "post" => arg[a] \in Requests
  BY DEF IInv, TypeOK, OwnerInv, CallersInv, Making
<1>a. ASSUME packets' = packets \/ (packets # <<>> /\ packets' = Tail(packets))
      PROVE  \A r : (\A i \in DOMAIN packets : packets[i].req # r)
                      => \A i \in DOMAIN packets' : packets'[i].req # r
  <2>1. CASE packets' = packets
    BY <2>1
  <2>2. CASE packets # <<>> /\ packets' = Tail(packets)
    BY <1>0, <2>2, Taken
  <2> QED BY <1>a, <2>1, <2>2
<1> USE ServiceAssumption DEF IInv, TypeOK, OwnerInv, PostingInv, Threads,
        serviceVars, fileVars, requestVars, workerVars, callerVars, stopVars
<1>1. ASSUME NEW c \in Clients, StartServing(c)
      PROVE  PostingInv'
  BY <1>1 DEF StartServing, At, Touches, Released
<1>2. ASSUME NEW c \in Clients, CreatePort(c)
      PROVE  PostingInv'
  BY <1>2 DEF CreatePort, At, Touches, Released
<1>3. ASSUME NEW c \in Clients, NEW w \in Workers, SpawnWorker(c, w)
      PROVE  PostingInv'
  <2>1. \A v \in Workers, r \in Requests : Touches(v, r)' => Touches(v, r)
    BY <1>3 DEF SpawnWorker, Touches, Released, StateInv, WorkerInv, Busy, InCallback
  <2> QED BY <1>0, <1>3, <2>1 DEF SpawnWorker, At
<1>4. ASSUME NEW a \in Threads, NEW r \in Requests, NEW f \in Files, Request(a, r, f)
      PROVE  PostingInv'
  BY <1>4 DEF Request, MayCall, At, Touches, Released, CallersInv, Making
<1>5. ASSUME NEW a \in Threads, AddFile(a)
      PROVE  PostingInv'
  BY <1>5 DEF AddFile, Throw, At, Touches, Released, CallersInv, Making
<1>6. ASSUME NEW a \in Threads, CountUp(a)
      PROVE  PostingInv'
  <2>1. \A i \in DOMAIN packets : packets[i].req # arg[a]
    BY <1>6 DEF CountUp, CallersInv, PortInv, Making
  <2>2. \A w \in Workers : ~Touches(w, arg[a])
    BY <1>6, WorkerKnows DEF CountUp, CallersInv, WorkerInv, Making, Touches
  <2>3. arg[a] \in Requests /\ io[arg[a]] = "none" /\ calls[arg[a]] = 0
    BY <1>6 DEF CountUp, CallersInv, Making
  <2>4. \A b \in Threads : pc[b] = "post" => arg[b] # arg[a]
    BY <1>0, <1>6, <2>3 DEF CountUp, CallersInv
  <2> QED BY <1>6, <2>1, <2>2, <2>3, <2>4 DEF CountUp, At, Touches, Released
<1>7. ASSUME NEW a \in Threads, Post(a)
      PROVE  PostingInv'
  <2>1. \A i \in DOMAIN packets' : (i \in DOMAIN packets /\ packets'[i] = packets[i])
                                    \/ packets'[i].req = arg[a]
    <3>1. CASE packets' = packets
      BY <3>1
    <3>2. CASE packets' = Append(packets, Packet("server", arg[a], "ok"))
      <4>1. Packet("server", arg[a], "ok") \in Packets
        BY <1>0, <1>7 DEF Post, Packet, Packets, Results
      <4> QED BY <1>0, <3>2, <4>1, Posted DEF Packet
    <3> QED BY <1>7, <3>1, <3>2 DEF Post
  <2>2. \A b \in Threads : pc'[b] = "post" => b # a /\ arg'[b] = arg[b] /\ pc[b] = "post"
    BY <1>7 DEF Post, Throw, At
  <2>3. \A b \in Threads : b # a /\ pc[b] = "post" => arg[b] # arg[a]
    BY <1>0, <1>7 DEF Post, CallersInv
  <2> QED BY <1>0, <1>7, <2>1, <2>2, <2>3 DEF Post, Touches, Released
<1>8. ASSUME NEW a \in Threads, Shutdown(a)
      PROVE  PostingInv'
  BY <1>8 DEF Shutdown, MayCall, At, Counted, Touches, Released
<1>9. ASSUME NEW a \in Threads, PostShutdown(a)
      PROVE  PostingInv'
  <2>1. \A i \in DOMAIN packets' : (i \in DOMAIN packets /\ packets'[i] = packets[i])
                                    \/ packets'[i].req = None
    <3>1. CASE packets' = packets
      BY <3>1
    <3>2. CASE packets' = Append(packets, ShutdownPacket)
      <4>1. ShutdownPacket \in Packets
        BY DEF ShutdownPacket, Packet, Packets, Results
      <4> QED BY <1>0, <3>2, <4>1, Posted DEF ShutdownPacket, Packet
    <3> QED BY <1>9, <3>1, <3>2 DEF PostShutdown
  <2>2. \A b \in Threads : pc'[b] = "post" => pc[b] = "post"
    BY <1>9 DEF PostShutdown, At
  <2> QED BY <1>0, <1>9, <2>1, <2>2 DEF PostShutdown, Touches, Released
<1>10. ASSUME NEW a \in Threads, Join(a)
      PROVE  PostingInv'
  BY <1>10 DEF Join, At, Touches, Released
<1>11. ASSUME NEW a \in Threads, Drain(a)
      PROVE  PostingInv'
  <2>1. \A b \in Threads : pc'[b] = "post" => pc[b] = "post"
    BY <1>11, DrainTakes
  <2>2. \A b \in Threads : pc[b] = "post" => overlapped'[arg[b]] = overlapped[arg[b]]
    BY <1>0, <1>11, DrainTakes, Taken
  <2>3. packets' = packets \/ (packets # <<>> /\ packets' = Tail(packets))
    BY <1>11, DrainTakes
  <2>4. \A v \in Workers, r \in Requests : Touches(v, r)' => Touches(v, r)
    BY <1>11 DEF Drain, Touches, Released
  <2>5. UNCHANGED <<arg, io, calls>>
    BY <1>11 DEF Drain
  <2> QED BY <2>1, <2>2, <2>3, <2>4, <2>5, PostingKept
<1>12. ASSUME NEW a \in Threads, StorePending(a)
      PROVE  PostingInv'
  BY <1>12 DEF StorePending, At, Touches, Released
<1>13. ASSUME NEW a \in Threads, ClosePort(a)
      PROVE  PostingInv'
  BY <1>13 DEF ClosePort, At, Touches, Released
<1>14. ASSUME NEW w \in Workers, TakeShutdown(w)
      PROVE  PostingInv'
  <2>1. \A b \in Threads : pc[b] = "post" => io'[arg[b]] = io[arg[b]]
    BY <1>0, <1>14 DEF TakeShutdown, Cancel
  <2> QED BY <1>14, <2>1, TouchesLess, PostingKept DEF TakeShutdown
<1>15. ASSUME NEW w \in Workers, Abandoned(w)
      PROVE  PostingInv'
  <2>1. \A b \in Threads : pc[b] = "post" => io'[arg[b]] = io[arg[b]]
    BY <1>0, <1>15 DEF Abandoned, Cancel
  <2> QED BY <1>15, <2>1, TouchesLess, PostingKept DEF Abandoned
<1>16. ASSUME NEW w \in Workers, NEW r \in Requests, TakeRequest(w, r)
      PROVE  PostingInv'
  <2>1. packets # <<>> /\ packets' = Tail(packets) /\ packets[1].req = r
    BY <1>0, <1>16, Taken DEF TakeRequest, Dequeues, Packet
  <2>2. \A b \in Threads : pc[b] = "post" => arg[b] # r
    BY <1>0, <2>1, Taken
  <2>3. \A v \in Workers, q \in Requests : Touches(v, q)' => Touches(v, q) \/ q = r
    BY <1>16 DEF TakeRequest, Dequeues, Goes, Touches, Released
  <2> QED BY <1>0, <1>16, <1>a, <2>1, <2>2, <2>3 DEF TakeRequest
<1>17. ASSUME NEW w \in Workers, NEW r \in Requests, TakeCompletion(w, r)
      PROVE  PostingInv'
  <2>1. packets # <<>> /\ packets' = Tail(packets) /\ packets[1].req = r
    BY <1>0, <1>17, Taken DEF TakeCompletion, Dequeues, Packet
  <2>2. \A b \in Threads : pc[b] = "post" => arg[b] # r
    BY <1>0, <2>1, Taken
  <2>3. \A v \in Workers, q \in Requests : Touches(v, q)' => Touches(v, q) \/ q = r
    BY <1>17 DEF TakeCompletion, Dequeues, Goes, Touches, Released
  <2>4. calls' = [calls EXCEPT ![r] = @ + 1]
    BY <1>17 DEF TakeCompletion, Called
  <2> QED BY <1>0, <1>17, <1>a, <2>1, <2>2, <2>3, <2>4 DEF TakeCompletion
<1>18. ASSUME NEW w \in Workers, Submit(w)
      PROVE  PostingInv'
  <2>1. holds[w] \in Requests /\ Touches(w, holds[w])
    BY <1>18, WorkerKnows DEF Submit, Busy
  <2>2. \A b \in Threads : pc[b] = "post" => arg[b] # holds[w]
    BY <2>1
  <2>3. \A v \in Workers, q \in Requests : Touches(v, q)' => Touches(v, q) \/ q = holds[w]
    BY <1>18, <2>1 DEF Submit, Goes, Touches, Released
  <2>4. \A i \in DOMAIN packets' : (i \in DOMAIN packets /\ packets'[i] = packets[i])
                                    \/ packets'[i].req = holds[w]
    <3>1. CASE packets' = packets
      BY <3>1
    <3>2. CASE packets' = Append(packets, Packet("native", holds[w], "ok"))
      <4>1. Packet("native", holds[w], "ok") \in Packets
        BY <2>1 DEF Packet, Packets, Results
      <4> QED BY <1>0, <3>2, <4>1, Posted DEF Packet
    <3> QED BY <1>18, <3>1, <3>2 DEF Submit
  <2> QED BY <1>0, <1>18, <2>1, <2>2, <2>3, <2>4 DEF Submit
<1>19. ASSUME NEW w \in Workers, Decide(w)
      PROVE  PostingInv'
  <2>1. ~completionQueued(result[w]) => Touches(w, holds[w])
    BY <1>19 DEF Decide, Touches, Released
  <2>2. \A b \in Threads : pc[b] = "post" => calls'[arg[b]] = calls[arg[b]]
    BY <1>0, <1>19, <2>1 DEF Decide, Called
  <2> QED BY <1>19, <2>2, TouchesLess, PostingKept DEF Decide
<1>20. ASSUME NEW w \in Workers, EarlyReturns(w)
      PROVE  PostingInv'
  BY <1>20, TouchesLess, PostingKept DEF EarlyReturns, Goes
<1>21. ASSUME NEW w \in Workers, ReadReturns(w)
      PROVE  PostingInv'
  <2>1. Touches(w, holds[w])
    BY <1>21 DEF ReadReturns, Touches, Released
  <2>2. \A b \in Threads : pc[b] = "post" => calls'[arg[b]] = calls[arg[b]]
    BY <1>0, <1>21, <2>1 DEF ReadReturns, Called
  <2> QED BY <1>21, <2>2, TouchesLess, PostingKept DEF ReadReturns
<1>22. ASSUME NEW w \in Workers, WriteReturns(w)
      PROVE  PostingInv'
  <2>1. Touches(w, holds[w])
    BY <1>22 DEF WriteReturns, Touches, Released
  <2>2. \A b \in Threads : pc[b] = "post" => overlapped'[arg[b]] = overlapped[arg[b]]
    BY <1>0, <1>22, <2>1 DEF WriteReturns
  <2> QED BY <1>22, <2>2, TouchesLess, PostingKept DEF WriteReturns
<1>23. ASSUME NEW w \in Workers, CallbackThrows(w)
      PROVE  PostingInv'
  <2>1. \A b \in Threads : pc[b] = "post" => io'[arg[b]] = io[arg[b]]
    BY <1>0, <1>23 DEF CallbackThrows, Cancel
  <2> QED BY <1>23, <2>1, TouchesLess, PostingKept DEF CallbackThrows
<1>24. ASSUME NEW r \in Requests, Complete(r)
      PROVE  PostingInv'
  <2>1. \A b \in Threads : pc[b] = "post" => arg[b] # r
    BY <1>24 DEF Complete
  <2>2. \A i \in DOMAIN packets' : (i \in DOMAIN packets /\ packets'[i] = packets[i])
                                    \/ packets'[i].req = r
    <3>1. CASE packets' = packets
      BY <3>1
    <3>2. CASE \E res \in Results : packets' = Append(packets, Packet("native", r, res))
      <4>1. \A res \in Results : Packet("native", r, res) \in Packets
        BY DEF Packet, Packets
      <4> QED BY <1>0, <3>2, <4>1, Posted DEF Packet
    <3> QED BY <1>24, <3>1, <3>2 DEF Complete, ResultsOf, Results
  <2> QED BY <1>0, <1>24, <2>1, <2>2 DEF Complete, Touches, Released
<1>25. ASSUME NEW f \in Files, CloseFile(f)
      PROVE  PostingInv'
  BY <1>25 DEF CloseFile, Answered, Touches, Released
<1>26. ASSUME NEW f \in Files, OpenFile(f)
      PROVE  PostingInv'
  BY <1>26 DEF OpenFile, Touches, Released
<1> QED
  BY <1>1, <1>2, <1>3, <1>4, <1>5, <1>6, <1>7, <1>8, <1>9, <1>10,
     <1>11, <1>12, <1>13, <1>14, <1>15, <1>16, <1>17, <1>18, <1>19,
     <1>20, <1>21, <1>22, <1>23, <1>24, <1>25, <1>26
     DEF Next, RequestStep, StopStep, WorkerStep

\* A step lets no second worker touch a request, whatever it finds out about its own.
LEMMA WorkersStep ==
  ASSUME IInv, Next  PROVE WorkerInv'
<1>0. packets \in Seq(Packets)
  BY DEF IInv, TypeOK
<1> USE ServiceAssumption DEF IInv, TypeOK, OwnerInv, WorkerInv, Touches, Released, Threads, Busy, CallsBy,InCallback,
        serviceVars, fileVars, requestVars, workerVars, callerVars, stopVars
<1>1. ASSUME NEW c \in Clients, StartServing(c)
      PROVE  WorkerInv'
  BY <1>1 DEF StartServing, At
<1>2. ASSUME NEW c \in Clients, CreatePort(c)
      PROVE  WorkerInv'
  BY <1>2 DEF CreatePort, At
<1>3. ASSUME NEW c \in Clients, NEW w \in Workers, SpawnWorker(c, w)
      PROVE  WorkerInv'
  BY <1>3 DEF SpawnWorker, At, StateInv
<1>4. ASSUME NEW a \in Threads, NEW r \in Requests, NEW f \in Files, Request(a, r, f)
      PROVE  WorkerInv'
  BY <1>4 DEF Request, MayCall, At
<1>5. ASSUME NEW a \in Threads, AddFile(a)
      PROVE  WorkerInv'
  BY <1>5 DEF AddFile, Throw, At
<1>6. ASSUME NEW a \in Threads, CountUp(a)
      PROVE  WorkerInv'
  BY <1>6 DEF CountUp, At, CallersInv, Making, PortInv
<1>7. ASSUME NEW a \in Threads, Post(a)
      PROVE  WorkerInv'
  BY <1>7 DEF Post, Throw, At, Packet, CallersInv, Making, PostingInv
<1>8. ASSUME NEW a \in Threads, Shutdown(a)
      PROVE  WorkerInv'
  BY <1>8 DEF Shutdown, MayCall, At, Counted
<1>9. ASSUME NEW a \in Threads, PostShutdown(a)
      PROVE  WorkerInv'
  BY <1>9 DEF PostShutdown, At, ShutdownPacket, Packet
<1>10. ASSUME NEW a \in Threads, Join(a)
      PROVE  WorkerInv'
  BY <1>10 DEF Join, At
<1>11. ASSUME NEW a \in Threads, Drain(a)
      PROVE  WorkerInv'
  <2>1. \A w \in Workers : doing[w] \in Busy /\ ~Released(w)
          => overlapped'[holds[w]] = overlapped[holds[w]]
    BY <1>0, <1>11, DrainTakes, Taken DEF PortInv
  <2> QED BY <1>11, <2>1 DEF Drain
<1>12. ASSUME NEW a \in Threads, StorePending(a)
      PROVE  WorkerInv'
  BY <1>12 DEF StorePending, At
<1>13. ASSUME NEW a \in Threads, ClosePort(a)
      PROVE  WorkerInv'
  BY <1>13 DEF ClosePort, At
<1>14. ASSUME NEW w \in Workers, TakeShutdown(w)
      PROVE  WorkerInv'
  BY <1>14 DEF TakeShutdown, Dequeues, Goes, Cancel
<1>15. ASSUME NEW w \in Workers, Abandoned(w)
      PROVE  WorkerInv'
  BY <1>15 DEF Abandoned, Goes, Cancel
<1>16. ASSUME NEW w \in Workers, NEW r \in Requests, TakeRequest(w, r)
      PROVE  WorkerInv'
  BY <1>16, <1>0, Taken DEF TakeRequest, Dequeues, Goes, CountDown, Packet, PortInv
<1>17. ASSUME NEW w \in Workers, NEW r \in Requests, TakeCompletion(w, r)
      PROVE  WorkerInv'
  BY <1>17, <1>0, Taken DEF TakeCompletion, Dequeues, Goes, CountDown, Called, CaseOf, Packet, PortInv
<1>18. ASSUME NEW w \in Workers, Submit(w)
      PROVE  WorkerInv'
  <2>1. /\ holds[w] \in Requests /\ Touches(w, holds[w]) /\ overlapped[holds[w]] = "live"
        /\ calls[holds[w]] = 0 /\ io[holds[w]] = "none"
    BY <1>18, WorkerKnows DEF Submit
  <2>2. \A v \in Workers \ {w} : holds[v] # holds[w]
    BY <1>18, <2>1, WorkerKnows DEF Submit
  <2>3. io'[holds[w]] # "none" /\ (~completionQueued(result'[w]) => io'[holds[w]] = "over")
    BY <1>18, <2>1 DEF Submit, completionQueued
  <2>4. /\ doing' = [doing EXCEPT ![w] = "decide"] /\ holds' = holds
        /\ \A v \in Workers \ {w} : result'[v] = result[v]
        /\ \A q \in Requests \ {holds[w]} : io'[q] = io[q]
        /\ UNCHANGED <<overlapped, calls>>
    BY <1>18 DEF Submit, Goes
  <2> HIDE <1>18
  <2> QED BY <2>1, <2>2, <2>3, <2>4
<1>19. ASSUME NEW w \in Workers, Decide(w)
      PROVE  WorkerInv'
  <2>1. holds[w] \in Requests /\ ~completionQueued(result[w]) => Touches(w, holds[w])
    BY <1>19, WorkerKnows DEF Decide
  <2>2. CASE completionQueued(result[w])
    BY <1>19, <2>2 DEF Decide, Goes
  <2>3. CASE ~completionQueued(result[w])
    <3>1. /\ overlapped[holds[w]] = "live" /\ io[holds[w]] = "over" /\ calls[holds[w]] = 0
          /\ holds[w] \in Requests
      BY <1>19, <2>3, WorkerKnows DEF Decide
    <3>2. /\ doing' = [doing EXCEPT ![w] = "early"]
          /\ holds' = [holds EXCEPT ![w] = holds[w]]
          /\ result' = [result EXCEPT ![w] = "ok"]
          /\ calls' = [calls EXCEPT ![holds[w]] = @ + 1]
          /\ UNCHANGED <<overlapped, io>>
      BY <1>19, <2>3 DEF Decide, Goes, Called
    <3> HIDE <1>19
    <3> QED BY <2>1, <2>3, <3>1, <3>2
  <2> QED BY <2>2, <2>3
<1>20. ASSUME NEW w \in Workers, EarlyReturns(w)
      PROVE  WorkerInv'
  BY <1>20 DEF EarlyReturns, Goes
<1>21. ASSUME NEW w \in Workers, ReadReturns(w)
      PROVE  WorkerInv'
  BY <1>21 DEF ReadReturns, Goes, Called
<1>22. ASSUME NEW w \in Workers, WriteReturns(w)
      PROVE  WorkerInv'
  BY <1>22 DEF WriteReturns, Goes
<1>23. ASSUME NEW w \in Workers, CallbackThrows(w)
      PROVE  WorkerInv'
  BY <1>23 DEF CallbackThrows, Goes, Cancel, InCallback
<1>24. ASSUME NEW r \in Requests, Complete(r)
      PROVE  WorkerInv'
  BY <1>24 DEF Complete, Packet, ResultsOf
<1>25. ASSUME NEW f \in Files, CloseFile(f)
      PROVE  WorkerInv'
  BY <1>25 DEF CloseFile, Answered
<1>26. ASSUME NEW f \in Files, OpenFile(f)
      PROVE  WorkerInv'
  BY <1>26 DEF OpenFile
<1> QED
  BY <1>1, <1>2, <1>3, <1>4, <1>5, <1>6, <1>7, <1>8, <1>9, <1>10,
     <1>11, <1>12, <1>13, <1>14, <1>15, <1>16, <1>17, <1>18, <1>19,
     <1>20, <1>21, <1>22, <1>23, <1>24, <1>25, <1>26
     DEF Next, RequestStep, StopStep, WorkerStep

\* A step that adds nothing to the port and leaves what stays there alone.
LEMMA PortKept ==
  ASSUME IInv,
         \/ packets' = packets
         \/ packets' = <<>>
         \/ packets # <<>> /\ packets' = Tail(packets),
         \A r \in Requests : (\E i \in DOMAIN packets' : packets'[i].req = r) =>
           /\ overlapped'[r] = overlapped[r] /\ calls'[r] = calls[r] /\ io'[r] = io[r]
           /\ \A w \in Workers : Touches(w, r)' => Touches(w, r)
  PROVE  PortInv'
<1>1. packets \in Seq(Packets)
  BY DEF IInv, TypeOK
<1>2. /\ \A i \in DOMAIN packets' : \E j \in DOMAIN packets : packets'[i] = packets[j]
      /\ \A i, j \in DOMAIN packets' :
           packets'[i].req \in Requests /\ packets'[i].req = packets'[j].req => i = j
  <2>1. CASE packets' = packets
    BY <2>1 DEF IInv, OwnerInv, PortInv
  <2>2. CASE packets' = <<>>
    BY <2>2
  <2>3. CASE packets # <<>> /\ packets' = Tail(packets)
    <3>1. \A i \in DOMAIN packets' : i \in Nat /\ i + 1 \in DOMAIN packets
                                       /\ packets'[i] = packets[i + 1]
      BY <1>1, <2>3, Taken
    <3>2. ASSUME NEW i \in DOMAIN packets', NEW j \in DOMAIN packets',
                 packets'[i].req \in Requests, packets'[i].req = packets'[j].req
          PROVE  i = j
      <4>1. i + 1 = j + 1
        BY <3>1, <3>2 DEF IInv, OwnerInv, PortInv
      <4> QED BY <3>1, <4>1
    <3> QED BY <3>1, <3>2
  <2> QED BY <2>1, <2>2, <2>3
<1>3. ASSUME NEW i \in DOMAIN packets', NEW r \in Requests, packets'[i].req = r
      PROVE  /\ overlapped'[r] = "live" /\ calls'[r] = 0
             /\ io'[r] = IF packets'[i].key = "server" THEN "none" ELSE "over"
             /\ \A w \in Workers : ~Touches(w, r)'
  <2>1. PICK j \in DOMAIN packets : packets'[i] = packets[j]
    BY <1>2
  <2>2. /\ overlapped[r] = "live" /\ calls[r] = 0
        /\ io[r] = IF packets[j].key = "server" THEN "none" ELSE "over"
        /\ \A w \in Workers : ~Touches(w, r)
    BY <1>3, <2>1 DEF IInv, OwnerInv, PortInv
  <2> QED BY <1>3, <2>1, <2>2
<1> QED BY <1>2, <1>3 DEF PortInv

\* A step that adds a packet, for a request that has none yet, or for none.
LEMMA PortGrows ==
  ASSUME IInv, NEW p \in Packets, packets' = Append(packets, p),
         \A r \in Requests : (\E i \in DOMAIN packets : packets[i].req = r) =>
           /\ overlapped'[r] = overlapped[r] /\ calls'[r] = calls[r] /\ io'[r] = io[r]
           /\ \A w \in Workers : Touches(w, r)' => Touches(w, r),
         p.req \in Requests => \A i \in DOMAIN packets : packets[i].req # p.req,
         \A r \in Requests : p.req = r =>
           /\ overlapped'[r] = "live" /\ calls'[r] = 0
           /\ io'[r] = IF p.key = "server" THEN "none" ELSE "over"
           /\ \A w \in Workers : ~Touches(w, r)'
  PROVE  PortInv'
<1>1. packets \in Seq(Packets)
  BY DEF IInv, TypeOK
<1>2. \A i \in DOMAIN packets' :
        (i \in DOMAIN packets /\ packets'[i] = packets[i])
          \/ (i = Len(packets) + 1 /\ packets'[i] = p)
  BY <1>1, Posted
<1>3. ASSUME NEW i \in DOMAIN packets', NEW r \in Requests, packets'[i].req = r
      PROVE  /\ overlapped'[r] = "live" /\ calls'[r] = 0
             /\ io'[r] = IF packets'[i].key = "server" THEN "none" ELSE "over"
             /\ \A w \in Workers : ~Touches(w, r)'
  <2>1. CASE i \in DOMAIN packets /\ packets'[i] = packets[i]
    <3>1. /\ overlapped[r] = "live" /\ calls[r] = 0
          /\ io[r] = IF packets[i].key = "server" THEN "none" ELSE "over"
          /\ \A w \in Workers : ~Touches(w, r)
      BY <1>3, <2>1 DEF IInv, OwnerInv, PortInv
    <3> QED BY <1>3, <2>1, <3>1
  <2>2. CASE packets'[i] = p
    BY <1>3, <2>2
  <2> QED BY <1>2, <2>1, <2>2
<1>4. ASSUME NEW i \in DOMAIN packets', NEW j \in DOMAIN packets',
             packets'[i].req \in Requests, packets'[i].req = packets'[j].req
      PROVE  i = j
  BY <1>2, <1>4 DEF IInv, OwnerInv, PortInv
<1> QED BY <1>3, <1>4 DEF PortInv

\* No other packet is about the request of the oldest.
LEMMA OldestAlone ==
  ASSUME IInv, packets # <<>>
  PROVE  /\ packets \in Seq(Packets) /\ Head(packets) = packets[1] /\ 1 \in DOMAIN packets
         /\ packets[1].req \in Requests =>
              \A i \in DOMAIN Tail(packets) : Tail(packets)[i].req # packets[1].req
         /\ \A i \in DOMAIN packets :
              packets[i] = packets[1] \/ \E j \in DOMAIN Tail(packets) : Tail(packets)[j] = packets[i]
<1>1. packets \in Seq(Packets)
  BY DEF IInv, TypeOK
<1>2. /\ 1 \in DOMAIN packets /\ Head(packets) = packets[1]
      /\ \A i \in DOMAIN Tail(packets) :
           i \in Nat /\ i + 1 \in DOMAIN packets /\ Tail(packets)[i] = packets[i + 1]
  BY <1>1, Taken
<1>3. ASSUME NEW i \in DOMAIN Tail(packets), packets[1].req \in Requests,
             Tail(packets)[i].req = packets[1].req
      PROVE  FALSE
  <2>1. i + 1 = 1
    BY <1>2, <1>3 DEF IInv, OwnerInv, PortInv
  <2> QED BY <1>2, <1>3, <2>1
<1>4. \A i \in DOMAIN packets :
        packets[i] = packets[1] \/ \E j \in DOMAIN Tail(packets) : Tail(packets)[j] = packets[i]
  BY <1>1, Taken
<1> QED BY <1>1, <1>2, <1>3, <1>4

\* A step leaves every request in the port there once, and in no other hands.
LEMMA PortStep ==
  ASSUME IInv, Next  PROVE PortInv'
<1>0. /\ packets \in Seq(Packets) /\ None \notin Requests
      /\ \A a \in Threads : pc[a] \in Making => arg[a] \in Requests
      /\ \A r \in Requests : (\E i \in DOMAIN packets : packets[i].req = r) =>
           /\ overlapped[r] = "live" /\ calls[r] = 0 /\ io[r] \in {"none", "over"}
           /\ \A w \in Workers : ~Touches(w, r)
      /\ \A a \in Threads : pc[a] = "post" =>
           /\ overlapped[arg[a]] = "live" /\ io[arg[a]] = "none" /\ calls[arg[a]] = 0
           /\ \A i \in DOMAIN packets : packets[i].req # arg[a]
           /\ \A w \in Workers : ~Touches(w, arg[a])
  BY ServiceAssumption DEF IInv, TypeOK, OwnerInv, CallersInv, PortInv, PostingInv
<1> USE DEF Threads, serviceVars, fileVars, requestVars, workerVars, callerVars, stopVars
<1>1. ASSUME NEW c \in Clients, StartServing(c)
      PROVE  PortInv'
  BY <1>1, PortKept DEF StartServing, At, Touches, Released
<1>2. ASSUME NEW c \in Clients, CreatePort(c)
      PROVE  PortInv'
  BY <1>2, PortKept DEF CreatePort, At, Touches, Released
<1>3. ASSUME NEW c \in Clients, NEW w \in Workers, SpawnWorker(c, w)
      PROVE  PortInv'
  <2>1. \A v \in Workers, r \in Requests : Touches(v, r)' => Touches(v, r)
    BY <1>3 DEF SpawnWorker, Touches, Released, IInv, TypeOK, StateInv, OwnerInv,
           WorkerInv, Busy, InCallback
  <2> QED BY <1>3, <2>1, PortKept DEF SpawnWorker
<1>4. ASSUME NEW a \in Threads, NEW r \in Requests, NEW f \in Files, Request(a, r, f)
      PROVE  PortInv'
  BY <1>4, PortKept DEF Request, MayCall, At, Touches, Released
<1>5. ASSUME NEW a \in Threads, AddFile(a)
      PROVE  PortInv'
  BY <1>5, PortKept DEF AddFile, Throw, At, Touches, Released
<1>6. ASSUME NEW a \in Threads, CountUp(a)
      PROVE  PortInv'
  <2>1. \A i \in DOMAIN packets : packets[i].req # arg[a]
    BY <1>0, <1>6 DEF CountUp, IInv, OwnerInv, CallersInv, Making
  <2>2. \A r \in Requests \ {arg[a]} : overlapped'[r] = overlapped[r]
    BY <1>6 DEF CountUp, IInv, TypeOK
  <2> QED BY <1>6, <2>1, <2>2, PortKept DEF CountUp, Touches, Released
<1>7. ASSUME NEW a \in Threads, Post(a)
      PROVE  PortInv'
  <2>1. Packet("server", arg[a], "ok") \in Packets /\ arg[a] \in Requests
    BY <1>0, <1>7 DEF Post, Packet, Packets, Results, Making
  <2>2. CASE packets' = packets /\ overlapped' = [overlapped EXCEPT ![arg[a]] = "refused"]
    <3>1. \A r \in Requests \ {arg[a]} : overlapped'[r] = overlapped[r]
      BY <2>2 DEF IInv, TypeOK
    <3> QED BY <1>0, <1>7, <2>2, <3>1, PortKept DEF Post, Touches, Released
  <2>3. CASE /\ packets' = Append(packets, Packet("server", arg[a], "ok"))
             /\ UNCHANGED overlapped
    <3>1. UNCHANGED <<overlapped, calls, io, doing, holds, result>>
      BY <1>7, <2>3 DEF Post
    <3>2. /\ Packet("server", arg[a], "ok").req = arg[a]
          /\ Packet("server", arg[a], "ok").key = "server"
      BY DEF Packet
    <3> QED BY <1>0, <1>7, <2>1, <2>3, <3>1, <3>2, PortGrows DEF Post, Touches, Released
  <2> QED BY <1>7, <2>2, <2>3 DEF Post
<1>8. ASSUME NEW a \in Threads, Shutdown(a)
      PROVE  PortInv'
  BY <1>8, PortKept DEF Shutdown, MayCall, At, Counted, Touches, Released
<1>9. ASSUME NEW a \in Threads, PostShutdown(a)
      PROVE  PortInv'
  <2>1. UNCHANGED <<overlapped, calls, io, doing, holds, result>>
    BY <1>9 DEF PostShutdown
  <2>2. CASE packets' = packets
    BY <2>1, <2>2, PortKept DEF Touches, Released
  <2>3. CASE packets' = Append(packets, ShutdownPacket)
    <3>1. ShutdownPacket \in Packets /\ ShutdownPacket.req \notin Requests
      BY <1>0 DEF ShutdownPacket, Packet, Packets, Results
    <3> QED BY <2>1, <2>3, <3>1, PortGrows DEF Touches, Released
  <2> QED BY <1>9, <2>2, <2>3 DEF PostShutdown
<1>10. ASSUME NEW a \in Threads, Join(a)
      PROVE  PortInv'
  BY <1>10, PortKept DEF Join, At, Touches, Released
<1>11. ASSUME NEW a \in Threads, Drain(a)
      PROVE  PortInv'
  <2>1. UNCHANGED <<calls, io, doing, holds, result>>
    BY <1>11 DEF Drain
  <2>2. CASE packets' = packets
    <3>1. packets # <<>> => packets' # Tail(packets)
      BY <1>0, <2>2, HeadTailProperties
    <3> QED BY <1>11, <2>1, <2>2, <3>1, DrainTakes, PortKept DEF Touches, Released
  <2>3. CASE packets # <<>> /\ packets' = Tail(packets)
    <3>1. \A r \in Requests : (\E i \in DOMAIN packets' : packets'[i].req = r)
                                 => overlapped'[r] = overlapped[r]
      BY <1>11, <2>3, DrainTakes, OldestAlone
    <3> QED BY <2>1, <2>3, <3>1, PortKept DEF Touches, Released
  <2> QED BY <1>11, <2>2, <2>3, DrainTakes
<1>12. ASSUME NEW a \in Threads, StorePending(a)
      PROVE  PortInv'
  BY <1>12, PortKept DEF StorePending, At, Touches, Released
<1>13. ASSUME NEW a \in Threads, ClosePort(a)
      PROVE  PortInv'
  BY <1>13, PortKept DEF ClosePort, At, Touches, Released
<1>14. ASSUME NEW w \in Workers, TakeShutdown(w)
      PROVE  PortInv'
  <2>1. \A i \in DOMAIN packets' : \E j \in DOMAIN packets : packets'[i] = packets[j]
    BY <1>0, <1>14, Taken DEF TakeShutdown, Dequeues
  <2>2. \A r \in Requests : (\E i \in DOMAIN packets' : packets'[i].req = r)
                               => io'[r] = io[r]
    BY <1>0, <1>14, <2>1 DEF TakeShutdown, Cancel
  <2> QED BY <1>14, <2>2, TouchesLess, PortKept DEF TakeShutdown, Dequeues
<1>15. ASSUME NEW w \in Workers, Abandoned(w)
      PROVE  PortInv'
  <2>1. \A r \in Requests : (\E i \in DOMAIN packets : packets[i].req = r)
                               => io'[r] = io[r]
    BY <1>0, <1>15 DEF Abandoned, Cancel
  <2> QED BY <1>15, <2>1, TouchesLess, PortKept DEF Abandoned
<1>16. ASSUME NEW w \in Workers, NEW r \in Requests, TakeRequest(w, r)
      PROVE  PortInv'
  <2>1. packets # <<>> /\ packets' = Tail(packets) /\ packets[1].req = r
    BY <1>0, <1>16, Taken DEF TakeRequest, Dequeues, Packet
  <2>2. \A i \in DOMAIN packets' : packets'[i].req # r
    BY <2>1, OldestAlone
  <2>3. \A v \in Workers, q \in Requests : Touches(v, q)' => Touches(v, q) \/ q = r
    BY <1>16 DEF TakeRequest, Goes, Touches, Released, IInv, TypeOK
  <2> QED BY <1>16, <2>1, <2>2, <2>3, PortKept DEF TakeRequest
<1>17. ASSUME NEW w \in Workers, NEW r \in Requests, TakeCompletion(w, r)
      PROVE  PortInv'
  <2>1. packets # <<>> /\ packets' = Tail(packets) /\ packets[1].req = r
    BY <1>0, <1>17, Taken DEF TakeCompletion, Dequeues, Packet
  <2>2. \A i \in DOMAIN packets' : packets'[i].req # r
    BY <2>1, OldestAlone
  <2>3. \A v \in Workers, q \in Requests : Touches(v, q)' => Touches(v, q) \/ q = r
    BY <1>17 DEF TakeCompletion, Goes, Touches, Released, IInv, TypeOK
  <2>4. \A q \in Requests \ {r} : calls'[q] = calls[q]
    BY <1>17 DEF TakeCompletion, Called, IInv, TypeOK
  <2> QED BY <1>17, <2>1, <2>2, <2>3, <2>4, PortKept DEF TakeCompletion
<1>18. ASSUME NEW w \in Workers, Submit(w)
      PROVE  PortInv'
  <2>1. /\ holds[w] \in Requests /\ Touches(w, holds[w]) /\ overlapped[holds[w]] = "live"
        /\ calls[holds[w]] = 0 /\ io[holds[w]] = "none"
    BY <1>18, WorkerKnows DEF Submit, Busy, CallsBy
  <2>2. \A i \in DOMAIN packets : packets[i].req # holds[w]
    BY <1>0, <2>1
  <2>3. /\ \A v \in Workers, q \in Requests \ {holds[w]} : Touches(v, q)' => Touches(v, q)
        /\ \A q \in Requests \ {holds[w]} : io'[q] = io[q]
        /\ UNCHANGED <<overlapped, calls>>
    BY <1>18, <2>1 DEF Submit, Goes, Touches, Released, IInv, TypeOK
  <2>4. CASE packets' = packets
    BY <2>2, <2>3, <2>4, PortKept
  <2>5. CASE packets' # packets
    <3>1. /\ packets' = Append(packets, Packet("native", holds[w], "ok"))
          /\ result' = [result EXCEPT ![w] = "ok"] /\ ~Vista
          /\ io' = [io EXCEPT ![holds[w]] = "over"]
          /\ Goes(w, "decide", holds[w])
      BY <1>18, <2>5 DEF Submit
    <3>2. /\ Packet("native", holds[w], "ok") \in Packets
          /\ Packet("native", holds[w], "ok").req = holds[w]
          /\ Packet("native", holds[w], "ok").key = "native"
      BY <2>1 DEF Packet, Packets, Results
    <3>3. \A v \in Workers : ~Touches(v, holds[w])'
      <4>1. \A v \in Workers \ {w} : ~Touches(v, holds[w])
        BY <2>1 DEF IInv, OwnerInv, WorkerInv
      <4> QED BY <3>1, <4>1 DEF Goes, Touches, Released, completionQueued, IInv, TypeOK
    <3>4. io'[holds[w]] = "over"
      BY <2>1, <3>1 DEF IInv, TypeOK
    <3>5. holds'[w] = holds[w]
      BY <3>1 DEF Goes, IInv, TypeOK
    <3>6. \A r \in Requests : (\E i \in DOMAIN packets : packets[i].req = r) =>
            /\ overlapped'[r] = overlapped[r] /\ calls'[r] = calls[r] /\ io'[r] = io[r]
            /\ \A v \in Workers : Touches(v, r)' => Touches(v, r)
      BY <2>2, <2>3
    <3> HIDE <1>18
    <3> QED BY <2>1, <2>2, <2>3, <3>1, <3>2, <3>3, <3>4, <3>5, <3>6, PortGrows
  <2> QED BY <2>4, <2>5
<1>19. ASSUME NEW w \in Workers, Decide(w)
      PROVE  PortInv'
  <2>1. ~completionQueued(result[w]) => holds[w] \in Requests /\ Touches(w, holds[w])
    BY <1>19, WorkerKnows DEF Decide, Busy, Touches, Released
  <2>2. \A r \in Requests : (\E i \in DOMAIN packets : packets[i].req = r)
                               => calls'[r] = calls[r]
    BY <1>0, <1>19, <2>1 DEF Decide, Called, IInv, TypeOK
  <2> QED BY <1>19, <2>2, TouchesLess, PortKept DEF Decide
<1>20. ASSUME NEW w \in Workers, EarlyReturns(w)
      PROVE  PortInv'
  BY <1>20, TouchesLess, PortKept DEF EarlyReturns
<1>21. ASSUME NEW w \in Workers, ReadReturns(w)
      PROVE  PortInv'
  <2>1. Touches(w, holds[w])
    BY <1>21 DEF ReadReturns, Touches, Released
  <2>2. \A r \in Requests : (\E i \in DOMAIN packets : packets[i].req = r)
                               => calls'[r] = calls[r]
    BY <1>0, <1>21, <2>1 DEF ReadReturns, Called
  <2> QED BY <1>21, <2>2, TouchesLess, PortKept DEF ReadReturns
<1>22. ASSUME NEW w \in Workers, WriteReturns(w)
      PROVE  PortInv'
  <2>1. Touches(w, holds[w])
    BY <1>22 DEF WriteReturns, Touches, Released
  <2>2. \A r \in Requests : (\E i \in DOMAIN packets : packets[i].req = r)
                               => overlapped'[r] = overlapped[r]
    BY <1>0, <1>22, <2>1 DEF WriteReturns
  <2> QED BY <1>22, <2>2, TouchesLess, PortKept DEF WriteReturns
<1>23. ASSUME NEW w \in Workers, CallbackThrows(w)
      PROVE  PortInv'
  <2>1. \A r \in Requests : (\E i \in DOMAIN packets : packets[i].req = r)
                               => io'[r] = io[r]
    BY <1>0, <1>23 DEF CallbackThrows, Cancel
  <2> QED BY <1>23, <2>1, TouchesLess, PortKept DEF CallbackThrows
<1>24. ASSUME NEW r \in Requests, Complete(r)
      PROVE  PortInv'
  <2>1. \A i \in DOMAIN packets : packets[i].req # r
    BY <1>0, <1>24 DEF Complete
  <2>2. /\ \A q \in Requests \ {r} : io'[q] = io[q]
        /\ io'[r] = "over"
        /\ UNCHANGED <<overlapped, calls, doing, holds, result>>
    BY <1>24 DEF Complete, IInv, TypeOK
  <2>3. CASE packets' = packets
    BY <2>1, <2>2, <2>3, PortKept DEF Touches, Released
  <2>4. CASE packets' # packets
    <3>1. /\ io[r] \in {"flying", "cancelled"}
          /\ \E res \in Results : packets' = Append(packets, Packet("native", r, res))
      BY <1>24, <2>4 DEF Complete, ResultsOf, Results
    <3>2. PICK res \in Results : packets' = Append(packets, Packet("native", r, res))
      BY <3>1
    <3>3. /\ Packet("native", r, res) \in Packets
          /\ Packet("native", r, res).req = r /\ Packet("native", r, res).key = "native"
      BY DEF Packet, Packets
    <3>4. overlapped[r] = "live" /\ calls[r] = 0
      BY <3>1 DEF IInv, OwnerInv, KernelInv, InFlight
    <3>5. \A v \in Workers : ~Touches(v, r)
      BY <3>1, WorkerKnows DEF Touches, IInv, OwnerInv, WorkerInv
    <3> HIDE <1>24
    <3> QED BY <2>1, <2>2, <3>2, <3>3, <3>4, <3>5, PortGrows DEF Touches, Released
  <2> QED BY <2>3, <2>4
<1>25. ASSUME NEW f \in Files, CloseFile(f)
      PROVE  PortInv'
  BY <1>25, PortKept DEF CloseFile, Answered, Touches, Released
<1>26. ASSUME NEW f \in Files, OpenFile(f)
      PROVE  PortInv'
  BY <1>26, PortKept DEF OpenFile, Touches, Released
<1> QED
  BY <1>1, <1>2, <1>3, <1>4, <1>5, <1>6, <1>7, <1>8, <1>9, <1>10,
     <1>11, <1>12, <1>13, <1>14, <1>15, <1>16, <1>17, <1>18, <1>19,
     <1>20, <1>21, <1>22, <1>23, <1>24, <1>25, <1>26
     DEF Next, RequestStep, StopStep, WorkerStep

\* A step keeps what is known of the file of each request.
LEMMA FilesStep ==
  ASSUME IInv, Next  PROVE FilesInv'
<1> USE ServiceAssumption DEF IInv, TypeOK, OwnerInv, CallersInv, FilesInv, Making, Threads,
        serviceVars, fileVars, requestVars, workerVars, callerVars, stopVars
<1>1. ASSUME NEW c \in Clients, StartServing(c)
      PROVE  FilesInv'
  BY <1>1 DEF StartServing, At
<1>2. ASSUME NEW c \in Clients, CreatePort(c)
      PROVE  FilesInv'
  BY <1>2 DEF CreatePort, At
<1>3. ASSUME NEW c \in Clients, NEW w \in Workers, SpawnWorker(c, w)
      PROVE  FilesInv'
  BY <1>3 DEF SpawnWorker, At
<1>4. ASSUME NEW a \in Threads, NEW r \in Requests, NEW f \in Files, Request(a, r, f)
      PROVE  FilesInv'
  BY <1>4 DEF Request, MayCall, At
<1>5. ASSUME NEW a \in Threads, AddFile(a)
      PROVE  FilesInv'
  <2>1. arg[a] \in Requests /\ target[arg[a]] \in Files /\ overlapped[arg[a]] = "none"
    BY <1>5 DEF AddFile
  <2>2. CASE handle[target[arg[a]]] = "open"
    <3>1. /\ handle' = [handle EXCEPT ![target[arg[a]]] = IF port = "open" THEN "linked"
                                                                          ELSE "astray"]
          /\ owned' = [owned EXCEPT ![target[arg[a]]] = TRUE]
          /\ pc' = [pc EXCEPT ![a] = "count"]
          /\ UNCHANGED <<arg, target, overlapped, port>>
      BY <1>5, <2>2 DEF AddFile, At
    <3>2. /\ handle'[target[arg[a]]] \in {"linked", "astray"}
          /\ handle'[target[arg[a]]] = "linked" => port = "open"
          /\ \A f \in Files \ {target[arg[a]]} : handle'[f] = handle[f]
          /\ \A f \in Files : owned[f] => owned'[f]
          /\ owned'[target[arg[a]]]
      BY <2>1, <3>1
    <3> HIDE <1>5
    <3> QED BY <2>1, <3>1, <3>2
  <2>3. CASE handle[target[arg[a]]] # "open"
    <3>1. /\ pc' = [pc EXCEPT ![a] = "out"] /\ arg' = [arg EXCEPT ![a] = None]
          /\ target' = [target EXCEPT ![arg[a]] = None]
          /\ UNCHANGED <<handle, owned, overlapped, port>>
      BY <1>5, <2>3 DEF AddFile, Throw, At
    <3>2. \A b \in Threads \ {a} : pc[b] \in Making => arg[b] # arg[a]
      BY <2>1
    <3> HIDE <1>5
    <3> QED BY <2>1, <3>1, <3>2
  <2> QED BY <2>2, <2>3
<1>6. ASSUME NEW a \in Threads, CountUp(a)
      PROVE  FilesInv'
  BY <1>6 DEF CountUp, At
<1>7. ASSUME NEW a \in Threads, Post(a)
      PROVE  FilesInv'
  BY <1>7 DEF Post, Throw, At, Packet
<1>8. ASSUME NEW a \in Threads, Shutdown(a)
      PROVE  FilesInv'
  BY <1>8 DEF Shutdown, MayCall, At, Counted
<1>9. ASSUME NEW a \in Threads, PostShutdown(a)
      PROVE  FilesInv'
  BY <1>9 DEF PostShutdown, At, ShutdownPacket, Packet
<1>10. ASSUME NEW a \in Threads, Join(a)
      PROVE  FilesInv'
  BY <1>10 DEF Join, At
<1>11. ASSUME NEW a \in Threads, Drain(a)
      PROVE  FilesInv'
  <2>1. \A r \in Requests : overlapped[r] = "none" => overlapped'[r] = "none"
    BY <1>11, DrainTakes, OldestAlone DEF PortInv
  <2>2. \E place \in {"store", "abort"} : pc' = [pc EXCEPT ![a] = place]
    BY <1>11, DrainTakes
  <2> QED BY <1>11, <2>1, <2>2 DEF Drain
<1>12. ASSUME NEW a \in Threads, StorePending(a)
      PROVE  FilesInv'
  BY <1>12 DEF StorePending, At
<1>13. ASSUME NEW a \in Threads, ClosePort(a)
      PROVE  FilesInv'
  BY <1>13 DEF ClosePort, At
<1>14. ASSUME NEW w \in Workers, TakeShutdown(w)
      PROVE  FilesInv'
  BY <1>14 DEF TakeShutdown, Dequeues, Goes, Cancel
<1>15. ASSUME NEW w \in Workers, Abandoned(w)
      PROVE  FilesInv'
  BY <1>15 DEF Abandoned, Goes, Cancel
<1>16. ASSUME NEW w \in Workers, NEW r \in Requests, TakeRequest(w, r)
      PROVE  FilesInv'
  BY <1>16 DEF TakeRequest, Dequeues, Goes, CountDown, Packet
<1>17. ASSUME NEW w \in Workers, NEW r \in Requests, TakeCompletion(w, r)
      PROVE  FilesInv'
  BY <1>17 DEF TakeCompletion, Dequeues, Goes, CountDown, Called, CaseOf, Packet
<1>18. ASSUME NEW w \in Workers, Submit(w)
      PROVE  FilesInv'
  BY <1>18 DEF Submit, Goes, Packet, ResultsOf
<1>19. ASSUME NEW w \in Workers, Decide(w)
      PROVE  FilesInv'
  BY <1>19 DEF Decide, Goes, Called
<1>20. ASSUME NEW w \in Workers, EarlyReturns(w)
      PROVE  FilesInv'
  BY <1>20 DEF EarlyReturns, Goes
<1>21. ASSUME NEW w \in Workers, ReadReturns(w)
      PROVE  FilesInv'
  BY <1>21 DEF ReadReturns, Goes, Called
<1>22. ASSUME NEW w \in Workers, WriteReturns(w)
      PROVE  FilesInv'
  BY <1>22, WorkerKnows DEF WriteReturns, Goes, Busy, InCallback
<1>23. ASSUME NEW w \in Workers, CallbackThrows(w)
      PROVE  FilesInv'
  BY <1>23 DEF CallbackThrows, Goes, Cancel, InCallback
<1>24. ASSUME NEW r \in Requests, Complete(r)
      PROVE  FilesInv'
  BY <1>24 DEF Complete, Packet, ResultsOf
<1>25. ASSUME NEW f \in Files, CloseFile(f)
      PROVE  FilesInv'
  BY <1>25 DEF CloseFile, Answered
<1>26. ASSUME NEW f \in Files, OpenFile(f)
      PROVE  FilesInv'
  BY <1>26 DEF OpenFile
<1> QED
  BY <1>1, <1>2, <1>3, <1>4, <1>5, <1>6, <1>7, <1>8, <1>9, <1>10,
     <1>11, <1>12, <1>13, <1>14, <1>15, <1>16, <1>17, <1>18, <1>19,
     <1>20, <1>21, <1>22, <1>23, <1>24, <1>25, <1>26
     DEF Next, RequestStep, StopStep, WorkerStep

\* A step closes the port, and leaves startServing, in the order the states allow.
LEMMA StateStep ==
  ASSUME IInv, Next  PROVE StateInv'
<1> USE ServiceAssumption DEF IInv, TypeOK, StateInv, FilesInv, InFlight, Making, Threads,
        serviceVars, fileVars, requestVars, workerVars, callerVars, stopVars
<1>1. ASSUME NEW c \in Clients, StartServing(c)
      PROVE  StateInv'
  BY <1>1 DEF StartServing, At
<1>2. ASSUME NEW c \in Clients, CreatePort(c)
      PROVE  StateInv'
  BY <1>2 DEF CreatePort, At
<1>3. ASSUME NEW c \in Clients, NEW w \in Workers, SpawnWorker(c, w)
      PROVE  StateInv'
  BY <1>3 DEF SpawnWorker, At
<1>4. ASSUME NEW a \in Threads, NEW r \in Requests, NEW f \in Files, Request(a, r, f)
      PROVE  StateInv'
  BY <1>4 DEF Request, MayCall, At
<1>5. ASSUME NEW a \in Threads, AddFile(a)
      PROVE  StateInv'
  BY <1>5 DEF AddFile, Throw, At
<1>6. ASSUME NEW a \in Threads, CountUp(a)
      PROVE  StateInv'
  BY <1>6 DEF CountUp, At
<1>7. ASSUME NEW a \in Threads, Post(a)
      PROVE  StateInv'
  BY <1>7 DEF Post, Throw, At, Packet
<1>8. ASSUME NEW a \in Threads, Shutdown(a)
      PROVE  StateInv'
  BY <1>8 DEF Shutdown, MayCall, At, Counted
<1>9. ASSUME NEW a \in Threads, PostShutdown(a)
      PROVE  StateInv'
  BY <1>9 DEF PostShutdown, At, ShutdownPacket, Packet
<1>10. ASSUME NEW a \in Threads, Join(a)
      PROVE  StateInv'
  BY <1>10 DEF Join, At
<1>11. ASSUME NEW a \in Threads, Drain(a)
      PROVE  StateInv'
  BY <1>11, DrainTakes, OldestAlone DEF Drain, At
<1>12. ASSUME NEW a \in Threads, StorePending(a)
      PROVE  StateInv'
  BY <1>12 DEF StorePending, At
<1>13. ASSUME NEW a \in Threads, ClosePort(a)
      PROVE  StateInv'
  BY <1>13 DEF ClosePort, At
<1>14. ASSUME NEW w \in Workers, TakeShutdown(w)
      PROVE  StateInv'
  BY <1>14 DEF TakeShutdown, Dequeues, Goes, Cancel
<1>15. ASSUME NEW w \in Workers, Abandoned(w)
      PROVE  StateInv'
  BY <1>15 DEF Abandoned, Goes, Cancel
<1>16. ASSUME NEW w \in Workers, NEW r \in Requests, TakeRequest(w, r)
      PROVE  StateInv'
  BY <1>16 DEF TakeRequest, Dequeues, Goes, CountDown, Packet
<1>17. ASSUME NEW w \in Workers, NEW r \in Requests, TakeCompletion(w, r)
      PROVE  StateInv'
  BY <1>17 DEF TakeCompletion, Dequeues, Goes, CountDown, Called, CaseOf, Packet
<1>18. ASSUME NEW w \in Workers, Submit(w)
      PROVE  StateInv'
  BY <1>18, WorkerKnows DEF Submit, Goes, Packet, ResultsOf, Busy
<1>19. ASSUME NEW w \in Workers, Decide(w)
      PROVE  StateInv'
  BY <1>19 DEF Decide, Goes, Called
<1>20. ASSUME NEW w \in Workers, EarlyReturns(w)
      PROVE  StateInv'
  BY <1>20 DEF EarlyReturns, Goes
<1>21. ASSUME NEW w \in Workers, ReadReturns(w)
      PROVE  StateInv'
  BY <1>21 DEF ReadReturns, Goes, Called
<1>22. ASSUME NEW w \in Workers, WriteReturns(w)
      PROVE  StateInv'
  BY <1>22, WorkerKnows DEF WriteReturns, Goes, Busy, InCallback
<1>23. ASSUME NEW w \in Workers, CallbackThrows(w)
      PROVE  StateInv'
  BY <1>23 DEF CallbackThrows, Goes, Cancel, InCallback
<1>24. ASSUME NEW r \in Requests, Complete(r)
      PROVE  StateInv'
  BY <1>24 DEF Complete, Packet, ResultsOf
<1>25. ASSUME NEW f \in Files, CloseFile(f)
      PROVE  StateInv'
  BY <1>25 DEF CloseFile, Answered
<1>26. ASSUME NEW f \in Files, OpenFile(f)
      PROVE  StateInv'
  BY <1>26 DEF OpenFile
<1> QED
  BY <1>1, <1>2, <1>3, <1>4, <1>5, <1>6, <1>7, <1>8, <1>9, <1>10,
     <1>11, <1>12, <1>13, <1>14, <1>15, <1>16, <1>17, <1>18, <1>19,
     <1>20, <1>21, <1>22, <1>23, <1>24, <1>25, <1>26
     DEF Next, RequestStep, StopStep, WorkerStep

\* A step takes no request out of all hands.
LEMMA HeldStep ==
  ASSUME IInv, Next  PROVE HeldInv'
<1> SUFFICES ASSUME NEW q \in Requests,
                    state' = "started", overlapped'[q] = "live", calls'[q] = 0
             PROVE  InHands(q)'
  BY DEF HeldInv
<1>0. /\ packets \in Seq(Packets)
      /\ state = "started" /\ overlapped[q] = "live" /\ calls[q] = 0 => InHands(q)
  BY DEF IInv, TypeOK, HeldInv
<1> USE DEF InHands, InFlight
<1>1. ASSUME NEW c \in Clients, StartServing(c)
      PROVE  InHands(q)'
  BY <1>1, <1>0 DEF StartServing, At, Touches, Released, Threads, serviceVars, fileVars, requestVars, workerVars, callerVars, stopVars, IInv, TypeOK, StateInv
<1>2. ASSUME NEW c \in Clients, CreatePort(c)
      PROVE  InHands(q)'
  BY <1>2, <1>0 DEF CreatePort, At, Touches, Released, Threads, serviceVars, fileVars, requestVars, workerVars, callerVars, stopVars, IInv, TypeOK, StateInv
<1>3. ASSUME NEW c \in Clients, NEW w \in Workers, SpawnWorker(c, w)
      PROVE  InHands(q)'
  BY <1>3, <1>0 DEF SpawnWorker, At, Touches, Released, Threads, serviceVars, fileVars, requestVars, workerVars, callerVars, stopVars, IInv, TypeOK, StateInv
<1>4. ASSUME NEW a \in Threads, NEW r \in Requests, NEW f \in Files, Request(a, r, f)
      PROVE  InHands(q)'
  BY <1>4, <1>0 DEF Request, MayCall, At, Touches, Released, Threads, serviceVars, fileVars, requestVars, workerVars, callerVars, stopVars, IInv, TypeOK, StateInv
<1>5. ASSUME NEW a \in Threads, AddFile(a)
      PROVE  InHands(q)'
  <2>1. /\ arg[a] \in Requests /\ target[arg[a]] \in Files /\ overlapped[arg[a]] = "none"
        /\ UNCHANGED <<state, overlapped, calls, packets, doing, holds, result, io>>
        /\ \A b \in Threads : pc[b] = "post" => pc'[b] = "post" /\ arg'[b] = arg[b]
    BY <1>5 DEF AddFile, Throw, At, serviceVars, workerVars, IInv, TypeOK, FilesInv, OwnerInv,
           CallersInv, Making
  <2>2. target'[q] = target[q]
    BY <1>5, <2>1 DEF AddFile, IInv, TypeOK
  <2>3. handle[target[q]] # "linked" => handle'[target[q]] # "linked"
    <3>1. target[q] = target[arg[a]] /\ handle[target[arg[a]]] = "open" => FALSE
      BY <1>5, <2>1 DEF AddFile, IInv, FilesInv
    <3> QED BY <1>5, <2>1, <3>1 DEF AddFile, fileVars, IInv, TypeOK, FilesInv
  <2> QED BY <1>0, <2>1, <2>2, <2>3 DEF Touches, Released
<1>6. ASSUME NEW a \in Threads, CountUp(a)
      PROVE  InHands(q)'
  BY <1>6, <1>0 DEF CountUp, At, Touches, Released, Threads, serviceVars, fileVars, requestVars, workerVars, callerVars, stopVars, IInv, TypeOK, StateInv
<1>7. ASSUME NEW a \in Threads, Post(a)
      PROVE  InHands(q)'
  <2>1. /\ UNCHANGED <<state, calls, doing, holds, result, io, target, handle>>
        /\ \A b \in Threads \ {a} : pc[b] = "post" => pc'[b] = "post" /\ arg'[b] = arg[b]
    BY <1>7 DEF Post, Throw, At, workerVars, fileVars, IInv, TypeOK
  <2>2. Packet("server", arg[a], "ok") \in Packets
    BY <1>7 DEF Post, Packet, Packets, Results, IInv, OwnerInv, CallersInv, Making
  <2>3. CASE packets' = packets /\ overlapped' = [overlapped EXCEPT ![arg[a]] = "refused"]
    <3>1. arg[a] # q /\ overlapped[q] = "live"
      BY <2>3 DEF IInv, TypeOK
    <3> QED BY <1>0, <2>1, <2>3, <3>1 DEF Touches, Released
  <2>4. CASE /\ packets' = Append(packets, Packet("server", arg[a], "ok"))
             /\ UNCHANGED overlapped
    <3>1. /\ \A i \in DOMAIN packets : i \in DOMAIN packets' /\ packets'[i] = packets[i]
          /\ \E i \in DOMAIN packets' : packets'[i].req = arg[a]
      BY <1>0, <2>2, <2>4, Posted DEF Packet
    <3> QED BY <1>0, <2>1, <2>4, <3>1 DEF Touches, Released
  <2> QED BY <1>7, <2>3, <2>4 DEF Post
<1>8. ASSUME NEW a \in Threads, Shutdown(a)
      PROVE  InHands(q)'
  BY <1>8, <1>0 DEF Shutdown, MayCall, At, Counted, Touches, Released, Threads, serviceVars, fileVars, requestVars, workerVars, callerVars, stopVars, IInv, TypeOK, StateInv
<1>9. ASSUME NEW a \in Threads, PostShutdown(a)
      PROVE  InHands(q)'
  BY <1>9, <1>0 DEF PostShutdown, At, ShutdownPacket, Packet, Touches, Released, Threads, serviceVars, fileVars, requestVars, workerVars, callerVars, stopVars, IInv, TypeOK, StateInv
<1>10. ASSUME NEW a \in Threads, Join(a)
      PROVE  InHands(q)'
  BY <1>10, <1>0 DEF Join, At, Touches, Released, Threads, serviceVars, fileVars, requestVars, workerVars, callerVars, stopVars, IInv, TypeOK, StateInv
<1>11. ASSUME NEW a \in Threads, Drain(a)
      PROVE  InHands(q)'
  BY <1>11, <1>0 DEF Drain, At, Touches, Released, Threads, serviceVars, fileVars, requestVars, workerVars, callerVars, stopVars, IInv, TypeOK, StateInv
<1>12. ASSUME NEW a \in Threads, StorePending(a)
      PROVE  InHands(q)'
  BY <1>12, <1>0 DEF StorePending, At, Touches, Released, Threads, serviceVars, fileVars, requestVars, workerVars, callerVars, stopVars, IInv, TypeOK, StateInv
<1>13. ASSUME NEW a \in Threads, ClosePort(a)
      PROVE  InHands(q)'
  BY <1>13, <1>0 DEF ClosePort, At, Touches, Released, Threads, serviceVars, fileVars, requestVars, workerVars, callerVars, stopVars, IInv, TypeOK, StateInv
<1>14. ASSUME NEW w \in Workers, TakeShutdown(w)
      PROVE  InHands(q)'
  <2>1. /\ packets # <<>> /\ packets' = Tail(packets) /\ packets[1].req # q
        /\ holds[w] \notin Requests
    BY <1>0, <1>14, Taken, ServiceAssumption DEF TakeShutdown, Dequeues, ShutdownPacket, Packet,
           IInv, OwnerInv, WorkerInv, Busy, InCallback
  <2>2. \A i \in DOMAIN packets : packets[i].req = q => \E j \in DOMAIN packets' : packets'[j].req = q
    BY <2>1, OldestAlone
  <2>3. /\ UNCHANGED <<state, overlapped, calls, target, handle, pc, arg, result>>
        /\ \A v \in Workers \ {w} : doing'[v] = doing[v] /\ holds'[v] = holds[v]
        /\ InFlight(q) => io'[q] \in {"flying", "cancelled"}
    BY <1>14 DEF TakeShutdown, Goes, Cancel, fileVars, callerVars, IInv, TypeOK
  <2> QED BY <1>0, <2>1, <2>2, <2>3 DEF Touches, Released
<1>15. ASSUME NEW w \in Workers, Abandoned(w)
      PROVE  InHands(q)'
  BY <1>15, <1>0 DEF Abandoned, Goes, Cancel, Touches, Released, Threads, serviceVars, fileVars, requestVars, workerVars, callerVars, stopVars, IInv, TypeOK, StateInv
<1>16. ASSUME NEW w \in Workers, NEW r \in Requests, TakeRequest(w, r)
      PROVE  InHands(q)'
  <2>1. packets # <<>> /\ packets' = Tail(packets) /\ packets[1].req = r
    BY <1>0, <1>16, Taken DEF TakeRequest, Dequeues, Packet
  <2>2. /\ UNCHANGED <<state, overlapped, calls, target, handle, pc, arg, result, io>>
        /\ \A v \in Workers \ {w} : doing'[v] = doing[v] /\ holds'[v] = holds[v]
        /\ doing[w] = "wait" /\ holds'[w] = r /\ doing'[w] = "submit"
    BY <1>16 DEF TakeRequest, Dequeues, Goes, fileVars, requestVars, callerVars, IInv, TypeOK
  <2>3. holds[w] \notin Requests
    BY <2>2 DEF IInv, OwnerInv, WorkerInv, Busy, InCallback
  <2>4. \A i \in DOMAIN packets : packets[i].req = q
          => q = r \/ \E j \in DOMAIN packets' : packets'[j].req = q
    BY <2>1, OldestAlone
  <2> QED BY <1>0, <2>2, <2>3, <2>4 DEF Touches, Released
<1>17. ASSUME NEW w \in Workers, NEW r \in Requests, TakeCompletion(w, r)
      PROVE  InHands(q)'
  <2>1. packets # <<>> /\ packets' = Tail(packets) /\ packets[1].req = r
    BY <1>0, <1>17, Taken DEF TakeCompletion, Dequeues, Packet
  <2>2. /\ UNCHANGED <<state, overlapped, target, handle, pc, arg, result, io>>
        /\ \A v \in Workers \ {w} : doing'[v] = doing[v] /\ holds'[v] = holds[v]
        /\ doing[w] = "wait" /\ calls' = [calls EXCEPT ![r] = @ + 1]
    BY <1>17 DEF TakeCompletion, Dequeues, Goes, Called, fileVars, callerVars, IInv, TypeOK
  <2>3. holds[w] \notin Requests
    BY <2>2 DEF IInv, OwnerInv, WorkerInv, Busy, InCallback
  <2>4. q # r /\ calls[q] = 0
    BY <2>2 DEF IInv, TypeOK
  <2>5. \A i \in DOMAIN packets : packets[i].req = q
          => \E j \in DOMAIN packets' : packets'[j].req = q
    BY <1>0, <2>1, <2>4, Taken, ZenonT(30)
  <2> QED BY <1>0, <2>2, <2>3, <2>4, <2>5 DEF Touches, Released
<1>18. ASSUME NEW w \in Workers, Submit(w)
      PROVE  InHands(q)'
  <2>1. holds[w] \in Requests /\ io[holds[w]] = "none"
    BY <1>18, WorkerKnows DEF Submit, Busy
  <2>2. /\ UNCHANGED <<state, overlapped, calls, target, handle, pc, arg>>
        /\ \A v \in Workers \ {w} :
             doing'[v] = doing[v] /\ holds'[v] = holds[v] /\ result'[v] = result[v]
        /\ holds'[w] = holds[w] /\ doing'[w] = "decide"
        /\ \A r \in Requests \ {holds[w]} : io'[r] = io[r]
    BY <1>18 DEF Submit, Goes, fileVars, callerVars, IInv, TypeOK
  <2>3. Packet("native", holds[w], "ok") \in Packets
    BY <2>1 DEF Packet, Packets, Results
  <2>4. \A i \in DOMAIN packets : i \in DOMAIN packets' /\ packets'[i] = packets[i]
    BY <1>0, <1>18, <2>3, Posted DEF Submit
  <2>5. CASE q # holds[w]
    BY <1>0, <2>2, <2>4, <2>5 DEF Touches, Released
  <2>6. CASE q = holds[w]
    <3>1. CASE handle[target[q]] # "linked"
      BY <2>2, <3>1
    <3>2. CASE handle[target[q]] = "linked" /\ completionQueued(result'[w])
      <4>1. PICK res \in ResultsOf(q) \union {"queued"} :
              /\ io' = [io EXCEPT ![q] = IF res # "queued" THEN "over" ELSE "flying"]
              /\ packets' = IF res = "ok" /\ ~Vista
                            THEN Append(packets, Packet("native", q, res)) ELSE packets
              /\ result' = [result EXCEPT ![w] = res]
        BY <1>18, <2>6, <3>2 DEF Submit
      <4>2. CASE res = "queued"
        BY <4>1, <4>2 DEF IInv, TypeOK
      <4>3. CASE res = "ok" /\ ~Vista
        <5>1. packets' = Append(packets, Packet("native", q, "ok"))
          BY <4>1, <4>3
        <5> QED BY <1>0, <2>3, <2>6, <5>1, Posted DEF Packet
      <4>4. result'[w] = res
        BY <4>1 DEF IInv, TypeOK
      <4> QED BY <3>2, <4>2, <4>3, <4>4 DEF completionQueued
    <3>3. CASE ~completionQueued(result'[w])
      BY <2>2, <2>6, <3>3 DEF Touches, Released, completionQueued
    <3> QED BY <3>1, <3>2, <3>3
  <2> QED BY <2>5, <2>6
<1>19. ASSUME NEW w \in Workers, Decide(w)
      PROVE  InHands(q)'
  BY <1>19, <1>0 DEF Decide, Goes, Called, Touches, Released, Threads, serviceVars, fileVars, requestVars, workerVars, callerVars, stopVars, IInv, TypeOK, StateInv
<1>20. ASSUME NEW w \in Workers, EarlyReturns(w)
      PROVE  InHands(q)'
  <2>1. q # holds[w]
    BY <1>20, WorkerKnows DEF EarlyReturns, requestVars, Busy, InCallback, CallsBy
  <2>2. /\ UNCHANGED <<state, overlapped, calls, target, handle, pc, arg, io, result, packets>>
        /\ \A v \in Workers \ {w} : doing'[v] = doing[v] /\ holds'[v] = holds[v]
    BY <1>20 DEF EarlyReturns, Goes, serviceVars, fileVars, requestVars, callerVars, IInv, TypeOK
  <2> QED BY <1>0, <2>1, <2>2 DEF Touches, Released
<1>21. ASSUME NEW w \in Workers, ReadReturns(w)
      PROVE  InHands(q)'
  BY <1>21, <1>0 DEF ReadReturns, Goes, Called, Touches, Released, Threads, serviceVars, fileVars, requestVars, workerVars, callerVars, stopVars, IInv, TypeOK, StateInv
<1>22. ASSUME NEW w \in Workers, WriteReturns(w)
      PROVE  InHands(q)'
  BY <1>22, <1>0 DEF WriteReturns, Goes, Touches, Released, Threads, serviceVars, fileVars, requestVars, workerVars, callerVars, stopVars, IInv, TypeOK, StateInv
<1>23. ASSUME NEW w \in Workers, CallbackThrows(w)
      PROVE  InHands(q)'
  <2>1. q # holds[w]
    BY <1>23, WorkerKnows DEF CallbackThrows, Busy, InCallback, CallsBy
  <2>2. /\ UNCHANGED <<state, overlapped, calls, target, handle, pc, arg, result, packets>>
        /\ \A v \in Workers \ {w} : doing'[v] = doing[v] /\ holds'[v] = holds[v]
        /\ InFlight(q) => io'[q] \in {"flying", "cancelled"}
    BY <1>23 DEF CallbackThrows, Goes, Cancel, serviceVars, fileVars, callerVars, IInv, TypeOK
  <2> QED BY <1>0, <2>1, <2>2 DEF Touches, Released
<1>24. ASSUME NEW r \in Requests, Complete(r)
      PROVE  InHands(q)'
  <2>1. /\ UNCHANGED <<state, overlapped, calls, target, handle, pc, arg, doing, holds, result>>
        /\ \A p \in Requests \ {r} : io'[p] = io[p]
    BY <1>24 DEF Complete, fileVars, workerVars, callerVars, IInv, TypeOK
  <2>2. \A res \in Results : Packet("native", r, res) \in Packets
    BY DEF Packet, Packets
  <2>3. packets' = packets \/ \E res \in Results : packets' = Append(packets, Packet("native", r, res))
    BY <1>24 DEF Complete, ResultsOf, Results
  <2>4. \A i \in DOMAIN packets : i \in DOMAIN packets' /\ packets'[i] = packets[i]
    BY <1>0, <2>2, <2>3, Posted
  <2>5. CASE q = r /\ InFlight(q)
    <3>1. port = "open"
      BY <2>1, <2>5 DEF IInv, TypeOK, StateInv
    <3>2. PICK res \in Results : packets' = Append(packets, Packet("native", r, res))
      BY <1>24, <2>5, <3>1 DEF Complete, ResultsOf, Results
    <3> QED BY <1>0, <2>2, <2>5, <3>2, Posted DEF Packet
  <2>6. CASE ~(q = r /\ InFlight(q))
    BY <1>0, <2>1, <2>4, <2>6 DEF Touches, Released
  <2> QED BY <2>5, <2>6
<1>25. ASSUME NEW f \in Files, CloseFile(f)
      PROVE  InHands(q)'
  BY <1>25, <1>0 DEF CloseFile, Answered, Touches, Released, Threads, serviceVars, fileVars, requestVars, workerVars, callerVars, stopVars, IInv, TypeOK, StateInv
<1>26. ASSUME NEW f \in Files, OpenFile(f)
      PROVE  InHands(q)'
  BY <1>26, <1>0 DEF OpenFile, Touches, Released, Threads, serviceVars, fileVars, requestVars, workerVars, callerVars, stopVars, IInv, TypeOK, StateInv
<1> QED
  BY <1>1, <1>2, <1>3, <1>4, <1>5, <1>6, <1>7, <1>8, <1>9, <1>10,
     <1>11, <1>12, <1>13, <1>14, <1>15, <1>16, <1>17, <1>18, <1>19,
     <1>20, <1>21, <1>22, <1>23, <1>24, <1>25, <1>26
     DEF Next, RequestStep, StopStep, WorkerStep

\* What the theorems about the service rest on.
THEOREM Invariance == Spec => []IInv
<1>1. IInv /\ [Next]_vars => IInv'
  <2>1. ASSUME IInv, UNCHANGED vars  PROVE IInv'
    <3> USE <2>1 DEF vars, serviceVars, fileVars, requestVars, workerVars, callerVars, stopVars,
               IInv, OwnerInv, InFlight, Touches, Released
    <3>1. TypeOK'
      BY DEF TypeOK
    <3>2. CallersInv' /\ PostingInv'
      BY DEF CallersInv, PostingInv
    <3>3. PortInv' /\ KernelInv'
      BY DEF PortInv, KernelInv
    <3>4. WorkerInv'
      BY DEF WorkerInv, CallsBy
    <3>5. FilesInv' /\ StateInv'
      BY DEF FilesInv, StateInv
    <3>6. HeldInv'
      BY DEF HeldInv, InHands
    <3> QED BY <3>1, <3>2, <3>3, <3>4, <3>5, <3>6
  <2> QED BY <2>1, TypeStep, CallersStep, PostingStep, PortStep, WorkersStep, KernelStep,
             FilesStep, StateStep, HeldStep DEF IInv, OwnerInv
<1> QED BY <1>1, InitIInv, PTL DEF Spec

\* Every field of the service, its port and its threads keeps its type, for any
\* number of threads, files and requests and every Env.
THEOREM ServiceTypeOK == Spec => []TypeOK
BY Invariance, PTL DEF IInv

\* How many there are who hold an OVERLAPPED_EX, when they exclude each other.
LEMMA HoldersCounted ==
  ASSUME IInv, NEW r \in Requests
  PROVE  /\ Holders(r) <= 1
         /\ Holders(r) = 1 => overlapped[r] = "live"
         /\ overlapped[r] = "live" /\ InHands(r) => Holders(r) = 1 \/ handle[target[r]] # "linked"
<1>1. ASSUME NEW S, NEW x \in S, \A y \in S : y = x  PROVE Cardinality(S) = 1
  <2>1. S = {x}
    BY <1>1
  <2> QED BY <2>1, FS_Singleton
<1>2. Cardinality({}) = 0
  BY FS_EmptySet
<1>3. /\ \A a, b \in Posting(r) : a = b
      /\ \A i, j \in InPort(r) : i = j
      /\ \A v, w \in Touching(r) : v = w
  BY DEF IInv, OwnerInv, CallersInv, PortInv, WorkerInv, Posting, InPort, Touching, Touches,
         Released
<1>4. /\ Posting(r) = {} \/ Cardinality(Posting(r)) = 1
      /\ InPort(r) = {} \/ Cardinality(InPort(r)) = 1
      /\ Touching(r) = {} \/ Cardinality(Touching(r)) = 1
  BY <1>1, <1>3
<1>5. /\ Posting(r) # {} =>
           overlapped[r] = "live" /\ InPort(r) = {} /\ Touching(r) = {} /\ ~InFlight(r)
      /\ InPort(r) # {} => overlapped[r] = "live" /\ Touching(r) = {} /\ ~InFlight(r)
      /\ InFlight(r) => overlapped[r] = "live"
  BY DEF IInv, OwnerInv, PostingInv, PortInv, KernelInv, Posting, InPort, Touching, Touches,
         Released, InFlight
<1>6. Touching(r) # {} => overlapped[r] = "live" /\ ~InFlight(r)
  BY DEF IInv, OwnerInv, WorkerInv, Touching, Touches, Released, InFlight
<1>7. InHands(r) => \/ Posting(r) # {} \/ InPort(r) # {} \/ Touching(r) # {} \/ InFlight(r)
                    \/ handle[target[r]] # "linked"
  BY DEF InHands, Posting, InPort, Touching, Touches, Released
<1> HIDE DEF Posting, InPort, Touching, InFlight
<1> QED BY <1>2, <1>4, <1>5, <1>6, <1>7 DEF Holders

\* OneOwner, for any number of requests, workers and threads, and whatever the
\* program and the system do.
THEOREM OneOwnerAlways == Spec => []OneOwner
<1>1. IInv => OneOwner
  BY HoldersCounted DEF OneOwner
<1> QED BY <1>1, Invariance, PTL

\* NoneForgotten, likewise.
THEOREM NoneForgottenEver == Spec => []NoneForgotten
<1>1. IInv => NoneForgotten
  BY HoldersCounted DEF NoneForgotten, IInv, HeldInv
<1> QED BY <1>1, Invariance, PTL

\* CallbackCount, likewise.
THEOREM CallbacksCounted == Spec => []CallbackCount
<1>1. IInv => CallbackCount
  <2>1. ASSUME IInv, NEW r \in Requests, calls[r] > 1, NEW w \in Workers, holds[w] = r,
               doing[w] = "early"
        PROVE  FALSE
    BY <2>1, WorkerKnows DEF Busy, InCallback, CallsBy
  <2> QED BY <2>1 DEF CallbackCount, IInv, OwnerInv, KernelInv
<1> QED BY <1>1, Invariance, PTL

-----------------------------------------------------------------------------
CarefulProgram == Env \subseteq {"nested", "reopen", "throw"}

Stopping == {"wake", "join", "drain", "store", "abort"}

\* startServing is one thread's; it has made the port before it starts workers.
StartInv ==
  /\ state = "none" => port = "null" /\ threads = {}
  /\ \A c \in Threads : pc[c] \in {"port", "spawn"} => state = "started"
  /\ \A c, d \in Threads :
       pc[c] \in {"port", "spawn"} /\ pc[d] \in {"port", "spawn"} => c = d
  /\ \A c \in Threads : pc[c] = "spawn" => port = "open"
  /\ \A w \in Workers : pc[w] \notin {"port", "spawn"}
  /\ state = "started" /\ ~Starting => threads = Workers /\ port = "open"
  /\ \A w \in Workers : doing[w] # "failed"

\* shutdown() is one thread's; it closes the port when no worker is left.
StopInv ==
  /\ \A a, b \in Threads : pc[a] \in Stopping /\ pc[b] \in Stopping => a = b
  /\ \A a \in Threads : pc[a] \in Stopping
       => state = "shutdown" /\ port = "open" /\ joins = Workers
  /\ \A w \in Workers : Alive(w) => port = "open"
  /\ \A a \in Threads : pc[a] \in {"drain", "store", "abort"}
       => \A w \in Workers : ~Alive(w)

AliveWorkers == {w \in Workers : Alive(w)}

\* What shutdown() has posted and will post is enough for the living workers.
Enough ==
  \A a \in Threads :
    /\ pc[a] = "wake" =>
         local > 0 /\ Cardinality(InPort(None)) + local >= Cardinality(AliveWorkers)
    /\ pc[a] = "join" => Cardinality(InPort(None)) >= Cardinality(AliveWorkers)

\* The requests that are still to be submitted.
Waiting ==
  {r \in Requests :
     \/ \E a \in Threads : pc[a] = "post" /\ arg[a] = r
     \/ \E i \in DOMAIN packets : packets[i].key = "server" /\ packets[i].req = r}

\* _pending counts no more than them, and will not when StorePending is done.
PendingInv ==
  /\ (\A a \in Threads : pc[a] # "store") => pending <= Cardinality(Waiting)
  /\ \A a \in Threads : pc[a] = "store" => local - 1 <= Cardinality(Waiting)

CInv == StartInv /\ StopInv /\ Enough /\ PendingInv

-----------------------------------------------------------------------------
(* Counting: the OP_SHUTDOWN packets, the living workers, the requests.     *)

\* Taking the oldest packet takes one OP_SHUTDOWN packet at most, posting
\* takes none.
LEMMA ShutdownPackets ==
  ASSUME IInv
  PROVE  /\ IsFiniteSet(InPort(None)) /\ Cardinality(InPort(None)) \in Nat
         /\ packets # <<>> /\ packets' = Tail(packets) =>
              /\ Cardinality(InPort(None)') \in Nat
              /\ Cardinality(InPort(None)') >= Cardinality(InPort(None)) - 1
              /\ packets[1].req # None
                   => Cardinality(InPort(None)') >= Cardinality(InPort(None))
         /\ \A p \in Packets : packets' = Append(packets, p) =>
              /\ Cardinality(InPort(None)') \in Nat
              /\ Cardinality(InPort(None)') >= Cardinality(InPort(None))
              /\ p.req = None
                   => Cardinality(InPort(None)') = Cardinality(InPort(None)) + 1
<1>1. packets \in Seq(Packets)
  BY DEF IInv, TypeOK
<1>2. ASSUME NEW s \in Seq(Packets), NEW S \in SUBSET DOMAIN s  PROVE IsFiniteSet(S)
  <2>1. DOMAIN s = 1 .. Len(s) /\ Len(s) \in Nat
    BY LenProperties
  <2>2. IsFiniteSet(1 .. Len(s))
    BY <2>1, FS_Interval
  <2> QED BY <2>1, <2>2, FS_Subset
<1>3. IsFiniteSet(InPort(None))
  BY <1>1, <1>2 DEF InPort
<1>4. Cardinality(InPort(None)) \in Nat
  BY <1>3, FS_CardinalityType
<1>5. ASSUME packets # <<>>, packets' = Tail(packets)
      PROVE  /\ Cardinality(InPort(None)') \in Nat
             /\ Cardinality(InPort(None)') >= Cardinality(InPort(None)) - 1
             /\ packets[1].req # None
                  => Cardinality(InPort(None)') >= Cardinality(InPort(None))
  <2> DEFINE S == InPort(None) \ {1}
             T == {i \in DOMAIN Tail(packets) : Tail(packets)[i].req = None}
             f == [i \in S |-> i - 1]
  <2>1. /\ Tail(packets) \in Seq(Packets)
        /\ \A i \in DOMAIN packets :
             i = 1 \/ (i - 1 \in DOMAIN Tail(packets) /\ packets[i] = Tail(packets)[i - 1])
        /\ \A i \in DOMAIN packets : i \in Nat
    BY <1>1, <1>5, Taken, LenProperties
  <2>2. T = InPort(None)'
    BY <1>5 DEF InPort
  <2>3. IsFiniteSet(T)
    BY <1>2, <2>1
  <2>4. f \in [S -> T] /\ \A i, j \in S : f[i] = f[j] => i = j
    BY <2>1 DEF InPort
  <2>5. f \in Injection(S, T)
    BY <2>4 DEF Injection, IsInjective
  <2> HIDE DEF f, T
  <2>6. Cardinality(S) <= Cardinality(T)
    BY <2>3, <2>5, FS_Injection
  <2>7. Cardinality(S) = IF 1 \in InPort(None) THEN Cardinality(InPort(None)) - 1
                                               ELSE Cardinality(InPort(None))
    BY <1>3, FS_RemoveElement
  <2>8. packets[1].req # None => 1 \notin InPort(None)
    BY DEF InPort
  <2>9. Cardinality(T) \in Nat
    BY <2>3, FS_CardinalityType
  <2> HIDE DEF S
  <2> QED BY <1>4, <2>2, <2>6, <2>7, <2>8, <2>9
<1>6. ASSUME NEW p \in Packets, packets' = Append(packets, p)
      PROVE  /\ Cardinality(InPort(None)') \in Nat
             /\ Cardinality(InPort(None)') >= Cardinality(InPort(None))
             /\ p.req = None
                  => Cardinality(InPort(None)') = Cardinality(InPort(None)) + 1
  <2>1. InPort(None)' = IF p.req = None THEN InPort(None) \union {Len(packets) + 1}
                                        ELSE InPort(None)
    BY <1>1, <1>6, Posted DEF InPort
  <2>2. Len(packets) + 1 \notin InPort(None)
    BY <1>1, <1>6, Posted DEF InPort
  <2>3. Cardinality(InPort(None) \union {Len(packets) + 1}) = Cardinality(InPort(None)) + 1
    BY <1>3, <2>2, FS_AddElement
  <2> QED BY <1>4, <2>1, <2>3
<1> QED BY <1>3, <1>4, <1>5, <1>6

\* A worker that ends is one less to wake.
LEMMA AliveCounted ==
  ASSUME IInv
  PROVE  /\ IsFiniteSet(AliveWorkers) /\ Cardinality(AliveWorkers) \in Nat
         /\ Cardinality(AliveWorkers) <= Cardinality(Workers)
         /\ Cardinality(Workers) \in Nat /\ Cardinality(AliveWorkers') \in Nat
         /\ AliveWorkers' \subseteq AliveWorkers =>
              Cardinality(AliveWorkers') <= Cardinality(AliveWorkers)
         /\ \A w \in AliveWorkers : AliveWorkers' \subseteq AliveWorkers \ {w} =>
              Cardinality(AliveWorkers') <= Cardinality(AliveWorkers) - 1
<1>1. IsFiniteSet(Workers) /\ AliveWorkers \subseteq Workers
  BY ServiceAssumption DEF AliveWorkers
<1>2. IsFiniteSet(AliveWorkers) /\ Cardinality(AliveWorkers) <= Cardinality(Workers)
  BY <1>1, FS_Subset
<1>3. Cardinality(AliveWorkers) \in Nat /\ Cardinality(Workers) \in Nat
  BY <1>1, <1>2, FS_CardinalityType
<1>6. Cardinality(AliveWorkers') \in Nat
  <2>1. AliveWorkers' \subseteq Workers
    BY DEF AliveWorkers
  <2> QED BY <1>1, <2>1, FS_Subset, FS_CardinalityType
<1>4. AliveWorkers' \subseteq AliveWorkers =>
        Cardinality(AliveWorkers') <= Cardinality(AliveWorkers)
  BY <1>2, FS_Subset
<1>5. ASSUME NEW w \in AliveWorkers, AliveWorkers' \subseteq AliveWorkers \ {w}
      PROVE  Cardinality(AliveWorkers') <= Cardinality(AliveWorkers) - 1
  <2>1. /\ IsFiniteSet(AliveWorkers \ {w})
        /\ Cardinality(AliveWorkers \ {w}) = Cardinality(AliveWorkers) - 1
    BY <1>2, <1>5, FS_RemoveElement
  <2>2. Cardinality(AliveWorkers') <= Cardinality(AliveWorkers \ {w})
    BY <1>5, <2>1, FS_Subset
  <2> QED BY <2>1, <2>2
<1> QED BY <1>2, <1>3, <1>4, <1>5, <1>6

\* A request that is submitted is one less to submit.
LEMMA WaitingCounted ==
  ASSUME IInv
  PROVE  /\ Cardinality(Waiting) \in Nat /\ Cardinality(Waiting') \in Nat
         /\ Cardinality(Waiting) > 0 => Waiting # {}
         /\ Waiting \subseteq Waiting' => Cardinality(Waiting') >= Cardinality(Waiting)
         /\ \A r : Waiting \ {r} \subseteq Waiting'
              => Cardinality(Waiting') >= Cardinality(Waiting) - 1
         /\ \A r \in Requests \ Waiting : Waiting \union {r} \subseteq Waiting'
              => Cardinality(Waiting') >= Cardinality(Waiting) + 1
<1>1. IsFiniteSet(Requests) /\ Waiting \subseteq Requests /\ Waiting' \subseteq Requests
  BY ServiceAssumption DEF Waiting
<1>2. IsFiniteSet(Waiting) /\ IsFiniteSet(Waiting')
  BY <1>1, FS_Subset
<1>3. Cardinality(Waiting) \in Nat /\ Cardinality(Waiting') \in Nat
  BY <1>2, FS_CardinalityType
<1>4. Cardinality(Waiting) > 0 => Waiting # {}
  BY FS_EmptySet
<1>5. Waiting \subseteq Waiting' => Cardinality(Waiting') >= Cardinality(Waiting)
  BY <1>2, <1>3, FS_Subset
<1>6. ASSUME NEW r, Waiting \ {r} \subseteq Waiting'
      PROVE  Cardinality(Waiting') >= Cardinality(Waiting) - 1
  <2>1. /\ IsFiniteSet(Waiting \ {r})
        /\ Cardinality(Waiting \ {r}) =
             IF r \in Waiting THEN Cardinality(Waiting) - 1 ELSE Cardinality(Waiting)
    BY <1>2, FS_RemoveElement
  <2>2. Cardinality(Waiting \ {r}) <= Cardinality(Waiting')
    BY <1>2, <1>6, FS_Subset
  <2> QED BY <1>3, <2>1, <2>2
<1>7. ASSUME NEW r \in Requests \ Waiting, Waiting \union {r} \subseteq Waiting'
      PROVE  Cardinality(Waiting') >= Cardinality(Waiting) + 1
  <2>1. Cardinality(Waiting \union {r}) = Cardinality(Waiting) + 1
    BY <1>2, <1>7, FS_AddElement
  <2>2. Cardinality(Waiting \union {r}) <= Cardinality(Waiting')
    BY <1>2, <1>7, FS_Subset
  <2> QED BY <1>3, <2>1, <2>2
<1> QED BY <1>3, <1>4, <1>5, <1>6, <1>7

-----------------------------------------------------------------------------
(* The initial state, and one lemma for each part of CInv.                  *)

\* The invariant holds when the service has been constructed.
LEMMA InitCInv == Init => CInv
<1> SUFFICES ASSUME Init  PROVE CInv
  OBVIOUS
<1>1. StartInv /\ StopInv
  BY DEF Init, StartInv, StopInv, Stopping, Alive, Threads
<1>2. Waiting = {}
  BY DEF Init, Waiting
<1>3. Enough /\ PendingInv
  BY <1>2, FS_EmptySet DEF Init, Enough, PendingInv
<1> QED BY <1>1, <1>3 DEF CInv

\* A step leaves startServing to one thread, and its workers to the open port.
LEMMA StartStep ==
  ASSUME IInv, CInv, CarefulProgram, Next  PROVE StartInv'
<1> USE ServiceAssumption DEF CInv, StartInv, IInv, TypeOK, StateInv, Threads, Starting,
        CarefulProgram, serviceVars, fileVars, requestVars, workerVars, callerVars, stopVars
<1>1. ASSUME NEW c \in Clients, StartServing(c)
      PROVE  StartInv'
  BY <1>1 DEF StartServing, At
<1>2. ASSUME NEW c \in Clients, CreatePort(c)
      PROVE  StartInv'
  BY <1>2 DEF CreatePort, At
<1>3. ASSUME NEW c \in Clients, NEW w \in Workers, SpawnWorker(c, w)
      PROVE  StartInv'
  BY <1>3, SMTT(20) DEF SpawnWorker, At
<1>4. ASSUME NEW a \in Threads, NEW r \in Requests, NEW f \in Files, Request(a, r, f)
      PROVE  StartInv'
  BY <1>4 DEF Request, MayCall, At
<1>5. ASSUME NEW a \in Threads, AddFile(a)
      PROVE  StartInv'
  BY <1>5 DEF AddFile, Throw, At
<1>6. ASSUME NEW a \in Threads, CountUp(a)
      PROVE  StartInv'
  BY <1>6 DEF CountUp, At
<1>7. ASSUME NEW a \in Threads, Post(a)
      PROVE  StartInv'
  BY <1>7 DEF Post, Throw, At, Packet
<1>8. ASSUME NEW a \in Threads, Shutdown(a)
      PROVE  StartInv'
  <2>1. /\ \A c \in Threads : pc[c] \notin {"port", "spawn"}
        /\ state' = "shutdown" /\ pc[a] = "out"
        /\ UNCHANGED <<port, threads, doing>>
        /\ pc' = pc \/ \E place \in {"drain", "wake"} : pc' = [pc EXCEPT ![a] = place]
    BY <1>8, ZenonT(30) DEF Shutdown, MayCall, At
  <2> HIDE <1>8
  <2> QED BY <2>1
<1>9. ASSUME NEW a \in Threads, PostShutdown(a)
      PROVE  StartInv'
  BY <1>9 DEF PostShutdown, At, ShutdownPacket, Packet
<1>10. ASSUME NEW a \in Threads, Join(a)
      PROVE  StartInv'
  BY <1>10 DEF Join, At
<1>11. ASSUME NEW a \in Threads, Drain(a)
      PROVE  StartInv'
  BY <1>11, DrainTakes DEF Drain, At
<1>12. ASSUME NEW a \in Threads, StorePending(a)
      PROVE  StartInv'
  BY <1>12 DEF StorePending, At
<1>13. ASSUME NEW a \in Threads, ClosePort(a)
      PROVE  StartInv'
  BY <1>13 DEF ClosePort, At
<1>14. ASSUME NEW w \in Workers, TakeShutdown(w)
      PROVE  StartInv'
  BY <1>14 DEF TakeShutdown, Dequeues, Goes, Cancel
<1>15. ASSUME NEW w \in Workers, Abandoned(w)
      PROVE  StartInv'
  BY <1>15 DEF Abandoned, Goes, Cancel
<1>16. ASSUME NEW w \in Workers, NEW r \in Requests, TakeRequest(w, r)
      PROVE  StartInv'
  BY <1>16 DEF TakeRequest, Dequeues, Goes, CountDown, Packet
<1>17. ASSUME NEW w \in Workers, NEW r \in Requests, TakeCompletion(w, r)
      PROVE  StartInv'
  BY <1>17 DEF TakeCompletion, Dequeues, Goes, CountDown, Called, CaseOf, Packet
<1>18. ASSUME NEW w \in Workers, Submit(w)
      PROVE  StartInv'
  BY <1>18 DEF Submit, Goes, Packet, ResultsOf
<1>19. ASSUME NEW w \in Workers, Decide(w)
      PROVE  StartInv'
  BY <1>19 DEF Decide, Goes, Called
<1>20. ASSUME NEW w \in Workers, EarlyReturns(w)
      PROVE  StartInv'
  BY <1>20 DEF EarlyReturns, Goes
<1>21. ASSUME NEW w \in Workers, ReadReturns(w)
      PROVE  StartInv'
  BY <1>21 DEF ReadReturns, Goes, Called
<1>22. ASSUME NEW w \in Workers, WriteReturns(w)
      PROVE  StartInv'
  BY <1>22 DEF WriteReturns, Goes
<1>23. ASSUME NEW w \in Workers, CallbackThrows(w)
      PROVE  StartInv'
  BY <1>23 DEF CallbackThrows, Goes, Cancel, InCallback
<1>24. ASSUME NEW r \in Requests, Complete(r)
      PROVE  StartInv'
  BY <1>24 DEF Complete, Packet, ResultsOf
<1>25. ASSUME NEW f \in Files, CloseFile(f)
      PROVE  StartInv'
  BY <1>25 DEF CloseFile, Answered
<1>26. ASSUME NEW f \in Files, OpenFile(f)
      PROVE  StartInv'
  BY <1>26 DEF OpenFile
<1> QED
  BY <1>1, <1>2, <1>3, <1>4, <1>5, <1>6, <1>7, <1>8, <1>9, <1>10,
     <1>11, <1>12, <1>13, <1>14, <1>15, <1>16, <1>17, <1>18, <1>19,
     <1>20, <1>21, <1>22, <1>23, <1>24, <1>25, <1>26
     DEF Next, RequestStep, StopStep, WorkerStep

\* A step leaves shutdown() to one thread, with a port as long as a worker lives.
LEMMA StopStepInv ==
  ASSUME IInv, CInv, CarefulProgram, Next  PROVE StopInv'
<1> USE ServiceAssumption DEF CInv, StartInv, StopInv, IInv, TypeOK, Threads, Starting,
        CarefulProgram, Stopping, Alive, serviceVars, fileVars, requestVars, workerVars, callerVars, stopVars
<1>1. ASSUME NEW c \in Clients, StartServing(c)
      PROVE  StopInv'
  BY <1>1 DEF StartServing, At
<1>2. ASSUME NEW c \in Clients, CreatePort(c)
      PROVE  StopInv'
  BY <1>2 DEF CreatePort, At
<1>3. ASSUME NEW c \in Clients, NEW w \in Workers, SpawnWorker(c, w)
      PROVE  StopInv'
  BY <1>3 DEF SpawnWorker, At, StateInv
<1>4. ASSUME NEW a \in Threads, NEW r \in Requests, NEW f \in Files, Request(a, r, f)
      PROVE  StopInv'
  BY <1>4 DEF Request, MayCall, At
<1>5. ASSUME NEW a \in Threads, AddFile(a)
      PROVE  StopInv'
  BY <1>5 DEF AddFile, Throw, At
<1>6. ASSUME NEW a \in Threads, CountUp(a)
      PROVE  StopInv'
  BY <1>6 DEF CountUp, At
<1>7. ASSUME NEW a \in Threads, Post(a)
      PROVE  StopInv'
  BY <1>7 DEF Post, Throw, At, Packet
<1>8. ASSUME NEW a \in Threads, Shutdown(a)
      PROVE  StopInv'
  <2>1. /\ \A c \in Threads : pc[c] \notin {"port", "spawn"}
        /\ state' = "shutdown" /\ pc[a] = "out"
        /\ UNCHANGED <<port, threads, doing>>
        /\ pc' = pc \/ \E place \in {"drain", "wake"} : pc' = [pc EXCEPT ![a] = place]
    BY <1>8, ZenonT(30) DEF Shutdown, MayCall, At
  <2>2. CASE state = "started"
    <3>1. threads = Workers /\ port = "open" /\ joins' = Workers
      BY <1>8, <2>1, <2>2 DEF Shutdown, Counted
    <3>2. \A b \in Threads : pc[b] \notin Stopping
      BY <2>2
    <3>3. pc'[a] = "drain" => Workers = {}
      BY <1>8, <2>1, <2>2, <3>1 DEF Shutdown, At, Counted
    <3> HIDE <1>8
    <3> QED BY <2>1, <3>1, <3>2, <3>3
  <2>3. CASE state # "started"
    BY <1>8, <2>1, <2>3 DEF Shutdown
  <2> QED BY <2>2, <2>3
<1>9. ASSUME NEW a \in Threads, PostShutdown(a)
      PROVE  StopInv'
  <2>1. /\ \E place \in {"join", "wake", "out"} : pc' = [pc EXCEPT ![a] = place]
        /\ UNCHANGED <<state, port, joins, doing>> /\ pc[a] = "wake"
    BY <1>9 DEF PostShutdown, At
  <2> HIDE <1>9
  <2> QED BY <2>1
<1>10. ASSUME NEW a \in Threads, Join(a)
      PROVE  StopInv'
  BY <1>10 DEF Join, At, AllEnded
<1>11. ASSUME NEW a \in Threads, Drain(a)
      PROVE  StopInv'
  <2>1. /\ \E place \in {"store", "abort"} : pc' = [pc EXCEPT ![a] = place]
        /\ UNCHANGED <<state, port, joins, doing>> /\ pc[a] = "drain"
    BY <1>11, DrainTakes DEF Drain
  <2> HIDE <1>11
  <2> QED BY <2>1
<1>12. ASSUME NEW a \in Threads, StorePending(a)
      PROVE  StopInv'
  BY <1>12 DEF StorePending, At
<1>13. ASSUME NEW a \in Threads, ClosePort(a)
      PROVE  StopInv'
  BY <1>13 DEF ClosePort, At
<1>14. ASSUME NEW w \in Workers, TakeShutdown(w)
      PROVE  StopInv'
  BY <1>14 DEF TakeShutdown, Dequeues, Goes, Cancel
<1>15. ASSUME NEW w \in Workers, Abandoned(w)
      PROVE  StopInv'
  BY <1>15 DEF Abandoned, Goes, Cancel
<1>16. ASSUME NEW w \in Workers, NEW r \in Requests, TakeRequest(w, r)
      PROVE  StopInv'
  BY <1>16 DEF TakeRequest, Dequeues, Goes, CountDown, Packet
<1>17. ASSUME NEW w \in Workers, NEW r \in Requests, TakeCompletion(w, r)
      PROVE  StopInv'
  BY <1>17 DEF TakeCompletion, Dequeues, Goes, CountDown, Called, CaseOf, Packet
<1>18. ASSUME NEW w \in Workers, Submit(w)
      PROVE  StopInv'
  BY <1>18 DEF Submit, Goes, Packet, ResultsOf
<1>19. ASSUME NEW w \in Workers, Decide(w)
      PROVE  StopInv'
  BY <1>19 DEF Decide, Goes, Called
<1>20. ASSUME NEW w \in Workers, EarlyReturns(w)
      PROVE  StopInv'
  BY <1>20 DEF EarlyReturns, Goes
<1>21. ASSUME NEW w \in Workers, ReadReturns(w)
      PROVE  StopInv'
  BY <1>21 DEF ReadReturns, Goes, Called
<1>22. ASSUME NEW w \in Workers, WriteReturns(w)
      PROVE  StopInv'
  BY <1>22 DEF WriteReturns, Goes
<1>23. ASSUME NEW w \in Workers, CallbackThrows(w)
      PROVE  StopInv'
  BY <1>23 DEF CallbackThrows, Goes, Cancel, InCallback
<1>24. ASSUME NEW r \in Requests, Complete(r)
      PROVE  StopInv'
  BY <1>24 DEF Complete, Packet, ResultsOf
<1>25. ASSUME NEW f \in Files, CloseFile(f)
      PROVE  StopInv'
  BY <1>25 DEF CloseFile, Answered
<1>26. ASSUME NEW f \in Files, OpenFile(f)
      PROVE  StopInv'
  BY <1>26 DEF OpenFile
<1> QED
  BY <1>1, <1>2, <1>3, <1>4, <1>5, <1>6, <1>7, <1>8, <1>9, <1>10,
     <1>11, <1>12, <1>13, <1>14, <1>15, <1>16, <1>17, <1>18, <1>19,
     <1>20, <1>21, <1>22, <1>23, <1>24, <1>25, <1>26
     DEF Next, RequestStep, StopStep, WorkerStep

\* A step that takes no OP_SHUTDOWN packet away and no worker to life.
LEMMA EnoughKept ==
  ASSUME IInv, CInv,
         \/ packets' = packets
         \/ packets # <<>> /\ packets' = Tail(packets) /\ packets[1].req # None
         \/ \E p \in Packets : packets' = Append(packets, p),
         AliveWorkers' \subseteq AliveWorkers,
         \A a \in Threads : pc'[a] \in {"wake", "join"} => pc[a] = pc'[a] /\ local' = local
  PROVE  Enough'
<1>1. Cardinality(AliveWorkers)' <= Cardinality(AliveWorkers)
  BY AliveCounted
<1>2. Cardinality(InPort(None))' >= Cardinality(InPort(None))
  <2>1. CASE packets' = packets
    BY <2>1, ShutdownPackets DEF InPort
  <2>2. CASE packets # <<>> /\ packets' = Tail(packets) /\ packets[1].req # None
    BY <2>2, ShutdownPackets
  <2>3. CASE \E p \in Packets : packets' = Append(packets, p)
    BY <2>3, ShutdownPackets
  <2> QED BY <2>1, <2>2, <2>3
<1>3. Cardinality(AliveWorkers)' \in Nat /\ Cardinality(InPort(None))' \in Nat
  <2>1. packets' = packets => InPort(None)' = InPort(None)
    BY DEF InPort
  <2> QED BY <2>1, AliveCounted, ShutdownPackets
<1>4. Cardinality(AliveWorkers) \in Nat /\ Cardinality(InPort(None)) \in Nat
  BY AliveCounted, ShutdownPackets
<1>5. local \in Int
  BY DEF IInv, TypeOK
<1> QED BY <1>1, <1>2, <1>3, <1>4, <1>5 DEF Enough, CInv

\* A step takes no packet from shutdown() that a living worker still needs.
LEMMA EnoughStep ==
  ASSUME IInv, CInv, CarefulProgram, Next  PROVE Enough'
<1>0. /\ packets \in Seq(Packets) /\ pc \in [Threads -> {"out", "port", "spawn", "add",
                "count", "post", "wake", "join", "drain", "store", "abort"}]
      /\ None \notin Requests
  BY ServiceAssumption DEF IInv, TypeOK
<1> USE DEF Threads
<1>1. ASSUME NEW c \in Clients, StartServing(c)
      PROVE  Enough'
  BY <1>1, <1>0, EnoughKept DEF StartServing, At, AliveWorkers, Alive, stopVars, callerVars, workerVars, serviceVars, requestVars, IInv, TypeOK
<1>2. ASSUME NEW c \in Clients, CreatePort(c)
      PROVE  Enough'
  BY <1>2, <1>0, EnoughKept DEF CreatePort, At, AliveWorkers, Alive, stopVars, callerVars, workerVars, serviceVars, requestVars, IInv, TypeOK
<1>3. ASSUME NEW c \in Clients, NEW w \in Workers, SpawnWorker(c, w)
      PROVE  Enough'
  <2>1. \A a \in Threads : pc[a] \notin Stopping
    BY <1>3 DEF SpawnWorker, CInv, StartInv, StopInv
  <2>2. \A a \in Threads : pc'[a] \notin {"wake", "join"}
    BY <1>0, <1>3, <2>1 DEF SpawnWorker, At, Stopping
  <2> QED BY <2>2 DEF Enough
<1>4. ASSUME NEW a \in Threads, NEW r \in Requests, NEW f \in Files, Request(a, r, f)
      PROVE  Enough'
  BY <1>4, <1>0, EnoughKept DEF Request, MayCall, At, AliveWorkers, Alive, stopVars, callerVars, workerVars, serviceVars, requestVars, IInv, TypeOK
<1>5. ASSUME NEW a \in Threads, AddFile(a)
      PROVE  Enough'
  BY <1>5, <1>0, EnoughKept DEF AddFile, Throw, At, AliveWorkers, Alive, stopVars, callerVars, workerVars, serviceVars, requestVars, IInv, TypeOK
<1>6. ASSUME NEW a \in Threads, CountUp(a)
      PROVE  Enough'
  BY <1>6, <1>0, EnoughKept DEF CountUp, At, AliveWorkers, Alive, stopVars, callerVars, workerVars, serviceVars, requestVars, IInv, TypeOK
<1>7. ASSUME NEW a \in Threads, Post(a)
      PROVE  Enough'
  <2>1. Packet("server", arg[a], "ok") \in Packets
    BY <1>7 DEF Post, Packet, Packets, Results, IInv, OwnerInv, CallersInv, Making
  <2> QED BY <1>0, <1>7, <2>1, EnoughKept DEF Post, Throw, At, AliveWorkers, Alive, stopVars,
             workerVars
<1>8. ASSUME NEW a \in Threads, Shutdown(a)
      PROVE  Enough'
  <2>1. /\ UNCHANGED <<packets, doing>>
        /\ \A c \in Threads : pc[c] \notin {"port", "spawn"}
    BY <1>8, ServiceAssumption DEF Shutdown, MayCall, CarefulProgram, workerVars, Starting,
           CInv, StartInv
  <2>2. CASE state = "started"
    <3>1. /\ threads = Workers /\ local' = Cardinality(Workers)
          /\ pc' = [pc EXCEPT ![a] = IF Workers = {} THEN "drain" ELSE "wake"]
      BY <1>8, <2>1, <2>2 DEF Shutdown, At, Counted, CInv, StartInv, Starting
    <3>2. \A b \in Threads : pc[b] \notin Stopping
      BY <2>2 DEF CInv, StopInv
    <3>3. \A b \in Threads : pc'[b] # "join" /\ (pc'[b] = "wake" => Workers # {})
      BY <1>0, <3>1, <3>2 DEF Stopping
    <3>4. Workers # {} => Cardinality(Workers) > 0
      BY ServiceAssumption, FS_EmptySet, AliveCounted
    <3>5. InPort(None)' = InPort(None) /\ AliveWorkers' = AliveWorkers
      BY <2>1 DEF InPort, AliveWorkers, Alive
    <3> QED BY <3>1, <3>3, <3>4, <3>5, AliveCounted, ShutdownPackets DEF Enough
  <2>3. CASE state # "started"
    BY <1>8, <2>1, <2>3, EnoughKept DEF Shutdown, stopVars, AliveWorkers, Alive
  <2> QED BY <2>2, <2>3
<1>9. ASSUME NEW a \in Threads, PostShutdown(a)
      PROVE  Enough'
  <2>1. /\ UNCHANGED doing /\ pc[a] = "wake" /\ port = "open"
        /\ \A b \in Threads : pc[b] \in Stopping => b = a
    BY <1>9 DEF PostShutdown, workerVars, CInv, StopInv, Stopping
  <2>2. /\ packets' = Append(packets, ShutdownPacket) /\ local' = local - 1
        /\ pc' = [pc EXCEPT ![a] = IF local = 1 THEN "join" ELSE "wake"]
    BY <1>9, <2>1 DEF PostShutdown, At, LastRound, CarefulProgram
  <2>3. ShutdownPacket \in Packets /\ ShutdownPacket.req = None
    BY DEF ShutdownPacket, Packet, Packets, Results
  <2>4. Cardinality(InPort(None))' = Cardinality(InPort(None)) + 1
    BY <2>2, <2>3, ShutdownPackets
  <2>5. AliveWorkers' = AliveWorkers
    BY <2>1 DEF AliveWorkers, Alive
  <2>6. local > 0 /\ Cardinality(InPort(None)) + local >= Cardinality(AliveWorkers)
    BY <2>1 DEF CInv, Enough
  <2>7. \A b \in Threads : pc'[b] \in {"wake", "join"} => b = a
    BY <1>0, <2>1, <2>2 DEF Stopping
  <2>8. pc'[a] = IF local = 1 THEN "join" ELSE "wake"
    BY <1>0, <2>2
  <2>9. local \in Int
    BY DEF IInv, TypeOK
  <2> HIDE <1>9
  <2> QED BY <2>2, <2>4, <2>5, <2>6, <2>7, <2>8, <2>9, AliveCounted, ShutdownPackets DEF Enough
<1>10. ASSUME NEW a \in Threads, Join(a)
      PROVE  Enough'
  <2>1. \A b \in Threads : pc'[b] \in {"wake", "join"} => pc[b] = pc'[b]
    BY <1>0, <1>10 DEF Join, At
  <2> QED BY <1>10, <2>1, EnoughKept DEF Join, AliveWorkers, Alive, stopVars, serviceVars,
             workerVars
<1>11. ASSUME NEW a \in Threads, Drain(a)
      PROVE  Enough'
  <2>1. /\ \A b \in Threads : pc[b] \in Stopping => b = a
        /\ \E place \in {"store", "abort"} : pc' = [pc EXCEPT ![a] = place]
    BY <1>11, DrainTakes DEF Drain, CInv, StopInv, Stopping
  <2>2. \A b \in Threads : pc'[b] \notin {"wake", "join"}
    BY <1>0, <2>1 DEF Stopping
  <2> QED BY <2>2 DEF Enough
<1>12. ASSUME NEW a \in Threads, StorePending(a)
      PROVE  Enough'
  <2>1. /\ \A b \in Threads : pc[b] \in Stopping => b = a
        /\ pc' = [pc EXCEPT ![a] = "drain"]
    BY <1>12 DEF StorePending, At, CInv, StopInv, Stopping
  <2>2. \A b \in Threads : pc'[b] \notin {"wake", "join"}
    BY <1>0, <2>1 DEF Stopping
  <2> QED BY <2>2 DEF Enough
<1>13. ASSUME NEW a \in Threads, ClosePort(a)
      PROVE  Enough'
  <2>1. /\ \A b \in Threads : pc[b] \in Stopping => b = a
        /\ pc' = [pc EXCEPT ![a] = "out"]
    BY <1>13 DEF ClosePort, At, CInv, StopInv, Stopping
  <2>2. \A b \in Threads : pc'[b] \notin {"wake", "join"}
    BY <1>0, <2>1 DEF Stopping
  <2> QED BY <2>2 DEF Enough
<1>14. ASSUME NEW w \in Workers, TakeShutdown(w)
      PROVE  Enough'
  <2>1. packets # <<>> /\ packets' = Tail(packets)
    BY <1>14 DEF TakeShutdown, Dequeues
  <2>2. UNCHANGED <<pc, local>> /\ w \in AliveWorkers /\ AliveWorkers' \subseteq AliveWorkers \ {w}
    BY <1>14 DEF TakeShutdown, Dequeues, Goes, AliveWorkers, Alive, stopVars, callerVars, IInv,
           TypeOK
  <2>3. local \in Int
    BY DEF IInv, TypeOK
  <2>4. /\ Cardinality(AliveWorkers) \in Nat /\ Cardinality(AliveWorkers)' \in Nat
        /\ Cardinality(AliveWorkers)' <= Cardinality(AliveWorkers) - 1
    BY <2>2, AliveCounted
  <2>5. /\ Cardinality(InPort(None)) \in Nat /\ Cardinality(InPort(None))' \in Nat
        /\ Cardinality(InPort(None))' >= Cardinality(InPort(None)) - 1
    BY <2>1, ShutdownPackets
  <2> HIDE <1>14
  <2> QED BY <2>2, <2>3, <2>4, <2>5 DEF CInv, Enough
<1>15. ASSUME NEW w \in Workers, Abandoned(w)
      PROVE  Enough'
  BY <1>15, <1>0, EnoughKept DEF Abandoned, Goes, Cancel, AliveWorkers, Alive, stopVars, callerVars, workerVars, serviceVars, requestVars, IInv, TypeOK
<1>16. ASSUME NEW w \in Workers, NEW r \in Requests, TakeRequest(w, r)
      PROVE  Enough'
  <2>1. packets # <<>> /\ packets' = Tail(packets) /\ packets[1].req # None
    BY <1>0, <1>16, Taken DEF TakeRequest, Dequeues, Packet
  <2>2. UNCHANGED <<pc, local>> /\ AliveWorkers' \subseteq AliveWorkers
    BY <1>16 DEF TakeRequest, Dequeues, Goes, AliveWorkers, Alive, stopVars, callerVars, IInv,
           TypeOK
  <2> QED BY <2>1, <2>2, EnoughKept
<1>17. ASSUME NEW w \in Workers, NEW r \in Requests, TakeCompletion(w, r)
      PROVE  Enough'
  <2>1. packets # <<>> /\ packets' = Tail(packets) /\ packets[1].req # None
    BY <1>0, <1>17, Taken DEF TakeCompletion, Dequeues, Packet
  <2>2. UNCHANGED <<pc, local>> /\ AliveWorkers' \subseteq AliveWorkers
    BY <1>17 DEF TakeCompletion, Dequeues, Goes, AliveWorkers, Alive, stopVars, callerVars, IInv,
           TypeOK
  <2> QED BY <2>1, <2>2, EnoughKept
<1>18. ASSUME NEW w \in Workers, Submit(w)
      PROVE  Enough'
  <2>1. holds[w] \in Requests
    BY <1>18, WorkerKnows DEF Submit, Busy
  <2>2. packets' = packets \/ \E p \in Packets : packets' = Append(packets, p)
    <3>1. Packet("native", holds[w], "ok") \in Packets
      BY <2>1 DEF Packet, Packets, Results
    <3> QED BY <1>18, <3>1 DEF Submit
  <2>3. UNCHANGED <<pc, local>> /\ AliveWorkers' \subseteq AliveWorkers
    BY <1>18 DEF Submit, Goes, AliveWorkers, Alive, stopVars, callerVars, IInv, TypeOK
  <2> QED BY <2>2, <2>3, EnoughKept
<1>19. ASSUME NEW w \in Workers, Decide(w)
      PROVE  Enough'
  BY <1>19, <1>0, EnoughKept DEF Decide, Goes, Called, AliveWorkers, Alive, stopVars, callerVars, workerVars, serviceVars, requestVars, IInv, TypeOK
<1>20. ASSUME NEW w \in Workers, EarlyReturns(w)
      PROVE  Enough'
  BY <1>20, <1>0, EnoughKept DEF EarlyReturns, Goes, AliveWorkers, Alive, stopVars, callerVars, workerVars, serviceVars, requestVars, IInv, TypeOK
<1>21. ASSUME NEW w \in Workers, ReadReturns(w)
      PROVE  Enough'
  BY <1>21, <1>0, EnoughKept DEF ReadReturns, Goes, Called, AliveWorkers, Alive, stopVars, callerVars, workerVars, serviceVars, requestVars, IInv, TypeOK
<1>22. ASSUME NEW w \in Workers, WriteReturns(w)
      PROVE  Enough'
  BY <1>22, <1>0, EnoughKept DEF WriteReturns, Goes, AliveWorkers, Alive, stopVars, callerVars, workerVars, serviceVars, requestVars, IInv, TypeOK
<1>23. ASSUME NEW w \in Workers, CallbackThrows(w)
      PROVE  Enough'
  BY <1>23, <1>0, EnoughKept DEF CallbackThrows, Goes, Cancel, InCallback, AliveWorkers, Alive, stopVars, callerVars, workerVars, serviceVars, requestVars, IInv, TypeOK
<1>24. ASSUME NEW r \in Requests, Complete(r)
      PROVE  Enough'
  <2>1. \A res \in Results : Packet("native", r, res) \in Packets
    BY DEF Packet, Packets
  <2>2. packets' = packets \/ \E p \in Packets : packets' = Append(packets, p)
    BY <1>24, <2>1 DEF Complete, ResultsOf, Results
  <2>3. UNCHANGED <<pc, local>> /\ AliveWorkers' \subseteq AliveWorkers
    BY <1>24 DEF Complete, AliveWorkers, Alive, stopVars, callerVars, workerVars
  <2> QED BY <2>2, <2>3, EnoughKept
<1>25. ASSUME NEW f \in Files, CloseFile(f)
      PROVE  Enough'
  BY <1>25, <1>0, EnoughKept DEF CloseFile, Answered, AliveWorkers, Alive, stopVars, callerVars, workerVars, serviceVars, requestVars, IInv, TypeOK
<1>26. ASSUME NEW f \in Files, OpenFile(f)
      PROVE  Enough'
  BY <1>26, <1>0, EnoughKept DEF OpenFile, AliveWorkers, Alive, stopVars, callerVars, workerVars, serviceVars, requestVars, IInv, TypeOK
<1> QED
  BY <1>1, <1>2, <1>3, <1>4, <1>5, <1>6, <1>7, <1>8, <1>9, <1>10,
     <1>11, <1>12, <1>13, <1>14, <1>15, <1>16, <1>17, <1>18, <1>19,
     <1>20, <1>21, <1>22, <1>23, <1>24, <1>25, <1>26
     DEF Next, RequestStep, StopStep, WorkerStep


\* A step that takes at most one request from those that wait, and then has
\* counted it, or none.
LEMMA PendingKept ==
  ASSUME IInv, CInv,
         \/ Waiting \subseteq Waiting' /\ pending' <= pending
         \/ /\ \A a \in Threads : pc[a] # "store"
            /\ \E r : Waiting \ {r} \subseteq Waiting'
            /\ pending' <= pending - 1,
         pending' \in Int,
         \A a \in Threads : pc'[a] = "store" <=> pc[a] = "store",
         \A a \in Threads : pc[a] = "store" => local' = local
  PROVE  PendingInv'
<1>1. /\ Cardinality(Waiting) \in Nat /\ Cardinality(Waiting)' \in Nat
      /\ pending \in Int /\ local \in Int
  BY WaitingCounted DEF IInv, TypeOK
<1>2. CASE Waiting \subseteq Waiting' /\ pending' <= pending
  <2>1. Cardinality(Waiting)' >= Cardinality(Waiting)
    BY <1>2, WaitingCounted
  <2> QED BY <1>1, <1>2, <2>1 DEF PendingInv, CInv
<1>3. CASE /\ \A a \in Threads : pc[a] # "store"
           /\ \E r : Waiting \ {r} \subseteq Waiting'
           /\ pending' <= pending - 1
  <2>1. Cardinality(Waiting)' >= Cardinality(Waiting) - 1
    BY <1>3, WaitingCounted
  <2> QED BY <1>1, <1>3, <2>1 DEF PendingInv, CInv
<1> QED BY <1>2, <1>3

\* A step lets _pending count no more than there is to submit.
LEMMA PendingStep ==
  ASSUME IInv, CInv, CarefulProgram, Next  PROVE PendingInv'
<1>0. /\ packets \in Seq(Packets) /\ pc \in [Threads -> {"out", "port", "spawn", "add",
                "count", "post", "wake", "join", "drain", "store", "abort"}]
      /\ None \notin Requests /\ pending \in Int /\ local \in Int
  BY ServiceAssumption DEF IInv, TypeOK
<1> USE DEF Threads
<1>1. ASSUME NEW c \in Clients, StartServing(c)
      PROVE  PendingInv'
  BY <1>1, <1>0, PendingKept DEF StartServing, At, Waiting, stopVars, callerVars, workerVars, serviceVars, requestVars
<1>2. ASSUME NEW c \in Clients, CreatePort(c)
      PROVE  PendingInv'
  BY <1>2, <1>0, PendingKept DEF CreatePort, At, Waiting, stopVars, callerVars, workerVars, serviceVars, requestVars
<1>3. ASSUME NEW c \in Clients, NEW w \in Workers, SpawnWorker(c, w)
      PROVE  PendingInv'
  BY <1>3, <1>0, PendingKept DEF SpawnWorker, At, Waiting, stopVars, callerVars, workerVars, serviceVars, requestVars
<1>4. ASSUME NEW a \in Threads, NEW r \in Requests, NEW f \in Files, Request(a, r, f)
      PROVE  PendingInv'
  BY <1>4, <1>0, PendingKept DEF Request, MayCall, At, Waiting, stopVars, callerVars, workerVars, serviceVars, requestVars
<1>5. ASSUME NEW a \in Threads, AddFile(a)
      PROVE  PendingInv'
  <2>1. \A b \in Threads : pc[b] = "post" => pc'[b] = "post" /\ arg'[b] = arg[b]
    BY <1>0, <1>5 DEF AddFile, Throw, At, IInv, TypeOK
  <2>2. \A b \in Threads : pc'[b] = "store" <=> pc[b] = "store"
    BY <1>0, <1>5 DEF AddFile, Throw, At
  <2>3. Waiting \subseteq Waiting'
    BY <1>5, <2>1 DEF AddFile, Waiting, serviceVars
  <2> QED BY <1>0, <1>5, <2>2, <2>3, PendingKept DEF AddFile, serviceVars, stopVars
<1>6. ASSUME NEW a \in Threads, CountUp(a)
      PROVE  PendingInv'
  <2>1. /\ arg[a] \in Requests /\ overlapped[arg[a]] = "none" /\ pc[a] = "count"
        /\ pc' = [pc EXCEPT ![a] = "post"]
        /\ UNCHANGED <<packets, arg, local>> /\ pending' = pending + 1
    BY <1>6 DEF CountUp, At, IInv, OwnerInv, CallersInv, Making, stopVars
  <2>2. arg[a] \notin Waiting
    BY <2>1 DEF Waiting, IInv, OwnerInv, PostingInv, PortInv
  <2>3. Waiting \union {arg[a]} \subseteq Waiting'
    BY <1>0, <2>1 DEF Waiting
  <2>4. Cardinality(Waiting)' >= Cardinality(Waiting) + 1
    BY <2>1, <2>2, <2>3, WaitingCounted
  <2>5. \A b \in Threads : pc'[b] = "store" <=> pc[b] = "store"
    BY <1>0, <2>1
  <2> HIDE <1>6
  <2> QED BY <1>0, <2>1, <2>4, <2>5, WaitingCounted DEF PendingInv, CInv
<1>7. ASSUME NEW a \in Threads, Post(a)
      PROVE  PendingInv'
  <2>1. /\ pc[a] = "post" /\ pc' = [pc EXCEPT ![a] = "out"] /\ UNCHANGED local
        /\ \A b \in Threads \ {a} : arg'[b] = arg[b]
        /\ \A b \in Threads : pc'[b] = "store" <=> pc[b] = "store"
    BY <1>0, <1>7 DEF Post, Throw, At, stopVars, IInv, TypeOK
  <2>2. CASE port = "open"
    <3>1. /\ packets' = Append(packets, Packet("server", arg[a], "ok"))
          /\ UNCHANGED pending
      BY <1>7, <2>2 DEF Post, CarefulProgram
    <3>2. Packet("server", arg[a], "ok") \in Packets
      BY <2>1 DEF Packet, Packets, Results, IInv, OwnerInv, CallersInv, Making
    <3>3. /\ \A i \in DOMAIN packets : i \in DOMAIN packets' /\ packets'[i] = packets[i]
          /\ \E i \in DOMAIN packets' : packets'[i].key = "server" /\ packets'[i].req = arg[a]
      BY <1>0, <3>1, <3>2, Posted DEF Packet
    <3>4. Waiting \subseteq Waiting'
      BY <1>0, <2>1, <3>3 DEF Waiting
    <3> QED BY <1>0, <2>1, <3>1, <3>4, PendingKept
  <2>3. CASE port # "open"
    <3>1. UNCHANGED packets /\ pending' = pending - 1
      BY <1>7, <2>3 DEF Post
    <3>2. Waiting \ {arg[a]} \subseteq Waiting'
      BY <1>0, <2>1, <3>1 DEF Waiting
    <3>3. \A b \in Threads : pc[b] # "store"
      BY <2>3 DEF CInv, StopInv, Stopping
    <3>4. (\E r : Waiting \ {r} \subseteq Waiting') /\ pending' \in Int /\ pending' <= pending - 1
      BY <1>0, <3>1, <3>2, SMTT(20)
    <3> HIDE <1>7
    <3> QED BY <2>1, <3>3, <3>4, PendingKept
  <2> QED BY <2>2, <2>3
<1>8. ASSUME NEW a \in Threads, Shutdown(a)
      PROVE  PendingInv'
  <2>1. /\ pc' = pc \/ \E place \in {"drain", "wake"} : pc' = [pc EXCEPT ![a] = place]
        /\ UNCHANGED <<packets, arg, pending>> /\ pc[a] = "out"
    BY <1>8 DEF Shutdown, MayCall, At
  <2>2. Waiting \subseteq Waiting'
    BY <1>0, <2>1 DEF Waiting
  <2>3. \A b \in Threads : pc'[b] = "store" <=> pc[b] = "store"
    BY <1>0, <2>1
  <2>4. \A b \in Threads : pc[b] = "store" => local' = local
    <3>1. CASE state = "started"
      BY <3>1 DEF CInv, StopInv, Stopping
    <3>2. CASE state # "started"
      BY <1>8, <3>2 DEF Shutdown, stopVars
    <3> QED BY <3>1, <3>2
  <2> QED BY <1>0, <2>1, <2>2, <2>3, <2>4, PendingKept
<1>9. ASSUME NEW a \in Threads, PostShutdown(a)
      PROVE  PendingInv'
  <2>1. /\ \E place \in {"join", "wake", "out"} : pc' = [pc EXCEPT ![a] = place]
        /\ pc[a] = "wake" /\ UNCHANGED <<arg, pending>>
    BY <1>9 DEF PostShutdown, At
  <2>2. ShutdownPacket \in Packets
    BY DEF ShutdownPacket, Packet, Packets, Results
  <2>3. \A i \in DOMAIN packets : i \in DOMAIN packets' /\ packets'[i] = packets[i]
    BY <1>0, <1>9, <2>2, Posted DEF PostShutdown
  <2>4. Waiting \subseteq Waiting'
    BY <1>0, <2>1, <2>3 DEF Waiting
  <2>5. \A b \in Threads : pc[b] # "store"
    BY <2>1 DEF CInv, StopInv, Stopping
  <2>6. \A b \in Threads : pc'[b] # "store"
    BY <1>0, <2>1, <2>5
  <2> QED BY <1>0, <2>1, <2>4, <2>5, <2>6, PendingKept
<1>10. ASSUME NEW a \in Threads, Join(a)
      PROVE  PendingInv'
  <2>1. /\ \E place \in {"drain", "out"} : pc' = [pc EXCEPT ![a] = place]
        /\ pc[a] = "join" /\ UNCHANGED <<arg, pending, packets, local>>
    BY <1>10 DEF Join, At, serviceVars, stopVars
  <2>2. Waiting \subseteq Waiting'
    BY <1>0, <2>1 DEF Waiting
  <2> QED BY <1>0, <2>1, <2>2, PendingKept
<1>11. ASSUME NEW a \in Threads, Drain(a)
      PROVE  PendingInv'
  <2>1. /\ \E place \in {"store", "abort"} : pc' = [pc EXCEPT ![a] = place]
        /\ pc[a] = "drain" /\ UNCHANGED <<arg, pending>> /\ local' = pending
        /\ packets' = packets \/ (packets # <<>> /\ packets' = Tail(packets))
    BY <1>11, DrainTakes DEF Drain
  <2>2. \A b \in Threads : pc[b] # "store" /\ (pc'[b] = "store" => b = a)
    BY <1>0, <2>1 DEF CInv, StopInv, Stopping
  <2>3. Waiting \ {packets[1].req} \subseteq Waiting'
    <3>1. \A i \in DOMAIN packets : packets[i] = packets[1]
            \/ \E j \in DOMAIN packets' : packets'[j] = packets[i]
      BY <2>1, OldestAlone
    <3> QED BY <1>0, <2>1, <3>1 DEF Waiting
  <2>4. Cardinality(Waiting)' >= Cardinality(Waiting) - 1
    BY <2>3, WaitingCounted
  <2>5. pending <= Cardinality(Waiting)
    BY <2>2 DEF CInv, PendingInv
  <2>6. pc'[a] = "store" \/ \A b \in Threads : pc'[b] # "store"
    BY <2>2
  <2>7. CASE pc'[a] = "store"
    BY <1>0, <2>1, <2>4, <2>5, <2>7, WaitingCounted DEF PendingInv
  <2>8. CASE pc'[a] = "abort"
    <3>1. packets # <<>> /\ packets' = Tail(packets) /\ packets[1] = ShutdownPacket
      <4>1. port = "open"
        BY <2>1 DEF CInv, StopInv, Stopping
      <4>2. /\ packets # <<>> /\ packets' = Tail(packets)
            /\ pc' = [pc EXCEPT ![a] = IF Head(packets) = ShutdownPacket THEN "abort"
                                                                       ELSE "store"]
        BY <1>11, <4>1 DEF Drain, At
      <4> QED BY <1>0, <2>8, <4>2, OldestAlone
    <3>2. Waiting \subseteq Waiting'
      BY <1>0, <2>1, <2>3, <3>1 DEF Waiting, ShutdownPacket, Packet
    <3> QED BY <1>0, <2>1, <2>2, <2>5, <2>8, <3>2, WaitingCounted DEF PendingInv
  <2>9. pc'[a] \in {"store", "abort"}
    BY <1>0, <2>1
  <2> QED BY <2>7, <2>8, <2>9
<1>12. ASSUME NEW a \in Threads, StorePending(a)
      PROVE  PendingInv'
  <2>1. /\ pc' = [pc EXCEPT ![a] = "drain"] /\ pc[a] = "store"
        /\ pending' = local - 1 /\ UNCHANGED <<packets, arg>>
    BY <1>12 DEF StorePending, At
  <2>2. \A b \in Threads : pc'[b] # "store"
    BY <1>0, <2>1 DEF CInv, StopInv, Stopping
  <2>3. Waiting' = Waiting
    BY <1>0, <2>1 DEF Waiting
  <2> QED BY <2>1, <2>2, <2>3 DEF CInv, PendingInv
<1>13. ASSUME NEW a \in Threads, ClosePort(a)
      PROVE  PendingInv'
  <2>1. /\ pc' = [pc EXCEPT ![a] = "out"] /\ pc[a] = "drain" /\ pending <= 0
        /\ UNCHANGED pending
    BY <1>13 DEF ClosePort, At
  <2>2. \A b \in Threads : pc'[b] # "store"
    BY <1>0, <2>1 DEF CInv, StopInv, Stopping
  <2> QED BY <1>0, <2>1, <2>2, WaitingCounted DEF PendingInv
<1>14. ASSUME NEW w \in Workers, TakeShutdown(w)
      PROVE  PendingInv'
  <2>1. packets # <<>> /\ packets' = Tail(packets) /\ packets[1].req = None
    BY <1>0, <1>14, Taken DEF TakeShutdown, Dequeues, ShutdownPacket, Packet
  <2>2. UNCHANGED <<pc, arg, local, pending>>
    BY <1>14 DEF TakeShutdown, callerVars, stopVars
  <2>3. Waiting \subseteq Waiting'
    BY <1>0, <2>1, <2>2, OldestAlone DEF Waiting
  <2> QED BY <1>0, <2>2, <2>3, PendingKept
<1>15. ASSUME NEW w \in Workers, Abandoned(w)
      PROVE  PendingInv'
  BY <1>15, <1>0, PendingKept DEF Abandoned, Goes, Cancel, Waiting, stopVars, callerVars, workerVars, serviceVars, requestVars
<1>16. ASSUME NEW w \in Workers, NEW r \in Requests, TakeRequest(w, r)
      PROVE  PendingInv'
  <2>1. packets # <<>> /\ packets' = Tail(packets) /\ packets[1].req = r
    BY <1>0, <1>16, Taken DEF TakeRequest, Dequeues, Packet
  <2>2. UNCHANGED <<pc, arg, local>> /\ pending' = pending - 1 /\ Alive(w)
    BY <1>16 DEF TakeRequest, Dequeues, CountDown, callerVars, stopVars, Alive
  <2>3. Waiting \ {r} \subseteq Waiting'
    BY <1>0, <2>1, <2>2, OldestAlone DEF Waiting
  <2>4. \A b \in Threads : pc[b] # "store"
    BY <2>2 DEF CInv, StopInv
  <2> QED BY <1>0, <2>2, <2>3, <2>4, PendingKept
<1>17. ASSUME NEW w \in Workers, NEW r \in Requests, TakeCompletion(w, r)
      PROVE  PendingInv'
  <2>1. packets # <<>> /\ packets' = Tail(packets) /\ packets[1].req = r
    BY <1>0, <1>17, Taken DEF TakeCompletion, Dequeues, Packet
  <2>2. UNCHANGED <<pc, arg, local>> /\ pending' = pending - 1 /\ Alive(w)
    BY <1>17 DEF TakeCompletion, Dequeues, CountDown, callerVars, stopVars, Alive
  <2>3. Waiting \ {r} \subseteq Waiting'
    BY <1>0, <2>1, <2>2, OldestAlone DEF Waiting
  <2>4. \A b \in Threads : pc[b] # "store"
    BY <2>2 DEF CInv, StopInv
  <2> QED BY <1>0, <2>2, <2>3, <2>4, PendingKept
<1>18. ASSUME NEW w \in Workers, Submit(w)
      PROVE  PendingInv'
  <2>1. Packet("native", holds[w], "ok") \in Packets
    BY <1>18, WorkerKnows DEF Submit, Busy, Packet, Packets, Results
  <2>2. \A i \in DOMAIN packets : i \in DOMAIN packets' /\ packets'[i] = packets[i]
    BY <1>0, <1>18, <2>1, Posted DEF Submit
  <2>3. UNCHANGED <<pc, arg, local, pending>>
    BY <1>18 DEF Submit, stopVars, callerVars
  <2>4. Waiting \subseteq Waiting'
    BY <2>2, <2>3 DEF Waiting
  <2> QED BY <1>0, <2>3, <2>4, PendingKept
<1>19. ASSUME NEW w \in Workers, Decide(w)
      PROVE  PendingInv'
  BY <1>19, <1>0, PendingKept DEF Decide, Goes, Called, Waiting, stopVars, callerVars, workerVars, serviceVars, requestVars
<1>20. ASSUME NEW w \in Workers, EarlyReturns(w)
      PROVE  PendingInv'
  BY <1>20, <1>0, PendingKept DEF EarlyReturns, Goes, Waiting, stopVars, callerVars, workerVars, serviceVars, requestVars
<1>21. ASSUME NEW w \in Workers, ReadReturns(w)
      PROVE  PendingInv'
  BY <1>21, <1>0, PendingKept DEF ReadReturns, Goes, Called, Waiting, stopVars, callerVars, workerVars, serviceVars, requestVars
<1>22. ASSUME NEW w \in Workers, WriteReturns(w)
      PROVE  PendingInv'
  BY <1>22, <1>0, PendingKept DEF WriteReturns, Goes, Waiting, stopVars, callerVars, workerVars, serviceVars, requestVars
<1>23. ASSUME NEW w \in Workers, CallbackThrows(w)
      PROVE  PendingInv'
  BY <1>23, <1>0, PendingKept DEF CallbackThrows, Goes, Cancel, InCallback, Waiting, stopVars, callerVars, workerVars, serviceVars, requestVars
<1>24. ASSUME NEW r \in Requests, Complete(r)
      PROVE  PendingInv'
  <2>1. \A res \in Results : Packet("native", r, res) \in Packets
    BY DEF Packet, Packets
  <2>2. packets' = packets \/ \E p \in Packets : packets' = Append(packets, p)
    BY <1>24, <2>1 DEF Complete, ResultsOf, Results
  <2>3. \A i \in DOMAIN packets : i \in DOMAIN packets' /\ packets'[i] = packets[i]
    BY <1>0, <2>2, Posted
  <2>4. UNCHANGED <<pc, arg, local, pending>>
    BY <1>24 DEF Complete, stopVars, callerVars
  <2>5. Waiting \subseteq Waiting'
    BY <2>3, <2>4 DEF Waiting
  <2> QED BY <1>0, <2>4, <2>5, PendingKept
<1>25. ASSUME NEW f \in Files, CloseFile(f)
      PROVE  PendingInv'
  BY <1>25, <1>0, PendingKept DEF CloseFile, Answered, Waiting, stopVars, callerVars, workerVars, serviceVars, requestVars
<1>26. ASSUME NEW f \in Files, OpenFile(f)
      PROVE  PendingInv'
  BY <1>26, <1>0, PendingKept DEF OpenFile, Waiting, stopVars, callerVars, workerVars, serviceVars, requestVars
<1> QED
  BY <1>1, <1>2, <1>3, <1>4, <1>5, <1>6, <1>7, <1>8, <1>9, <1>10,
     <1>11, <1>12, <1>13, <1>14, <1>15, <1>16, <1>17, <1>18, <1>19,
     <1>20, <1>21, <1>22, <1>23, <1>24, <1>25, <1>26
     DEF Next, RequestStep, StopStep, WorkerStep


\* What the theorems about a careful program rest on.
THEOREM CarefulInvariance ==
  ASSUME CarefulProgram  PROVE Spec => [](IInv /\ CInv)
<1>1. IInv /\ CInv /\ [Next]_vars => CInv'
  <2>1. ASSUME CInv, UNCHANGED vars  PROVE CInv'
    <3> USE <2>1 DEF vars, serviceVars, fileVars, requestVars, workerVars, callerVars, stopVars,
               CInv
    <3>1. StartInv' /\ StopInv'
      BY DEF StartInv, StopInv, Starting, Alive
    <3>2. Waiting' = Waiting /\ InPort(None)' = InPort(None) /\ AliveWorkers' = AliveWorkers
      BY DEF Waiting, InPort, AliveWorkers, Alive
    <3>3. Enough' /\ PendingInv'
      BY <3>2 DEF Enough, PendingInv
    <3> QED BY <3>1, <3>3
  <2> QED BY <2>1, StartStep, StopStepInv, EnoughStep, PendingStep DEF CInv
<1> QED BY <1>1, InitCInv, Invariance, PTL DEF Spec

\* JoinAttended, for any number of clients and workers: join() in shutdown() is
\* for no worker that nothing will wake.
THEOREM ShutdownAttended ==
  ASSUME CarefulProgram  PROVE Spec => []JoinAttended
<1>1. IInv /\ CInv => JoinAttended
  <2> SUFFICES ASSUME IInv, CInv, NEW a \in Threads, pc[a] = "join"
               PROVE  Cardinality(InPort(None)) >= Cardinality({w \in joins : Alive(w)})
    BY DEF JoinAttended
  <2>1. joins = Workers
    BY DEF CInv, StopInv, Stopping
  <2> QED BY <2>1 DEF CInv, Enough, AliveWorkers
<1> QED BY <1>1, CarefulInvariance, PTL

\* DrainNotStarved, likewise: the loop that empties the port waits for a packet
\* only when there is one, or a thread about to post it.
THEOREM DrainFed ==
  ASSUME CarefulProgram  PROVE Spec => []DrainNotStarved
<1>1. IInv /\ CInv => DrainNotStarved
  <2> SUFFICES ASSUME IInv, CInv, NEW a \in Threads, pc[a] = "drain", pending > 0
               PROVE  packets # <<>> \/ \E b \in Threads : pc[b] = "post"
    BY DEF DrainNotStarved
  <2>1. \A b \in Threads : pc[b] # "store"
    BY DEF CInv, StopInv, Stopping
  <2>2. pending <= Cardinality(Waiting) /\ pending \in Int
    BY <2>1 DEF CInv, PendingInv, IInv, TypeOK
  <2>3. Waiting # {}
    BY <2>2, WaitingCounted
  <2> QED BY <2>3 DEF Waiting
<1> QED BY <1>1, CarefulInvariance, PTL

-----------------------------------------------------------------------------
(* The refinement.                                                          *)

\* Where a user sees a request to be.
Seen(r) ==
  IF calls[r] > 0 THEN "answered"
  ELSE IF overlapped[r] = "refused" THEN "refused"
  ELSE IF overlapped[r] = "none" \/ \E a \in Threads : pc[a] = "post" /\ arg[a] = r
  THEN "fresh"
  ELSE "accepted"

\* The mapping of the requests, with a name for what AsyncIO sees of one.
LEMMA StatusSeen == Status = [r \in Requests |-> Seen(r)]
BY DEF Status, Seen, Posting

\* A step that changes no request's status is a stutter of them.
LEMMA StatusKept ==
  ASSUME \A r \in Requests : Seen(r)' = Seen(r)  PROVE Status' = Status
<1>1. Status' = [r \in Requests |-> Seen(r)']
  BY DEF Status, Seen, Posting
<1> QED BY <1>1, StatusSeen

\* A step that moves one request's status is a step of that request.
LEMMA StatusMoves ==
  ASSUME NEW q \in Requests, NEW s, \A r \in Requests \ {q} : Seen(r)' = Seen(r)
  PROVE  /\ Status[q] = Seen(q)
         /\ (\A r \in Requests : r = q => Seen(r)' = s) => Status' = [Status EXCEPT ![q] = s]
<1>1. Status' = [r \in Requests |-> Seen(r)']
  BY DEF Status, Seen, Posting
<1> QED BY <1>1, StatusSeen

\* Every step of the service is a step of AsyncIO, or a stutter.
LEMMA AbstractStep ==
  ASSUME IInv, CInv, CarefulProgram, Next
  PROVE  [Abstract!IONext]_<<Status, (port = "open")>>
<1> DEFINE Maps == [Abstract!IONext]_<<Status, (port = "open")>>
<1>0. /\ packets \in Seq(Packets) /\ pc \in [Threads -> {"out", "port", "spawn", "add",
                "count", "post", "wake", "join", "drain", "store", "abort"}]
      /\ None \notin Requests
      /\ calls \in [Requests -> 0..2]
      /\ overlapped \in [Requests -> {"none", "live", "refused", "freed", "drained"}]
  BY ServiceAssumption DEF IInv, TypeOK
<1> USE DEF Threads, serviceVars, fileVars, requestVars, workerVars, callerVars, stopVars
<1>1. ASSUME NEW c \in Clients, StartServing(c)
      PROVE  Maps
  BY <1>1, <1>0, StatusKept DEF StartServing, At, Seen
<1>2. ASSUME NEW c \in Clients, CreatePort(c)
      PROVE  Maps
  <2>1. port \in {"null", "open"}
    BY <1>2 DEF CreatePort, CInv, StartInv, IInv, TypeOK, StateInv
  <2>2. Status' = Status
    BY <1>0, <1>2, StatusKept DEF CreatePort, At, Seen
  <2> QED BY <1>2, <2>1, <2>2 DEF CreatePort, Abstract!IONext, Abstract!Open
<1>3. ASSUME NEW c \in Clients, NEW w \in Workers, SpawnWorker(c, w)
      PROVE  Maps
  BY <1>3, <1>0, StatusKept DEF SpawnWorker, At, Seen
<1>4. ASSUME NEW a \in Threads, NEW r \in Requests, NEW f \in Files, Request(a, r, f)
      PROVE  Maps
  BY <1>4, <1>0, StatusKept DEF Request, MayCall, At, Seen
<1>5. ASSUME NEW a \in Threads, AddFile(a)
      PROVE  Maps
  <2>1. /\ pc[a] = "add" /\ \E place \in {"count", "out"} : pc' = [pc EXCEPT ![a] = place]
        /\ \A b \in Threads \ {a} : arg'[b] = arg[b]
        /\ UNCHANGED <<overlapped, calls, port>>
    BY <1>5 DEF AddFile, Throw, At, IInv, TypeOK
  <2>2. \A b \in Threads : pc'[b] = "post" <=> pc[b] = "post"
    BY <1>0, <2>1
  <2>3. \A b \in Threads : pc[b] = "post" => arg'[b] = arg[b]
    BY <2>1
  <2> HIDE <1>5
  <2>4. Status' = Status
    BY <2>1, <2>2, <2>3, StatusKept DEF Seen
  <2> QED BY <2>1, <2>4
<1>6. ASSUME NEW a \in Threads, CountUp(a)
      PROVE  Maps
  <2>1. /\ arg[a] \in Requests /\ overlapped[arg[a]] = "none" /\ pc[a] = "count"
        /\ calls[arg[a]] = 0
    BY <1>6 DEF CountUp, IInv, OwnerInv, CallersInv, Making
  <2>2. Status' = Status
    BY <1>0, <1>6, <2>1, StatusKept DEF CountUp, At, Seen
  <2> QED BY <1>6, <2>2 DEF CountUp
<1>7. ASSUME NEW a \in Threads, Post(a)
      PROVE  Maps
  <2> DEFINE q == arg[a]
  <2>1. /\ q \in Requests /\ overlapped[q] = "live" /\ calls[q] = 0
        /\ \A b \in Threads : arg[b] = q => b = a
        /\ pc[a] = "post" /\ pc' = [pc EXCEPT ![a] = "out"]
        /\ \A b \in Threads \ {a} : arg'[b] = arg[b]
        /\ UNCHANGED <<port, calls>>
    BY <1>7 DEF Post, Throw, At, IInv, TypeOK, OwnerInv, CallersInv, PostingInv, Making
  <2>2. Seen(q) = "fresh"
    BY <2>1 DEF Seen
  <2>3. \A b \in Threads : pc'[b] = "post" <=> pc[b] = "post" /\ b # a
    BY <1>0, <2>1
  <2>4. CASE port = "open"
    <3>1. UNCHANGED overlapped
      BY <1>7, <2>4 DEF Post, CarefulProgram
    <3>2. \A r \in Requests : Seen(r)' = IF r = q THEN "accepted" ELSE Seen(r)
      BY <2>1, <2>3, <3>1 DEF Seen
    <3>3. Status[q] = "fresh" /\ Status' = [Status EXCEPT ![q] = "accepted"]
      BY <2>1, <2>2, <3>2, StatusMoves
    <3> QED BY <2>1, <2>4, <3>3 DEF Abstract!IONext, Abstract!Accept
  <2>5. CASE port # "open"
    <3>1. overlapped' = [overlapped EXCEPT ![q] = "refused"]
      BY <1>7, <2>5 DEF Post
    <3>2. \A r \in Requests : Seen(r)' = IF r = q THEN "refused" ELSE Seen(r)
      BY <1>0, <2>1, <2>3, <3>1 DEF Seen
    <3>3. Status[q] = "fresh" /\ Status' = [Status EXCEPT ![q] = "refused"]
      BY <2>1, <2>2, <3>2, StatusMoves
    <3> QED BY <2>1, <2>5, <3>3 DEF Abstract!IONext, Abstract!Refuse
  <2> QED BY <2>4, <2>5
<1>8. ASSUME NEW a \in Threads, Shutdown(a)
      PROVE  Maps
  BY <1>8, <1>0, StatusKept DEF Shutdown, MayCall, At, Counted, Seen
<1>9. ASSUME NEW a \in Threads, PostShutdown(a)
      PROVE  Maps
  BY <1>9, <1>0, StatusKept DEF PostShutdown, At, ShutdownPacket, Packet, Seen
<1>10. ASSUME NEW a \in Threads, Join(a)
      PROVE  Maps
  BY <1>10, <1>0, StatusKept DEF Join, At, Seen
<1>11. ASSUME NEW a \in Threads, Drain(a)
      PROVE  Maps
  <2>1. /\ pc[a] = "drain" /\ \E place \in {"store", "abort"} : pc' = [pc EXCEPT ![a] = place]
        /\ UNCHANGED <<calls, arg, port>> /\ port = "open"
    BY <1>11, DrainTakes DEF Drain, At, CInv, StopInv, Stopping
  <2>2. \A r \in Requests : overlapped'[r] = overlapped[r] \/
          (overlapped'[r] = "drained" /\ \E i \in DOMAIN packets : packets[i].req = r)
    BY <1>0, <1>11, <2>1, Taken DEF Drain
  <2>3. \A r \in Requests : (\E i \in DOMAIN packets : packets[i].req = r) =>
          /\ overlapped[r] = "live"
          /\ ~ \E b \in Threads : pc[b] = "post" /\ arg[b] = r
    BY DEF IInv, OwnerInv, PortInv, PostingInv
  <2>4. \A b \in Threads : pc'[b] = "post" <=> pc[b] = "post"
    BY <1>0, <2>1
  <2> HIDE <1>11
  <2>5. Status' = Status
    BY <2>1, <2>2, <2>3, <2>4, StatusKept DEF Seen
  <2> QED BY <2>1, <2>5
<1>12. ASSUME NEW a \in Threads, StorePending(a)
      PROVE  Maps
  BY <1>12, <1>0, StatusKept DEF StorePending, At, Seen
<1>13. ASSUME NEW a \in Threads, ClosePort(a)
      PROVE  Maps
  <2>1. port = "open"
    BY <1>13 DEF ClosePort, CInv, StopInv, Stopping
  <2>2. Status' = Status
    BY <1>0, <1>13, StatusKept DEF ClosePort, At, Seen
  <2> QED BY <1>13, <2>1, <2>2 DEF ClosePort, Abstract!IONext, Abstract!Close
<1>14. ASSUME NEW w \in Workers, TakeShutdown(w)
      PROVE  Maps
  BY <1>14, <1>0, StatusKept DEF TakeShutdown, Dequeues, Goes, Cancel, Seen
<1>15. ASSUME NEW w \in Workers, Abandoned(w)
      PROVE  Maps
  BY <1>15, <1>0, StatusKept DEF Abandoned, Goes, Cancel, Seen
<1>16. ASSUME NEW w \in Workers, NEW r \in Requests, TakeRequest(w, r)
      PROVE  Maps
  BY <1>16, <1>0, StatusKept DEF TakeRequest, Dequeues, Goes, CountDown, Packet, Seen
<1>17. ASSUME NEW w \in Workers, NEW r \in Requests, TakeCompletion(w, r)
      PROVE  Maps
  <2>1. /\ packets # <<>> /\ packets[1].req = r /\ 1 \in DOMAIN packets /\ port = "open"
        /\ UNCHANGED <<pc, arg, overlapped, port>> /\ calls' = [calls EXCEPT ![r] = @ + 1]
    BY <1>0, <1>17, Taken DEF TakeCompletion, Dequeues, Packet, Called
  <2>2. /\ overlapped[r] = "live" /\ calls[r] = 0
        /\ \A b \in Threads : pc[b] = "post" => arg[b] # r
    BY <2>1 DEF IInv, OwnerInv, PortInv, PostingInv
  <2> HIDE <1>17
  <2>3. Seen(r) = "accepted"
    BY <2>2 DEF Seen
  <2>4. \A s \in Requests : Seen(s)' = IF s = r THEN "answered" ELSE Seen(s)
    BY <1>0, <2>1, <2>2 DEF Seen
  <2>5. Status[r] = "accepted" /\ Status' = [Status EXCEPT ![r] = "answered"]
    BY <2>3, <2>4, StatusMoves
  <2> QED BY <2>1, <2>5 DEF Abstract!IONext, Abstract!Answer
<1>18. ASSUME NEW w \in Workers, Submit(w)
      PROVE  Maps
  BY <1>18, <1>0, StatusKept DEF Submit, Goes, Packet, ResultsOf, Seen
<1>19. ASSUME NEW w \in Workers, Decide(w)
      PROVE  Maps
  <2> DEFINE q == holds[w]
  <2>1. CASE completionQueued(result[w])
    <3>1. UNCHANGED <<pc, arg, overlapped, calls, port>>
      BY <1>19, <2>1 DEF Decide
    <3>2. Status' = Status
      BY <3>1, StatusKept DEF Seen
    <3> QED BY <3>1, <3>2
  <2>2. CASE ~completionQueued(result[w])
    <3>1. /\ UNCHANGED <<pc, arg, overlapped, port>> /\ calls' = [calls EXCEPT ![q] = @ + 1]
          /\ doing[w] = "decide"
      BY <1>19, <2>2 DEF Decide, Called
    <3>2. q \in Requests /\ overlapped[q] = "live" /\ calls[q] = 0 /\ Touches(w, q)
      BY <2>2, <3>1 DEF IInv, OwnerInv, WorkerInv, Busy, Released, CallsBy, Touches
    <3>3. \A b \in Threads : pc[b] = "post" => arg[b] # q
      BY <3>2 DEF IInv, OwnerInv, PostingInv
    <3>4. port = "open"
      BY <3>1 DEF CInv, StopInv, Alive
    <3> HIDE <1>19
    <3>5. Seen(q) = "accepted"
      BY <3>2, <3>3 DEF Seen
    <3>6. \A s \in Requests : Seen(s)' = IF s = q THEN "answered" ELSE Seen(s)
      BY <1>0, <3>1, <3>2 DEF Seen
    <3>7. Status[q] = "accepted" /\ Status' = [Status EXCEPT ![q] = "answered"]
      BY <3>2, <3>5, <3>6, StatusMoves
    <3> QED BY <3>1, <3>2, <3>4, <3>7 DEF Abstract!IONext, Abstract!Answer
  <2> QED BY <2>1, <2>2
<1>20. ASSUME NEW w \in Workers, EarlyReturns(w)
      PROVE  Maps
  BY <1>20, <1>0, StatusKept DEF EarlyReturns, Goes, Seen
<1>21. ASSUME NEW w \in Workers, ReadReturns(w)
      PROVE  Maps
  <2>1. /\ UNCHANGED <<pc, arg, overlapped, port>> /\ calls' = [calls EXCEPT ![holds[w]] = @ + 1]
        /\ holds[w] \in Requests /\ calls[holds[w]] = 1
    BY <1>21 DEF ReadReturns, Called, IInv, OwnerInv, WorkerInv, Busy, InCallback, Released,
       CallsBy
  <2> HIDE <1>21
  <2>2. Status' = Status
    BY <1>0, <2>1, StatusKept DEF Seen
  <2> QED BY <2>1, <2>2
<1>22. ASSUME NEW w \in Workers, WriteReturns(w)
      PROVE  Maps
  <2>1. /\ UNCHANGED <<pc, arg, calls, port>>
        /\ overlapped' = [overlapped EXCEPT ![holds[w]] = "freed"]
        /\ holds[w] \in Requests /\ calls[holds[w]] > 0
    BY <1>22 DEF WriteReturns, IInv, OwnerInv, WorkerInv, Busy, InCallback, Released,
       CallsBy
  <2>2. overlapped[holds[w]] = "live"
    BY <1>22 DEF WriteReturns, IInv, OwnerInv, WorkerInv, Busy, InCallback, Released
  <2> HIDE <1>22
  <2>3. Status' = Status
    BY <1>0, <2>1, <2>2, StatusKept DEF Seen
  <2> QED BY <2>1, <2>3
<1>23. ASSUME NEW w \in Workers, CallbackThrows(w)
      PROVE  Maps
  BY <1>23, <1>0, StatusKept DEF CallbackThrows, Goes, Cancel, InCallback, Seen
<1>24. ASSUME NEW r \in Requests, Complete(r)
      PROVE  Maps
  BY <1>24, <1>0, StatusKept DEF Complete, Packet, ResultsOf, Seen
<1>25. ASSUME NEW f \in Files, CloseFile(f)
      PROVE  Maps
  BY <1>25, <1>0, StatusKept DEF CloseFile, Answered, Seen
<1>26. ASSUME NEW f \in Files, OpenFile(f)
      PROVE  Maps
  BY <1>26, <1>0, StatusKept DEF OpenFile, Seen
<1> QED
  BY <1>1, <1>2, <1>3, <1>4, <1>5, <1>6, <1>7, <1>8, <1>9, <1>10,
     <1>11, <1>12, <1>13, <1>14, <1>15, <1>16, <1>17, <1>18, <1>19,
     <1>20, <1>21, <1>22, <1>23, <1>24, <1>25, <1>26
     DEF Next, RequestStep, StopStep, WorkerStep

\* ImplementsAsyncIO, for any number of clients, workers, files and requests:
\* while the port is open requests are accepted and answered, each once in its
\* life; what was refused is never answered, and after shutdown() nothing is.
THEOREM ServiceImplementsAsyncIO ==
  ASSUME CarefulProgram  PROVE Spec => ImplementsAsyncIO
<1>1. Init => Abstract!IOInit
  <2> SUFFICES ASSUME Init  PROVE Abstract!IOInit
    OBVIOUS
  <2>1. Status = [r \in Requests |-> "fresh"] /\ port # "open"
    BY StatusSeen DEF Init, Seen
  <2> QED BY <2>1 DEF Abstract!IOInit
<1>2. IInv /\ CInv /\ [Next]_vars => [Abstract!IONext]_<<Status, (port = "open")>>
  <2>1. ASSUME UNCHANGED vars  PROVE UNCHANGED <<Status, (port = "open")>>
    <3>1. UNCHANGED <<port, calls, overlapped, pc, arg>>
      BY <2>1 DEF vars, serviceVars, requestVars, callerVars
    <3>2. Status' = Status
      BY <3>1, StatusKept DEF Seen
    <3> QED BY <3>1, <3>2
  <2> QED BY <2>1, AbstractStep
<1> QED BY <1>1, <1>2, CarefulInvariance, PTL
        DEF Spec, ImplementsAsyncIO, Abstract!IOSpec, Abstract!ioVars
=============================================================================
