----------------------------- MODULE FileService -----------------------------
(***************************************************************************)
(* ge's FileService on Windows (src/win/ge/aio/FileService.cpp): file IO   *)
(* through an IO completion port.  fileRead and fileWrite post a packet    *)
(* with the SERVER key; a worker that dequeues it calls ReadFile or        *)
(* WriteFile; when that does not complete at once, the kernel posts the    *)
(* same OVERLAPPED_EX with the NATIVE key when it is done, and the worker  *)
(* that dequeues it calls the user back and frees it.                      *)
(*                                                                         *)
(* There is no lock around any of it but the one for the list of files:    *)
(* an action is one access to shared memory, to the port or to the kernel, *)
(* with the code of the thread up to the next such access.                 *)
(***************************************************************************)
EXTENDS Integers, Sequences, FiniteSets

CONSTANTS Clients,    \* threads of the program that use the service
          Workers,    \* the AioWorkers of startServing(desiredThreads)
          Files,      \* AioFile objects
          Requests,   \* calls of fileRead and fileWrite, each made once
          Reads,      \* those of them that are fileRead
          None,       \* neither a request nor a file
          Vista,      \* _WIN32_WINNT >= 0x0600
          Env         \* what the program and the system may do

Threads == Clients \union Workers

\* "nested": a callback issues requests.  "stopInside": a callback calls
\* shutdown().  "throw": an exception leaves a callback.  "reopen": a file is
\* closed, and opened again.  "overlap": the service is used or shut down
\* before startServing returned.  "startFails": Thread::start throws.
\* "postFails": PostQueuedCompletionStatus has no memory.
EnvChoices ==
  {"nested", "stopInside", "throw", "reopen", "overlap", "startFails",
   "postFails"}

ASSUME ServiceAssumption ==
  /\ IsFiniteSet(Workers) /\ IsFiniteSet(Requests)
  /\ Clients \intersect Workers = {}
  /\ Reads \subseteq Requests
  /\ None \notin Requests \union Files
  /\ Vista \in BOOLEAN
  /\ Env \subseteq EnvChoices

VARIABLES
  state,       \* _state
  port,        \* the completion port: NULL, open, or closed and NULL again
  packets,     \* what is queued at the port, oldest first
  pending,     \* _pending
  threads,     \* _threads
  handle,      \* AioFile::_handle of each file, and whether the port knows it
  owned,       \* AioFile::_owner of each file is this service
  overlapped,  \* the OVERLAPPED_EX of each request
  target,      \* OVERLAPPED_EX::aioFile of each request
  io,          \* what the kernel does for each request
  issuer,      \* the thread that issued the IO of a request
  calls,       \* history: how often each request's callback was called
  doing,       \* where each worker is in AioWorker::run
  holds,       \* overlappedEx of each worker, as the request it belongs to
  result,      \* winErr of each worker after ReadFile or WriteFile
  pc,          \* where each thread is in a function of the service
  arg,         \* the request that thread makes
  joins,       \* the workers shutdown() has counted
  local        \* i, then the value read by _pending--, in shutdown()

serviceVars == <<state, port, packets, pending, threads>>
fileVars == <<handle, owned>>
requestVars == <<overlapped, target, io, issuer, calls>>
workerVars == <<doing, holds, result>>
callerVars == <<pc, arg>>
stopVars == <<joins, local>>
vars == <<serviceVars, fileVars, requestVars, workerVars, callerVars, stopVars>>

States == {"none", "started", "shutdown"}

WorkerStates ==
  {"none",    \* not created
   "failed",  \* in _threads, but Thread::start threw
   "wait",    \* in GetQueuedCompletionStatus
   "submit",  \* about to call ReadFile or WriteFile
   "decide",  \* about to look at winErr
   "early",   \* in the callback of an operation that completed at once
   "read",    \* in the callback of case OP_READ_FILE
   "write",   \* in the callback of case OP_WRITE_FILE
   "ended"}

InCallback == {"early", "read", "write"}

\* What ReadFile, WriteFile and the dequeued packet of an operation report.
Results == {"ok", "eof", "failed", "aborted", "queued"}

ResultsOf(r) == {"ok", "failed"} \union (IF r \in Reads THEN {"eof"} ELSE {})

Packet(key, r, res) == [key |-> key, req |-> r, res |-> res]
ShutdownPacket == Packet("server", None, "ok")

-----------------------------------------------------------------------------
Init ==
  /\ state = "none"
  /\ port = "null"
  /\ packets = <<>>
  /\ pending = 0
  /\ threads = {}
  /\ handle = [f \in Files |-> "open"]
  /\ owned = [f \in Files |-> FALSE]
  /\ overlapped = [r \in Requests |-> "none"]
  /\ target = [r \in Requests |-> None]
  /\ io = [r \in Requests |-> "none"]
  /\ issuer = [r \in Requests |-> None]
  /\ calls = [r \in Requests |-> 0]
  /\ doing = [w \in Workers |-> "none"]
  /\ holds = [w \in Workers |-> None]
  /\ result = [w \in Workers |-> "ok"]
  /\ pc = [a \in Threads |-> "out"]
  /\ arg = [a \in Threads |-> None]
  /\ joins = {}
  /\ local = 0

\* Where a thread may call the service, for what a callback may do.
MayCall(a, kind) ==
  /\ pc[a] = "out"
  /\ \/ a \in Clients
     \/ a \in Workers /\ doing[a] \in InCallback /\ kind \in Env

Starting == \E c \in Clients : pc[c] \in {"port", "spawn"}

At(a, place) == pc' = [pc EXCEPT ![a] = place]

-----------------------------------------------------------------------------
(* startServing.                                                           *)

\* The compare-and-exchange on _state; a second call throws.
StartServing(c) ==
  /\ pc[c] = "out"
  /\ state = "none"
  /\ state' = "started"
  /\ At(c, "port")
  /\ UNCHANGED <<port, packets, pending, threads, fileVars, requestVars,
                 workerVars, arg, stopVars>>

CreatePort(c) ==
  /\ pc[c] = "port"
  /\ port' = "open"
  /\ At(c, "spawn")
  /\ UNCHANGED <<state, packets, pending, threads, fileVars, requestVars,
                 workerVars, arg, stopVars>>

\* One round of the loop: the worker is in the list before it is started.
SpawnWorker(c, w) ==
  /\ pc[c] = "spawn"
  /\ w \notin threads
  /\ threads' = threads \union {w}
  /\ \/ /\ doing' = [doing EXCEPT ![w] = "wait"]
        /\ At(c, IF threads' = Workers THEN "out" ELSE "spawn")
     \/ /\ "startFails" \in Env
        /\ doing' = [doing EXCEPT ![w] = "failed"]
        /\ At(c, "out")
  /\ UNCHANGED <<state, port, packets, pending, fileVars, requestVars, holds,
                 result, arg, stopVars>>

-----------------------------------------------------------------------------
(* fileRead and fileWrite.                                                 *)

\* The tests at the start.  A request that is turned away here leaves no
\* trace and may be made again.
Request(a, r, f) ==
  /\ MayCall(a, "nested")
  /\ "overlap" \in Env \/ ~Starting
  /\ overlapped[r] = "none"
  /\ \A b \in Threads : arg[b] # r
  /\ handle[f] # "closed"
  /\ state = "started"
  /\ At(a, IF owned[f] THEN "count" ELSE "add")
  /\ arg' = [arg EXCEPT ![a] = r]
  /\ target' = [target EXCEPT ![r] = f]
  /\ UNCHANGED <<serviceVars, fileVars, overlapped, io, issuer, calls,
                 workerVars, stopVars>>

Throw(a) ==
  /\ At(a, "out")
  /\ arg' = [arg EXCEPT ![a] = None]

\* addFile, but for the list of files, which only CancelIo reads.
\* CreateIoCompletionPort fails for a handle that has a port, and
\* makes another port when _completionPort is NULL.  The store of _owner is
\* taken with it: who reads _owner in between does what he would have done
\* before.
AddFile(a) ==
  LET f == target[arg[a]] IN
  /\ pc[a] = "add"
  /\ IF handle[f] = "open"
     THEN /\ handle' = [handle EXCEPT ![f] = IF port = "open" THEN "linked"
                                                             ELSE "astray"]
          /\ owned' = [owned EXCEPT ![f] = TRUE]
          /\ At(a, "count")
          /\ UNCHANGED <<arg, target>>
     ELSE /\ Throw(a)
          /\ target' = [target EXCEPT ![arg[a]] = None]
          /\ UNCHANGED fileVars
  /\ UNCHANGED <<serviceVars, overlapped, io, issuer, calls, workerVars,
                 stopVars>>

\* new OVERLAPPED_EX; InterlockedIncrement(&_pending)
CountUp(a) ==
  /\ pc[a] = "count"
  /\ overlapped' = [overlapped EXCEPT ![arg[a]] = "live"]
  /\ pending' = pending + 1
  /\ At(a, "post")
  /\ UNCHANGED <<state, port, packets, threads, fileVars, target, io, issuer,
                 calls, workerVars, arg, stopVars>>

\* PostQueuedCompletionStatus, and its failure.
Post(a) ==
  /\ pc[a] = "post"
  /\ \/ /\ port = "open"
        /\ packets' = Append(packets, Packet("server", arg[a], "ok"))
        /\ UNCHANGED <<pending, overlapped>>
     \/ /\ port # "open" \/ "postFails" \in Env
        /\ pending' = pending - 1
        /\ overlapped' = [overlapped EXCEPT ![arg[a]] = "refused"]
        /\ UNCHANGED packets
  /\ Throw(a)
  /\ UNCHANGED <<state, port, threads, fileVars, target, io, issuer, calls,
                 workerVars, stopVars>>

-----------------------------------------------------------------------------
(* The kernel.                                                             *)

\* The IO was started or, before Vista, is already done, and the kernel has
\* posted or will post a packet (mutant: without the #if).
MutCompletionQueued(res) == res = "queued"

completionQueued(res) == res = "queued" \/ (res = "ok" /\ ~Vista)

\* An operation in flight ends, if it was cancelled perhaps by that.  Its
\* packet comes to the port the file's handle was associated with.
Complete(r) ==
  /\ io[r] \in {"flying", "cancelled", "unheard"}
  /\ io' = [io EXCEPT ![r] = "over"]
  /\ \E res \in IF io[r] = "cancelled" THEN {"ok", "aborted"} ELSE ResultsOf(r) :
       packets' = IF io[r] # "unheard" /\ port = "open"
                  THEN Append(packets, Packet("native", r, res)) ELSE packets
  /\ UNCHANGED <<state, port, pending, threads, fileVars, overlapped, target,
                 issuer, calls, workerVars, callerVars, stopVars>>

\* CancelIo for every file, or the end of the thread: the IO it issued.
Cancel(w) ==
  io' = [r \in Requests |-> IF io[r] = "flying" /\ issuer[r] = w
                            THEN "cancelled" ELSE io[r]]

-----------------------------------------------------------------------------
(* A worker: AioWorker::run and process().                                 *)

\* GetQueuedCompletionStatus returns the oldest packet to a waiting worker.
Dequeues(w, p) ==
  /\ doing[w] = "wait"
  /\ port = "open"
  /\ packets # <<>>
  /\ p = Head(packets)
  /\ packets' = Tail(packets)

\* InterlockedDecrement(&_pending), whatever the key of the packet is.
MutCountDown(key) == pending' = IF key = "native" THEN pending - 1 ELSE pending

CountDown(key) == pending' = pending - 1

Goes(w, place, r) ==
  /\ doing' = [doing EXCEPT ![w] = place]
  /\ holds' = [holds EXCEPT ![w] = r]

Called(r) == calls' = [calls EXCEPT ![r] = @ + 1]

\* OP_SHUTDOWN: cancel, and leave the thread.
TakeShutdown(w) ==
  /\ Dequeues(w, ShutdownPacket)
  /\ Cancel(w)
  /\ Goes(w, "ended", None)
  /\ UNCHANGED <<state, port, pending, threads, fileVars, overlapped, target,
                 issuer, calls, result, callerVars, stopVars>>

\* COMPLETION_KEY_SERVER: the request itself.
TakeRequest(w, r) ==
  /\ Dequeues(w, Packet("server", r, "ok"))
  /\ CountDown("server")
  /\ Goes(w, "submit", r)
  /\ UNCHANGED <<state, port, threads, fileVars, requestVars, result,
                 callerVars, stopVars>>

MutCaseOf(r) == "read"

CaseOf(r) == IF r \in Reads THEN "read" ELSE "write"

\* COMPLETION_KEY_NATIVE: its IO is over.
TakeCompletion(w, r) ==
  /\ \E res \in Results : Dequeues(w, Packet("native", r, res))
  /\ CountDown("native")
  /\ Goes(w, CaseOf(r), r)
  /\ Called(r)
  /\ UNCHANGED <<state, port, threads, fileVars, overlapped, target, io,
                 issuer, result, callerVars, stopVars>>

\* The port was closed under a worker that shutdown() did not count.
Abandoned(w) ==
  /\ doing[w] = "wait"
  /\ port = "closed"
  /\ Cancel(w)
  /\ Goes(w, "ended", None)
  /\ UNCHANGED <<serviceVars, fileVars, overlapped, target, issuer, calls,
                 result, callerVars, stopVars>>

\* ReadFile or WriteFile.
Submit(w) ==
  LET r == holds[w]
      heard == handle[target[r]] = "linked"
  IN
  /\ doing[w] = "submit"
  /\ \E res \in ResultsOf(r) \union {"queued"} :
       /\ handle[target[r]] = "closed" => res = "failed"
       /\ io' = [io EXCEPT ![r] = IF res # "queued" THEN "over"
                                  ELSE IF heard THEN "flying" ELSE "unheard"]
       /\ packets' = IF res = "ok" /\ ~Vista /\ heard
                     THEN Append(packets, Packet("native", r, res))
                     ELSE packets
       /\ result' = [result EXCEPT ![w] = res]
  /\ issuer' = [issuer EXCEPT ![r] = w]
  /\ Goes(w, "decide", r)
  /\ UNCHANGED <<state, port, pending, threads, fileVars, overlapped, target,
                 calls, callerVars, stopVars>>

\* "Trigger callback if completed immediately or failed" (mutant: never)
MutDecide(w) ==
  /\ doing[w] = "decide"
  /\ Goes(w, "wait", None)
  /\ result' = [result EXCEPT ![w] = "ok"]
  /\ UNCHANGED <<serviceVars, fileVars, requestVars, callerVars, stopVars>>

Decide(w) ==
  /\ doing[w] = "decide"
  /\ IF completionQueued(result[w])
     THEN Goes(w, "wait", None) /\ UNCHANGED calls
     ELSE Goes(w, "early", holds[w]) /\ Called(holds[w])
  /\ result' = [result EXCEPT ![w] = "ok"]
  /\ UNCHANGED <<serviceVars, fileVars, overlapped, target, io, issuer,
                 callerVars, stopVars>>

\* The callback of an operation that completed at once: its OVERLAPPED_EX
\* is not freed.
EarlyReturns(w) ==
  /\ doing[w] = "early"
  /\ pc[w] = "out"
  /\ Goes(w, "wait", None)
  /\ UNCHANGED <<serviceVars, fileVars, requestVars, result, callerVars,
                 stopVars>>

\* case OP_READ_FILE has no break.
ReadReturns(w) ==
  /\ doing[w] = "read"
  /\ pc[w] = "out"
  /\ Goes(w, "write", holds[w])
  /\ Called(holds[w])
  /\ UNCHANGED <<serviceVars, fileVars, overlapped, target, io, issuer,
                 result, callerVars, stopVars>>

WriteReturns(w) ==
  /\ doing[w] = "write"
  /\ pc[w] = "out"
  /\ overlapped' = [overlapped EXCEPT ![holds[w]] = "freed"]
  /\ Goes(w, "wait", None)
  /\ UNCHANGED <<serviceVars, fileVars, target, io, issuer, calls, result,
                 callerVars, stopVars>>

\* An exception is caught in the function the thread was started with.
CallbackThrows(w) ==
  /\ "throw" \in Env
  /\ doing[w] \in InCallback
  /\ pc[w] = "out"
  /\ Cancel(w)
  /\ Goes(w, "ended", None)
  /\ UNCHANGED <<serviceVars, fileVars, overlapped, target, issuer, calls,
                 result, callerVars, stopVars>>

-----------------------------------------------------------------------------
(* shutdown, and the destructor, which is the same.                        *)

\* size_t workerCount = _threads.size();
MutCounted == Workers

Counted == threads

Shutdown(a) ==
  /\ MayCall(a, "stopInside")
  /\ "overlap" \in Env \/ ~Starting
  /\ state' = "shutdown"
  /\ IF state = "started"
     THEN /\ joins' = Counted
          /\ local' = Cardinality(Counted)
          /\ At(a, IF Counted = {} THEN "drain" ELSE "wake")
     ELSE UNCHANGED <<pc, stopVars>>
  /\ UNCHANGED <<port, packets, pending, threads, fileVars, requestVars,
                 workerVars, arg>>

\* The end of the loop that posts (mutant: after one round).
MutLastRound == TRUE

LastRound == local = 1

\* One OP_SHUTDOWN packet for each worker.
PostShutdown(a) ==
  /\ pc[a] = "wake"
  /\ \/ /\ port = "open"
        /\ packets' = Append(packets, ShutdownPacket)
        /\ local' = local - 1
        /\ At(a, IF LastRound THEN "join" ELSE "wake")
     \/ /\ port # "open" \/ "postFails" \in Env
        /\ At(a, "out")
        /\ UNCHANGED <<packets, local>>
  /\ UNCHANGED <<state, port, pending, threads, fileVars, requestVars,
                 workerVars, arg, joins>>

MutAllEnded == \E w \in joins : doing[w] = "ended"

AllEnded == \A w \in joins : doing[w] = "ended"

\* join() throws for the worker whose thread was never there.
Join(a) ==
  /\ pc[a] = "join"
  /\ \/ AllEnded /\ At(a, "drain")
     \/ /\ \E w \in joins : doing[w] = "failed"
        /\ \A w \in joins : doing[w] \in {"failed", "ended"}
        /\ At(a, "out")
  /\ UNCHANGED <<serviceVars, fileVars, requestVars, workerVars, arg, stopVars>>

\* A round of while (_pending > 0): wait for a packet, free what it is about
\* unless it failed, and read _pending for _pending--.  The OP_SHUTDOWN
\* packet is not on the heap.
Drain(a) ==
  /\ pc[a] = "drain"
  /\ pending > 0
  /\ packets # <<>> \/ port # "open"
  /\ LET p == Head(packets) IN
     IF port # "open"
     THEN At(a, "store") /\ UNCHANGED <<packets, overlapped>>
     ELSE /\ packets' = Tail(packets)
          /\ At(a, IF p = ShutdownPacket THEN "abort" ELSE "store")
          /\ overlapped' = [r \in Requests |->
               IF p.req = r /\ p.res \in {"ok", "aborted"} THEN "drained"
                                                        ELSE overlapped[r]]
  /\ local' = pending
  /\ UNCHANGED <<state, port, pending, threads, fileVars, target, io, issuer,
                 calls, workerVars, arg, joins>>

\* The other half of _pending--, which is not interlocked.
StorePending(a) ==
  /\ pc[a] = "store"
  /\ pending' = local - 1
  /\ local' = 0
  /\ At(a, "drain")
  /\ UNCHANGED <<state, port, packets, threads, fileVars, requestVars,
                 workerVars, arg, joins>>

ClosePort(a) ==
  /\ pc[a] = "drain"
  /\ pending <= 0
  /\ port' = IF port = "null" THEN "null" ELSE "closed"
  /\ packets' = <<>>
  /\ At(a, "out")
  /\ UNCHANGED <<state, pending, threads, fileVars, requestVars, workerVars,
                 arg, stopVars>>

-----------------------------------------------------------------------------
(* AioFile.  A careful program touches a file only when the callback of     *)
(* every request it made for it has been called.                           *)

Answered(f) ==
  /\ \A r \in Requests :
       target[r] = f => calls[r] > 0 \/ overlapped[r] = "refused"
  /\ \A a \in Threads : pc[a] \in {"add", "count", "post"} => target[arg[a]] # f

\* AioFile::close, which keeps _owner.
CloseFile(f) ==
  /\ "reopen" \in Env
  /\ handle[f] # "closed"
  /\ Answered(f)
  /\ handle' = [handle EXCEPT ![f] = "closed"]
  /\ UNCHANGED <<serviceVars, owned, requestVars, workerVars,
                 callerVars, stopVars>>

\* AioFile::open
OpenFile(f) ==
  /\ handle[f] = "closed"
  /\ handle' = [handle EXCEPT ![f] = "open"]
  /\ UNCHANGED <<serviceVars, owned, requestVars, workerVars,
                 callerVars, stopVars>>

-----------------------------------------------------------------------------
RequestStep(a) ==
  \/ \E r \in Requests, f \in Files : Request(a, r, f)
  \/ AddFile(a) \/ CountUp(a) \/ Post(a)

StopStep(a) ==
  \/ Shutdown(a) \/ PostShutdown(a) \/ Join(a)
  \/ Drain(a) \/ StorePending(a) \/ ClosePort(a)

WorkerStep(w) ==
  \/ TakeShutdown(w) \/ Abandoned(w)
  \/ \E r \in Requests : TakeRequest(w, r) \/ TakeCompletion(w, r)
  \/ Submit(w) \/ Decide(w)
  \/ EarlyReturns(w) \/ ReadReturns(w) \/ WriteReturns(w) \/ CallbackThrows(w)

Next ==
  \/ \E c \in Clients :
       \/ StartServing(c) \/ CreatePort(c)
       \/ \E w \in Workers : SpawnWorker(c, w)
  \/ \E a \in Threads : RequestStep(a) \/ StopStep(a)
  \/ \E w \in Workers : WorkerStep(w)
  \/ \E r \in Requests : Complete(r)
  \/ \E f \in Files : CloseFile(f) \/ OpenFile(f)

Spec == Init /\ [][Next]_vars

\* Every thread runs, callbacks return, and the kernel finishes what it was
\* asked to do.  Nobody has to call the service.
Fairness ==
  /\ \A a \in Threads :
       /\ WF_vars(AddFile(a)) /\ WF_vars(CountUp(a)) /\ WF_vars(Post(a))
       /\ WF_vars(PostShutdown(a)) /\ WF_vars(Join(a)) /\ WF_vars(Drain(a))
       /\ WF_vars(StorePending(a)) /\ WF_vars(ClosePort(a))
  /\ \A w \in Workers : WF_vars(WorkerStep(w))
  /\ \A r \in Requests : WF_vars(Complete(r))

FairSpec == Spec /\ Fairness

-----------------------------------------------------------------------------
(* Properties.                                                             *)

Packets ==
  [key : {"server", "native"}, req : Requests \union {None}, res : Results]

TypeOK ==
  /\ state \in States /\ port \in {"null", "open", "closed"}
  /\ packets \in Seq(Packets)
  /\ pending \in Int /\ local \in Int
  /\ threads \subseteq Workers /\ joins \subseteq threads
  /\ handle \in [Files -> {"open", "linked", "astray", "closed"}]
  /\ owned \in [Files -> BOOLEAN]
  /\ overlapped \in
       [Requests -> {"none", "live", "refused", "freed", "drained"}]
  /\ target \in [Requests -> Files \union {None}]
  /\ io \in [Requests -> {"none", "flying", "cancelled", "unheard", "over"}]
  /\ issuer \in [Requests -> Workers \union {None}]
  /\ calls \in [Requests -> 0..2]
  /\ doing \in [Workers -> WorkerStates]
  /\ holds \in [Workers -> Requests \union {None}]
  /\ result \in [Workers -> Results]
  /\ pc \in [Threads -> {"out", "port", "spawn", "add", "count", "post",
                         "wake", "join", "drain", "store", "abort"}]
  /\ arg \in [Threads -> Requests \union {None}]

\* Who has an OVERLAPPED_EX in his hands and will touch it: the thread that
\* makes the request, the port, the kernel, a worker.
Posting(r) == {a \in Threads : pc[a] = "post" /\ arg[a] = r}
InPort(r) == {i \in DOMAIN packets : packets[i].req = r}
InFlight(r) == io[r] \in {"flying", "cancelled"}
Touching(r) ==
  {w \in Workers :
     /\ holds[w] = r
     /\ doing[w] = "decide" => ~completionQueued(result[w])}

Holders(r) ==
  Cardinality(Posting(r)) + Cardinality(InPort(r)) + Cardinality(Touching(r))
    + (IF InFlight(r) THEN 1 ELSE 0)

\* An OVERLAPPED_EX has one owner at a time, who has it before it is freed: the
\* thread that called ReadFile does not look at it again when the kernel may
\* already have posted it, and no callback runs while the kernel still has
\* the buffer.
OneOwner ==
  \A r \in Requests :
    /\ Holders(r) <= 1
    /\ Holders(r) = 1 => overlapped[r] = "live"

\* A request that was accepted and not answered is in somebody's hands, for
\* as long as the service runs: none is lost between the port, the kernel
\* and the workers, but where the handle of its file is not known to the port.
NoneForgotten ==
  \A r \in Requests :
    state = "started" /\ overlapped[r] = "live" /\ calls[r] = 0
      => Holders(r) = 1 \/ handle[target[r]] # "linked"

\* The callback of a write is called once at most, and that of a read which
\* completed at once, although no lock says which thread is to call it.
CallbackCount ==
  \A r \in Requests :
    calls[r] > 1 =>
      /\ r \in Reads
      /\ \A w \in Workers : holds[w] = r => doing[w] # "early"

\* There is an OP_SHUTDOWN packet for every worker that shutdown() joins, and
\* no other worker takes it.
Alive(w) == doing[w] \notin {"none", "failed", "ended"}

JoinAttended ==
  \A a \in Threads : pc[a] = "join" =>
    Cardinality(InPort(None)) >= Cardinality({w \in joins : Alive(w)})

\* The drain loop of shutdown() waits for a packet only when there is one or
\* a thread is about to post it: _pending may be too small, never too large.
DrainNotStarved ==
  \A a \in Threads :
    pc[a] = "drain" /\ pending > 0
      => packets # <<>> \/ \E b \in Threads : pc[b] = "post"

\* FileService.h: "When the OS indicates that IO has completed, a worker
\* thread will trigger the passed user callback."  Once for each request.
CalledBackOnce == \A r \in Requests : calls[r] <= 1

\* The comment in shutdown(): it "polls until the completion queue is emptied
\* and we've freed all the OVERLAPPED_EX structs".  Then the kernel has none
\* of them when shutdown() returns, and writes to no buffer of the program.
NoneInFlight ==
  port = "closed" => \A r \in Requests : ~InFlight(r)

\* A request is answered while the service runs, if the port knows the
\* handle of its file.
RequestAnswered ==
  \A r \in Requests :
    overlapped[r] = "live" ~>
      \/ calls[r] > 0 \/ overlapped[r] = "refused" \/ state = "shutdown"
      \/ \E f \in Files : target[r] = f /\ handle[f] # "linked"

\* shutdown() returns.
ShutdownReturns ==
  \A a \in Threads :
    pc[a] \in {"wake", "join", "drain", "store"} ~> pc[a] = "out"

\* The service does what AsyncIO promises.
Status ==
  [r \in Requests |->
     IF calls[r] > 0 THEN "answered"
     ELSE IF overlapped[r] = "refused" THEN "refused"
     ELSE IF overlapped[r] = "none" \/ Posting(r) # {} THEN "fresh"
     ELSE "accepted"]

Abstract == INSTANCE AsyncIO WITH status <- Status, up <- (port = "open")

\* Requests are accepted and answered only while the service is up, what was
\* refused is never answered, and after shutdown() nothing is.
ImplementsAsyncIO == Abstract!IOSpec
=============================================================================
