---------------------------- MODULE SocketService ----------------------------
(***************************************************************************)
(* ge's SocketService on Windows (src/win/ge/aio/SocketService.cpp): the    *)
(* sockets' side of the completion port.  startServing, shutdown, the       *)
(* counting of requests, the port and the loop of a worker are those of     *)
(* FileService.cpp, line by line, so that their actions are FileService's   *)
(* with sockets for files and no request a file read: a request that came   *)
(* back from the kernel is called back once, in the place FileService calls *)
(* "write".  The rest is here: what accept and connect do to their sockets, *)
(* which error process() reads after the system call, and AioSocket.        *)
(* AioSocket::init takes no lock: the test of _winSocket by its caller, its  *)
(* own test, and the store of the new system socket are an action each.      *)
(***************************************************************************)
EXTENDS Integers, Sequences, FiniteSets

CONSTANTS Clients, Workers, Requests, None,
          Sockets,    \* AioSocket objects
          Programs,   \* what the program may ask: functions to Calls
          Env         \* what the program and the system may do

\* A call: its opcode, the socket it is for, the socket it accepts into, the
\* threads that may make it and whether its callback may throw.
Kinds == {"accept", "connect", "recv", "send", "file"}
Calls == [kind : Kinds, on : Sockets, into : Sockets \union {None},
          by : SUBSET (Clients \union Workers), throws : BOOLEAN]

\* FileService's EnvChoices but for a shutdown() that overlaps startServing:
\* only that abandons a worker (ERROR_ABANDONED_WAIT_0 in process()).
SocketEnv ==
  {"nested", "stopInside", "throw", "reopen", "startFails", "postFails"}

ASSUME SocketAssumption ==
  /\ Env \subseteq SocketEnv
  /\ None \notin Requests \union Sockets
  /\ Clients \intersect Workers = {}
  /\ \A p \in Programs :
       /\ p \in [Requests -> Calls]
       /\ \A r \in Requests : p[r].kind = "accept" => p[r].into # None

VARIABLES
  state, port, packets, pending, threads,
  handle, owned,      \* AioSocket::_winSocket and _owner
  overlapped, target, io, issuer, calls,
  doing, holds, result, pc, arg, joins, local,
  vista,       \* _WIN32_WINNT >= 0x0600
  program,     \* opCode, aioSocket and acceptedSocket of each request
  bound,       \* the system's socket has a local address
  initializing,   \* sockets the program itself is in AioSocket::init of
  raced,       \* history: sockets whose system socket init() replaced
  lastError,   \* what WSAGetLastError() would return to each worker
  misread      \* history: requests whose winErr is not that of their own call

serviceVars == <<state, port, packets, pending, threads>>
requestVars == <<overlapped, io, issuer, calls>>
workerVars == <<doing, holds, result>>
stopVars == <<joins, local>>
fixedVars == <<vista, program>>
initVars == <<bound, initializing, raced>>
socketVars == <<fixedVars, initVars, lastError, misread>>
vars == <<serviceVars, handle, owned, requestVars, target, workerVars, pc, arg,
          stopVars, socketVars>>

Threads == Clients \union Workers

F == INSTANCE FileService WITH Files <- Sockets, Reads <- {}, Vista <- TRUE

Init ==
  /\ state = "none" /\ port = "null" /\ packets = <<>>
  /\ pending = 0 /\ threads = {}
  /\ handle = [s \in Sockets |-> "closed"]
  /\ owned = [s \in Sockets |-> FALSE]
  /\ overlapped = [r \in Requests |-> "none"]
  /\ target = [r \in Requests |-> None]
  /\ io = [r \in Requests |-> "none"]
  /\ issuer = [r \in Requests |-> None]
  /\ calls = [r \in Requests |-> 0]
  /\ doing = [w \in Workers |-> "none"]
  /\ holds = [w \in Workers |-> None]
  /\ result = [w \in Workers |-> "ok"]
  /\ pc = [a \in Threads |-> "out"]
  /\ arg = [a \in Threads |-> None]
  /\ joins = {} /\ local = 0
  /\ vista \in BOOLEAN
  /\ program \in Programs
  /\ bound = [s \in Sockets |-> FALSE]
  /\ initializing = {} /\ raced = {}
  /\ lastError = [w \in Workers |-> "ok"]
  /\ misread = {}

-----------------------------------------------------------------------------
(* AioSocket.  A careful program closes a socket it has used, when every    *)
(* request it made for it has been answered.  It touches its sockets while  *)
(* the service is open: what it does to them before, nobody can tell from   *)
(* doing it then, and after shutdown() no request is taken.                 *)

kind(r) == program[r].kind

Uses(r, s) == target[r] # None /\ s \in {program[r].on, program[r].into}

Answered(s) ==
  /\ \A r \in Requests :
       Uses(r, s) => calls[r] > 0 \/ overlapped[r] = "refused"
  /\ \A a \in Threads : arg[a] # None => ~Uses(arg[a], s)

\* ... and only for a request it has not made yet: after that, nobody can tell
\* either.
Wanted(s) ==
  /\ state = "started"
  /\ \E r \in Requests :
       overlapped[r] = "none" /\ s \in {program[r].on, program[r].into}

Touched ==
  UNCHANGED <<serviceVars, owned, requestVars, target, workerVars, pc, arg,
              stopVars, fixedVars, lastError, misread>>

\* _winSocket = ::WSASocket(...), with SetFileCompletionNotificationModes:
\* a new system socket, which the port does not know and which is not bound.
\* One that another thread stored meanwhile is lost.
Renew(s) ==
  /\ handle' = [handle EXCEPT ![s] = "open"]
  /\ bound' = [bound EXCEPT ![s] = FALSE]
  /\ raced' = IF handle[s] = "closed" THEN raced ELSE raced \union {s}

\* AioSocket::init, called by the program for a socket it does not connect
\* (socketConnect does that itself): its test of _winSocket.
InitSocket(s) ==
  /\ Wanted(s)
  /\ \A r \in Requests : program[r].on = s => kind(r) # "connect"
  /\ handle[s] = "closed"
  /\ s \notin initializing
  /\ initializing' = initializing \union {s}
  /\ UNCHANGED <<handle, bound, raced>>
  /\ Touched

\* ... and what follows it.
InitStores(s) ==
  /\ s \in initializing
  /\ Renew(s)
  /\ initializing' = initializing \ {s}
  /\ Touched

\* AioSocket::close, which keeps _owner.
CloseSocket(s) ==
  /\ "reopen" \in Env
  /\ Wanted(s)
  /\ handle[s] # "closed"
  /\ \E r \in Requests : Uses(r, s)
  /\ Answered(s) /\ s \notin initializing
  /\ handle' = [handle EXCEPT ![s] = "closed"]
  /\ bound' = [bound EXCEPT ![s] = FALSE]
  /\ raced' = raced \ {s}
  /\ UNCHANGED initializing
  /\ Touched

\* AioSocket::bind, called by the program (for the sockets it connects).
BindSocket(s) ==
  /\ Wanted(s)
  /\ \E r \in Requests : kind(r) = "connect" /\ program[r].on = s
  /\ handle[s] # "closed"
  /\ ~bound[s]
  /\ bound' = [bound EXCEPT ![s] = TRUE]
  /\ UNCHANGED <<handle, initializing, raced>>
  /\ Touched

-----------------------------------------------------------------------------
(* startServing.                                                           *)

StartServing(c) == F!StartServing(c) /\ UNCHANGED socketVars

CreatePort(c) == F!CreatePort(c) /\ UNCHANGED socketVars

SpawnWorker(c, w) == F!SpawnWorker(c, w) /\ UNCHANGED socketVars

-----------------------------------------------------------------------------
(* socketAccept, socketConnect, socketRead, socketWrite, socketSendFile.    *)

\* What a request does once its first socket belongs to the service
\* (mutant: ConnectEx without the bind it requires).
MutNextStep(r) == IF kind(r) = "accept" THEN "partner" ELSE "count"

NextStep(r) ==
  CASE kind(r) = "accept" -> "partner"
    [] kind(r) = "connect" -> "bind"
    [] OTHER -> "count"

\* The start of all five: a request that is turned away here leaves no trace.
Enter(a, r, place) ==
  /\ a \in program[r].by
  /\ F!MayCall(a, "nested")
  /\ ~F!Starting
  /\ overlapped[r] = "none"
  /\ \A b \in Threads : arg[b] # r
  /\ state = "started"
  /\ F!At(a, place)
  /\ arg' = [arg EXCEPT ![a] = r]
  /\ target' = [target EXCEPT ![r] = program[r].on]
  /\ UNCHANGED <<serviceVars, handle, owned, requestVars, workerVars, stopVars,
                 socketVars>>

\* "Cannot accept on uninitialized or closed socket", and so on.
EnterWithSocket(a, r) ==
  /\ handle[program[r].on] # "closed"
  /\ Enter(a, r, IF owned[program[r].on] THEN NextStep(r) ELSE "add")

socketAccept(a, r) == kind(r) = "accept" /\ EnterWithSocket(a, r)

\* The test of _winSocket before init(), of the socket of a connect and of
\* the one an accept fills in.
Tested(s) == IF handle[s] = "closed" THEN "init" ELSE "owner"

\* Only connect initializes the socket it is for.
socketConnect(a, r) ==
  kind(r) = "connect" /\ Enter(a, r, Tested(program[r].on))

socketRead(a, r) == kind(r) = "recv" /\ EnterWithSocket(a, r)

socketWrite(a, r) == kind(r) = "send" /\ EnterWithSocket(a, r)

socketSendFile(a, r) == kind(r) = "file" /\ EnterWithSocket(a, r)

\* The request is given up by an exception before it was counted.
GiveUp(a) ==
  /\ F!Throw(a)
  /\ target' = [target EXCEPT ![arg[a]] = None]

Proceed(a, place) == F!At(a, place) /\ UNCHANGED <<arg, target>>

Preparing ==
  UNCHANGED <<serviceVars, requestVars, workerVars, stopVars, fixedVars,
              initializing, lastError, misread>>

\* addSocket: CreateIoCompletionPort fails if another thread was faster.
Associate(a, at, s, then) ==
  /\ pc[a] = at
  /\ IF handle[s] = "open"
     THEN /\ handle' = [handle EXCEPT ![s] = IF port = "open" THEN "linked"
                                                             ELSE "astray"]
          /\ Proceed(a, then)
     ELSE GiveUp(a) /\ UNCHANGED handle
  /\ UNCHANGED <<owned, bound, raced>>
  /\ Preparing

\* ... and _owner; the list of sockets is CancelIo's.
Own(a, at, s, then) ==
  /\ pc[a] = at
  /\ owned' = [owned EXCEPT ![s] = TRUE]
  /\ Proceed(a, then)
  /\ UNCHANGED <<handle, bound, raced>>
  /\ Preparing

\* The socket of the request.
AddTarget(a) ==
  \/ Associate(a, "add", target[arg[a]], "own")
  \/ Own(a, "own", target[arg[a]], NextStep(arg[a]))

\* The socket a connect or an accept initializes.
Fresh(r) == IF kind(r) = "accept" THEN program[r].into ELSE program[r].on

TestAccepting(a) ==
  /\ pc[a] = "partner"
  /\ Proceed(a, Tested(Fresh(arg[a])))
  /\ UNCHANGED <<handle, owned, bound, raced>>
  /\ Preparing

\* AioSocket::init: "Socket already initialized" ...
TestAgain(a) ==
  /\ pc[a] = "init"
  /\ IF handle[Fresh(arg[a])] = "closed" THEN Proceed(a, "create") ELSE GiveUp(a)
  /\ UNCHANGED <<handle, owned, bound, raced>>
  /\ Preparing

\* ... or a new system socket.
CreateSocket(a) ==
  /\ pc[a] = "create"
  /\ Renew(Fresh(arg[a]))
  /\ Proceed(a, "owner")
  /\ UNCHANGED owned
  /\ Preparing

TestOwner(a) ==
  LET r == arg[a] IN
  /\ pc[a] = "owner"
  /\ Proceed(a, IF kind(r) = "accept"
                THEN IF owned[Fresh(r)] THEN "count" ELSE "addInto"
                ELSE IF owned[Fresh(r)] THEN NextStep(r) ELSE "add")
  /\ UNCHANGED <<handle, owned, bound, raced>>
  /\ Preparing

\* The socket an accept fills in.
AddAccepting(a) ==
  \/ Associate(a, "addInto", Fresh(arg[a]), "ownInto")
  \/ Own(a, "ownInto", Fresh(arg[a]), "count")

\* "ConnectEx requires that the socket be bound": it throws if it is already.
Bind(a) ==
  LET s == target[arg[a]] IN
  /\ pc[a] = "bind"
  /\ IF bound[s] THEN GiveUp(a) ELSE Proceed(a, "count")
  /\ bound' = [bound EXCEPT ![s] = TRUE]
  /\ UNCHANGED <<handle, owned, raced>>
  /\ Preparing

CountUp(a) == F!CountUp(a) /\ UNCHANGED socketVars

Post(a) == F!Post(a) /\ UNCHANGED socketVars

-----------------------------------------------------------------------------
(* The kernel, and a worker: AioWorker::run and process().                  *)

Complete(r) == F!Complete(r) /\ UNCHANGED socketVars

\* The IO was started or, before Vista, is already done, and the kernel has
\* posted or will post a packet.
completionQueued(res) == res = "queued" \/ (res = "ok" /\ ~vista)

TakeShutdown(w) == F!TakeShutdown(w) /\ UNCHANGED socketVars

TakeRequest(w, r) == F!TakeRequest(w, r) /\ UNCHANGED socketVars

\* (mutant: a break too few, so that OP_RECV goes on into OP_SEND)
MutTakeCompletion(w, r) ==
  /\ \E res \in F!Results : F!Dequeues(w, F!Packet("native", r, res))
  /\ F!CountDown("native")
  /\ F!Goes(w, "write", r)
  /\ calls' = [calls EXCEPT ![r] = IF kind(r) = "recv" THEN @ + 2 ELSE @ + 1]
  /\ UNCHANGED <<state, port, threads, handle, owned, overlapped, target, io,
                 issuer, result, pc, arg, stopVars, socketVars>>

\* An operation that failed leaves its error with the thread.
TakeCompletion(w, r) ==
  /\ F!TakeCompletion(w, r)
  /\ lastError' = [lastError EXCEPT
                     ![w] = IF Head(packets).res = "ok" THEN @ ELSE "failed"]
  /\ UNCHANGED <<fixedVars, initVars, misread>>

\* What a call does, what it leaves as the thread's error, and winErr.  What
\* succeeds leaves the thread's error as it is or clears it.
Outcome(res, left, winErr) == [res |-> res, left |-> left, winErr |-> winErr]

NotDone == {Outcome(res, res, res) : res \in {"failed", "queued"}}

\* WSAGetLastError() is asked only if the call did not succeed.
OwnError(w) == NotDone \union {Outcome("ok", left, "ok") : left \in {lastError[w], "ok"}}

\* It is asked whatever the call did.
AnyError(w) == NotDone \union {Outcome("ok", left, left) : left \in {lastError[w], "ok"}}

\* AcceptEx, ConnectEx and TransmitFile.
Extension(w) == OwnError(w)

\* (mutant: like WSARecv)
MutWSASend(w) == AnyError(w)

WSASend(w) == OwnError(w)

\* OP_RECV tests bRet, which is that of the dequeue and TRUE.
WSARecv(w) == AnyError(w)

Calling(w, k) ==
  CASE k = "recv" -> WSARecv(w) [] k = "send" -> WSASend(w) [] OTHER -> Extension(w)

\* The system call of a request.
Submit(w) ==
  LET r == holds[w]
      heard == handle[target[r]] = "linked"
  IN
  /\ doing[w] = "submit"
  /\ \E out \in Calling(w, kind(r)) :
       /\ io' = [io EXCEPT ![r] = IF out.res # "queued" THEN "over"
                                  ELSE IF heard THEN "flying" ELSE "unheard"]
       /\ packets' = IF out.res = "ok" /\ ~vista /\ heard
                     THEN Append(packets, F!Packet("native", r, "ok"))
                     ELSE packets
       /\ result' = [result EXCEPT ![w] = out.winErr]
       /\ lastError' = [lastError EXCEPT ![w] = out.left]
       /\ misread' = IF out.winErr # out.res /\ kind(r) = "recv"
                     THEN misread \union {r} ELSE misread
  /\ issuer' = [issuer EXCEPT ![r] = w]
  /\ F!Goes(w, "decide", r)
  /\ UNCHANGED <<state, port, pending, threads, handle, owned, overlapped,
                 target, calls, pc, arg, stopVars, fixedVars, initVars>>

\* "Trigger callback if completed immediately or failed" (mutant: never)
MutDecide(w) ==
  /\ doing[w] = "decide"
  /\ F!Goes(w, "wait", None)
  /\ result' = [result EXCEPT ![w] = "ok"]
  /\ UNCHANGED <<serviceVars, handle, owned, requestVars, target, pc, arg,
                 stopVars, socketVars>>

Decide(w) ==
  /\ doing[w] = "decide"
  /\ IF completionQueued(result[w])
     THEN F!Goes(w, "wait", None) /\ UNCHANGED calls
     ELSE F!Goes(w, "early", holds[w]) /\ F!Called(holds[w])
  /\ result' = [result EXCEPT ![w] = "ok"]
  /\ UNCHANGED <<serviceVars, handle, owned, overlapped, io, issuer, target,
                 pc, arg, stopVars, socketVars>>

EarlyReturns(w) == F!EarlyReturns(w) /\ UNCHANGED socketVars

CompletionReturns(w) == F!WriteReturns(w) /\ UNCHANGED socketVars

CallbackThrows(w) ==
  /\ F!CallbackThrows(w)
  /\ program[holds[w]].throws
  /\ UNCHANGED socketVars

-----------------------------------------------------------------------------
(* shutdown, and the destructor, which is the same.                        *)

Shutdown(a) == F!Shutdown(a) /\ UNCHANGED socketVars

PostShutdown(a) == F!PostShutdown(a) /\ UNCHANGED socketVars

Join(a) == F!Join(a) /\ UNCHANGED socketVars

Drain(a) == F!Drain(a) /\ UNCHANGED socketVars

StorePending(a) == F!StorePending(a) /\ UNCHANGED socketVars

ClosePort(a) == F!ClosePort(a) /\ UNCHANGED socketVars

-----------------------------------------------------------------------------
WorkerStep(w) ==
  \/ TakeShutdown(w)
  \/ \E r \in Requests : TakeRequest(w, r) \/ TakeCompletion(w, r)
  \/ Submit(w) \/ Decide(w) \/ EarlyReturns(w) \/ CompletionReturns(w)
  \/ CallbackThrows(w)

\* What a thread does in a function of the service once it is there.
InService(a) ==
  \/ AddTarget(a) \/ TestAccepting(a) \/ TestAgain(a) \/ CreateSocket(a)
  \/ TestOwner(a) \/ AddAccepting(a) \/ Bind(a) \/ CountUp(a) \/ Post(a)
  \/ PostShutdown(a) \/ Join(a) \/ Drain(a) \/ StorePending(a) \/ ClosePort(a)

Next ==
  \/ \E c \in Clients :
       \/ StartServing(c) \/ CreatePort(c)
       \/ \E w \in Workers : SpawnWorker(c, w)
  \/ \E a \in Threads :
       \/ \E r \in Requests :
            \/ socketAccept(a, r) \/ socketConnect(a, r) \/ socketRead(a, r)
            \/ socketWrite(a, r) \/ socketSendFile(a, r)
       \/ Shutdown(a) \/ InService(a)
  \/ \E w \in Workers : WorkerStep(w)
  \/ \E r \in Requests : Complete(r)
  \/ \E s \in Sockets : InitSocket(s) \/ InitStores(s)
                       \/ CloseSocket(s) \/ BindSocket(s)

Spec == Init /\ [][Next]_vars

\* As in FileService: threads run, callbacks return, and the kernel ends
\* what it was asked to do.
Fairness ==
  /\ \A a \in Threads : WF_vars(InService(a))
  /\ \A w \in Workers : WF_vars(WorkerStep(w))
  /\ \A r \in Requests : WF_vars(Complete(r))

FairSpec == Spec /\ Fairness

-----------------------------------------------------------------------------
(* Properties.                                                             *)

\* The types of what FileService does not have.
TypeOK ==
  /\ handle \in [Sockets -> {"closed", "open", "linked", "astray"}]
  /\ owned \in [Sockets -> BOOLEAN] /\ bound \in [Sockets -> BOOLEAN]
  /\ lastError \in [Workers -> {"ok", "failed", "queued"}]
  /\ misread \subseteq {r \in Requests : kind(r) = "recv"}
  /\ initializing \subseteq Sockets /\ raced \subseteq Sockets
  /\ pc \in [Threads -> {"out", "port", "spawn", "add", "own", "partner", "init",
                         "create", "owner", "addInto", "ownInto", "bind", "count",
                         "post", "wake", "join", "drain", "store", "abort"}]
  /\ calls \in [Requests -> 0..2]

\* Who has an OVERLAPPED_EX in his hands and will touch it.
Touching(r) ==
  {w \in Workers :
     /\ holds[w] = r
     /\ doing[w] = "decide" => ~completionQueued(result[w])}

Holders(r) ==
  Cardinality(F!Posting(r)) + Cardinality(F!InPort(r))
    + Cardinality(Touching(r)) + (IF F!InFlight(r) THEN 1 ELSE 0)

\* On every Windows an OVERLAPPED_EX has one owner at a time, is not touched
\* after it was freed, and calls its user back once: no worker goes on with a request that
\* the kernel may have given to another worker.  The exception is a receive
\* whose error was not its own.
OneOwner ==
  \A r \in Requests \ misread :
    /\ Holders(r) <= 1 /\ calls[r] <= 1
    /\ Holders(r) = 1 => overlapped[r] = "live"

\* When a worker is about to call AcceptEx or ConnectEx, the accepting socket
\* exists and belongs to the service, and the connecting one is bound, however
\* the threads of the program share the sockets, reuse them and race to
\* initialize them.  A connecting socket that lost its system socket to such
\* a race may not be bound.
Prepared ==
  \A w \in Workers : doing[w] = "submit" =>
    LET r == holds[w] IN
    /\ handle[target[r]] # "closed"
    /\ kind(r) = "connect" => bound[target[r]] \/ target[r] \in raced
    /\ kind(r) = "accept" => LET t == program[r].into IN handle[t] # "closed" /\ owned[t]

\* A request is answered while the service runs, if the port knows its socket
\* and no race of init() replaced its system socket, process() read the
\* request's own error, and a worker is left that no callback has thrown out
\* of its thread.
RequestAnswered ==
  \A r \in Requests :
    overlapped[r] = "live" ~>
      \/ calls[r] > 0 \/ overlapped[r] = "refused" \/ state = "shutdown"
      \/ r \in misread
      \/ \E s \in Sockets : target[r] = s /\ (handle[s] # "linked" \/ s \in raced)
      \/ \A w \in Workers : doing[w] = "ended"

\* The service does what AsyncIO promises.
ImplementsAsyncIO == F!Abstract!IOSpec
=============================================================================
