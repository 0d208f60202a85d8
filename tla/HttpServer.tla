------------------------------ MODULE HttpServer ------------------------------
(***************************************************************************)
(* ge's HTTP server (src/ge/http/HttpServer.cpp, HttpSession.cpp): callbacks*)
(* of a SocketService.  A session has at most one read and one write        *)
(* outstanding; the read callback parses what has arrived in whatever       *)
(* pieces, on one worker, while the write callback works off the list of    *)
(* response pieces on another.  The list is guarded by the session's lock;  *)
(* the parser's state belongs to the read callback.                         *)
(*                                                                         *)
(* Bytes are tokens: a word, a space, "cr", "lf", or "ctl" for what no line *)
(* may hold.  An action of a callback runs to the next use of the lock.     *)
(***************************************************************************)
EXTENDS Integers, FiniteSetsExt, SequencesExt

CONSTANTS Families,     \* the listening sockets: IPv4, IPv6
          Sessions,     \* HttpSession objects
          Streams,      \* what a client may send, as sequences of tokens
          MaxLine,      \* HTTP_MAX_LINE
          MaxHeaders,   \* HTTP_MAX_REQUEST_HEADERS
          MaxClients,   \* bound: connections made
          None

ASSUME HttpAssumption ==
  /\ None \notin Sessions
  /\ MaxLine \in Nat \ {0} /\ MaxHeaders \in Nat /\ MaxClients \in Nat
  /\ Cardinality(Sessions) >= Cardinality(Families) + MaxClients
  /\ Streams \subseteq Seq(STRING)

VARIABLES
  up,         \* the SocketService: "none", "up", "stopping", "down"; "over"
  pending,    \* _pendingSessionIpv4 and 6
  accepting,  \* each listening socket's accept, or how far its callback is
  socket,     \* the socket of each session
  net,        \* what the client has sent and the server has not read
  rd,         \* the reading side of each session: the parser
  wr,         \* the writing side, and its lock
  crashed,    \* the program is gone
  history     \* what came, was added, was written, and went wrong

vars == <<up, pending, accepting, socket, net, rd, wr, crashed, history>>

-----------------------------------------------------------------------------
(* Lines.                                                                   *)

Space == {" ", "cr", "lf"}
Methods == {"GET", "HEAD", "POST", "PUT", "DELETE", "TRACE"}
Versions == {"HTTP/1.0", "HTTP/1.1"}

\* What tryReadLine makes of the buffer: a line and the place after it, an
\* invalid line, or neither, and lineBufferIndex.
tryReadLine(buf, idx) ==
  LET stops == {i \in idx + 1 .. Len(buf) : buf[i] \in {"lf", "ctl"}}
      i == Min(stops)
      end == IF i > 1 /\ buf[i - 1] = "cr" THEN i - 2 ELSE i - 1
  IN
  IF stops = {}
  THEN [found |-> IF Len(buf) = MaxLine THEN "invalid" ELSE "none",
        line |-> <<>>, idx |-> Len(buf)]
  ELSE IF buf[i] = "ctl" THEN [found |-> "invalid", line |-> <<>>, idx |-> idx]
  ELSE [found |-> "line", line |-> SubSeq(buf, 1, end), idx |-> i]

\* What follows the line moves to the start (mutant: the index stays).
MutFlushLine(r) == [r EXCEPT !.buf = SubSeq(r.buf, r.idx + 1, Len(r.buf))]

flushLine(r) ==
  [r EXCEPT !.buf = SubSeq(r.buf, r.idx + 1, Len(r.buf)), !.idx = 0]

\* More bytes to move than there is memory: lineBufferFilled - lineBufferIndex
\* is negative, and unsigned.
FlushCrashes(r) == r.idx > Len(r.buf)

\* session->method: DELETE and TRACE are taken for PUT.
MethodOf(word) == IF word \in {"DELETE", "TRACE"} THEN "PUT" ELSE word

\* The words of the first line: method, URL, version.  A method is what stands
\* before the first space, even if that is nothing.
parseFirstRequestLine(line) ==
  LET words == SelectSeq(line, LAMBDA t : t \notin Space)
      method == IF line = <<>> THEN "lf" ELSE line[1]
      version == IF Len(words) >= 3 THEN words[3] ELSE "none"
  IN
  [valid |-> method \in Methods /\ version \in Versions,
   method |-> MethodOf(method), version |-> version]

\* headerMatchExtract for "Content-Length": the value of a header whose name
\* is a proper prefix of it ("Content"), and of no other.
headerMatchExtract(line) ==
  IF line # <<>> /\ line[1] = "Content"
  THEN SelectSeq(Tail(line), LAMBDA t : t # " ") ELSE <<>>

LengthOf(value) == CASE value = <<"1">> -> 1 [] value = <<"2">> -> 2 [] OTHER -> -1

\* contentLen after parseHeaders: the last length, and -1 if one is no number.
parseHeaders(headers) ==
  LET Value(i) == headerMatchExtract(headers[i])
      given == {i \in DOMAIN headers : Value(i) # <<>>}
  IN
  CASE given = {} -> 0
    [] \E i \in given : LengthOf(Value(i)) = -1 -> -1
    [] OTHER -> LengthOf(Value(Max(given)))

-----------------------------------------------------------------------------
(* Sessions.  HttpSession::reset, and the accept loop.                      *)

FreshReader ==
  [at |-> "out", piece |-> "none", then |-> "out", st |-> "firstLine",
   buf |-> <<>>, idx |-> 0, method |-> "none", version |-> "HTTP/1.0",
   headers |-> <<>>, len |-> 0, index |-> 0]

FreshWriter ==
  [queue |-> <<>>, active |-> FALSE, complete |-> FALSE, locked |-> FALSE,
   closing |-> FALSE, reply |-> <<>>]

FreshNet == [in |-> <<>>, asked |-> -1, writing |-> FALSE]

FreshHistory ==
  [sent |-> <<>>, added |-> <<>>, wire |-> <<>>, failed |-> FALSE,
   broken |-> FALSE, dead |-> FALSE]

Init ==
  /\ up = "none"
  /\ pending = [f \in Families |-> None]
  /\ accepting = [f \in Families |-> "no"]
  /\ socket = [s \in Sessions |-> "none"]
  /\ net = [s \in Sessions |-> FreshNet]
  /\ rd = [s \in Sessions |-> FreshReader]
  /\ wr = [s \in Sessions |-> FreshWriter]
  /\ crashed = FALSE
  /\ history = [s \in Sessions |-> FreshHistory]

Note(s, field) == history' = [history EXCEPT ![s][field] = TRUE]

\* socketRead: from lineBufferFilled to the end of the buffer
\* (mutant: "Issue another read?", as the TODO asks, and none is).
MutAsk(s, filled) == net' = net

Ask(s, filled) == net' = [net EXCEPT ![s].asked = MaxLine - filled]

\* Callbacks run until the service is down; it takes requests while it is up.
Running == up \in {"up", "stopping"} /\ ~crashed

\* Two new sessions, two listening sockets; AcceptNext then asks for each.
startServing ==
  /\ up = "none"
  /\ up' = "up"
  /\ \E new \in [Families -> Sessions] :
       /\ IsInjective(new)
       /\ pending' = new
       /\ socket' = [s \in Sessions |-> IF s \in Range(new) THEN "made" ELSE socket[s]]
  /\ accepting' = [f \in Families |-> "made"]
  /\ UNCHANGED <<net, rd, wr, crashed, history>>

\* A client is connected to the pending session, or none will be any more.
acceptCallback(f) ==
  /\ Running /\ accepting[f] = "asked"
  /\ \/ /\ Cardinality({s \in Sessions : socket[s] \in {"connected", "open", "closed"}})
             < MaxClients
        /\ accepting' = [accepting EXCEPT ![f] = "connected"]
        /\ socket' = [socket EXCEPT ![pending[f]] = "connected"]
     \/ /\ accepting' = [accepting EXCEPT ![f] = "no"]
        /\ UNCHANGED socket
  /\ UNCHANGED <<up, pending, net, rd, wr, crashed, history>>

\* "Start reading" what the client sends.  If the service is being shut down
\* this throws, and the callback is over.
StartReading(f) ==
  /\ Running /\ accepting[f] = "connected"
  /\ IF up = "up"
     THEN \E stream \in Streams :
            /\ net' = [net EXCEPT ![pending[f]] =
                         [FreshNet EXCEPT !.in = stream, !.asked = MaxLine]]
            /\ history' = [history EXCEPT ![pending[f]].sent = stream]
            /\ socket' = [socket EXCEPT ![pending[f]] = "open"]
            /\ accepting' = [accepting EXCEPT ![f] = "read"]
     ELSE /\ accepting' = [accepting EXCEPT ![f] = "dead"]
          /\ UNCHANGED <<net, history, socket>>
  /\ UNCHANGED <<up, pending, rd, wr, crashed>>

\* The session that the next client will have takes the place of this one.
NewSession(f) ==
  /\ Running /\ accepting[f] = "read"
  /\ \E new \in {s \in Sessions : socket[s] = "none"} :
       /\ pending' = [pending EXCEPT ![f] = new]
       /\ socket' = [socket EXCEPT ![new] = "made"]
  /\ accepting' = [accepting EXCEPT ![f] = "made"]
  /\ UNCHANGED <<up, net, rd, wr, crashed, history>>

\* "and accept again", which may throw as well.
AcceptNext(f) ==
  /\ Running /\ accepting[f] = "made"
  /\ accepting' = [accepting EXCEPT ![f] = IF up = "up" THEN "asked" ELSE "dead"]
  /\ socket' = [socket EXCEPT ![pending[f]] = IF up = "up" THEN "accepting" ELSE @]
  /\ UNCHANGED <<up, pending, net, rd, wr, crashed, history>>

AcceptStep(f) == StartReading(f) \/ NewSession(f) \/ AcceptNext(f)

\* SocketService::shutdown: it takes no request any more, but callbacks run on,
\* and others begin, until its workers have ended.
StopService ==
  /\ up = "up"
  /\ up' = "stopping"
  /\ UNCHANGED <<pending, accepting, socket, net, rd, wr, crashed, history>>

Stopped ==
  /\ up = "stopping"
  /\ \A f \in Families : accepting[f] \in {"no", "asked", "dead"}
  /\ \A s \in Sessions : rd[s].at \in {"out", "dead"} /\ ~wr[s].closing
  /\ up' = "down"
  /\ UNCHANGED <<pending, accepting, socket, net, rd, wr, crashed, history>>

\* HttpServer::shutdown, after that and once.
shutdown ==
  /\ up = "down"
  /\ socket' = [s \in Sessions |-> IF s \in Range(pending) THEN "deleted" ELSE socket[s]]
  /\ pending' = [f \in Families |-> None]
  /\ up' = "over"
  /\ UNCHANGED <<accepting, net, rd, wr, crashed, history>>

-----------------------------------------------------------------------------
(* Writing.                                                                 *)

\* respond gives its response in three pieces, respondRaw in one.
Reply == <<"status", "header", "body">>
Answers == {Reply, <<"raw">>}
Given == {"status", "header", "body", "raw"}
Failures == {"400", "411", "501"}

\* The pieces added with lastData.
Final == Failures \union {"body", "raw"}

Usable(s) == socket[s] = "open" /\ up = "up"

\* (mutant: the piece goes before those that wait)
MutAppended(queue, piece) == <<piece>> \o queue

Appended(queue, piece) == Append(queue, piece)

\* addWriteData, under the lock.  If socketWrite throws, because the socket
\* was closed or the service shut down, nobody unlocks it.
AddThrows(s) == ~wr[s].active /\ ~Usable(s)

addWriteData(s, piece) ==
  /\ ~wr[s].locked
  /\ wr' = [wr EXCEPT ![s].queue = Appended(@, piece),
                      ![s].complete = piece \in Final,
                      ![s].active = TRUE,
                      ![s].locked = AddThrows(s),
                      ![s].reply = IF piece \in Given THEN Tail(@) ELSE @]
  /\ net' = [net EXCEPT ![s].writing = @ \/ (~wr[s].active /\ Usable(s))]
  /\ history' = [history EXCEPT ![s].added = Append(@, piece),
                                ![s].failed = @ \/ piece \in Failures,
                                ![s].dead = @ \/ AddThrows(s)]

\* HttpSession::respond or respondRaw, by the handler or by a thread it gave the
\* session to.
respond(s) ==
  /\ ~crashed
  /\ wr[s].reply # <<>>
  /\ addWriteData(s, Head(wr[s].reply))
  /\ UNCHANGED <<up, pending, accepting, socket, rd, crashed>>

\* sessionComplete, when the list is empty (mutant: without the flag).
MutSessionComplete(w) == TRUE

SessionComplete(w) == w.complete

\* The front is written: start with the next, or end the session.
writeCallback(s) ==
  LET rest == Tail(wr[s].queue)
      throws == rest # <<>> /\ ~Usable(s)
  IN
  /\ Running
  /\ net[s].writing /\ ~wr[s].locked
  /\ net' = [net EXCEPT ![s].writing = rest # <<>> /\ ~throws]
  /\ wr' = [wr EXCEPT ![s].queue = rest,
                      ![s].active = rest # <<>>,
                      ![s].locked = throws,
                      ![s].closing = rest = <<>> /\ SessionComplete(wr[s])]
  /\ history' = [history EXCEPT ![s].wire = Append(@, Head(wr[s].queue)),
                                ![s].dead = @ \/ throws]
  /\ UNCHANGED <<up, pending, accepting, socket, rd, crashed>>

\* The end of writeCallback, after the unlock.
CloseWritten(s) ==
  /\ wr[s].closing /\ ~crashed
  /\ wr' = [wr EXCEPT ![s].closing = FALSE]
  /\ socket' = [socket EXCEPT ![s] = "closed"]
  /\ UNCHANGED <<up, pending, accepting, net, rd, crashed, history>>

\* The write ended with an error: the list stays as it is.
WriteFails(s) ==
  /\ Running
  /\ net[s].writing
  /\ net' = [net EXCEPT ![s].writing = FALSE]
  /\ socket' = [socket EXCEPT ![s] = "closed"]
  /\ Note(s, "broken")
  /\ UNCHANGED <<up, pending, accepting, rd, wr, crashed>>

-----------------------------------------------------------------------------
(* Reading.                                                                 *)

\* A piece of what the client sent arrives.
readCallback(s) ==
  /\ Running
  /\ \E n \in 1 .. Min({net[s].asked, Len(net[s].in)}) :
       /\ rd' = [rd EXCEPT ![s].buf = @ \o SubSeq(net[s].in, 1, n),
                           ![s].at = rd[s].st]
       /\ net' = [net EXCEPT ![s].in = SubSeq(@, n + 1, Len(@)), ![s].asked = -1]
  /\ UNCHANGED <<up, pending, accepting, socket, wr, crashed, history>>

\* 0 bytes: the end of the stream, or no room was left in the buffer.
ReadNothing(s) ==
  /\ Running
  /\ net[s].asked = 0 \/ (net[s].asked > 0 /\ net[s].in = <<>>)
  /\ net' = [net EXCEPT ![s].asked = -1]
  /\ UNCHANGED <<up, pending, accepting, socket, rd, wr, crashed, history>>

\* An error: the connection is lost, or the socket was closed.
ReadFails(s) ==
  /\ Running
  /\ net[s].asked >= 0
  /\ net' = [net EXCEPT ![s].asked = -1]
  /\ socket' = [socket EXCEPT ![s] = "closed"]
  /\ Note(s, "broken")
  /\ UNCHANGED <<up, pending, accepting, rd, wr, crashed>>

\* sendRequestFailure, after which the session reads on.
Failing(r, piece) == [r EXCEPT !.at = "add", !.piece = piece, !.then = "again"]

\* readHandler in state READING_FIRST_LINE.
FirstLine(s) ==
  LET got == tryReadLine(rd[s].buf, rd[s].idx)
      r == [rd[s] EXCEPT !.idx = got.idx]
      first == parseFirstRequestLine(got.line)
      next == [flushLine(r) EXCEPT !.st = "headers", !.at = "headers",
                                   !.method = first.method, !.version = first.version]
  IN
  /\ rd[s].at = "firstLine" /\ ~crashed
  /\ rd' = [rd EXCEPT ![s] =
       CASE got.found = "invalid" -> Failing(r, "400")
         [] got.found = "none" -> [r EXCEPT !.at = "again"]
         [] got.found = "line" /\ ~first.valid -> Failing(r, "501")
         [] OTHER -> IF first.version = "HTTP/1.1"
                     THEN [next EXCEPT !.at = "add", !.piece = "100", !.then = "headers"]
                     ELSE next]
  /\ UNCHANGED <<up, pending, accepting, socket, net, wr, crashed, history>>

\* The empty line: what the headers ask for, and as much of the content as
\* the buffer is thought to hold, which then counts as empty.
EndOfHeaders(r) ==
  LET len == parseHeaders(r.headers)
      body == [r EXCEPT !.st = "body", !.at = "body", !.len = len]
  IN
  CASE len = -1 -> Failing(r, "400")
    [] len = 0 /\ r.method \in {"PUT", "POST"} -> Failing(r, "411")
    [] len = 0 /\ r.method \notin {"PUT", "POST"} -> body
    [] OTHER -> [body EXCEPT !.index = Min({len, Len(r.buf)}), !.buf = <<>>]

\* A header, or more of the last one (mutant: always a header).
MutHeader(r, line) == [r EXCEPT !.headers = Append(@, line)]

Header(r, line) ==
  IF r.buf[1] = " "
  THEN IF r.headers = <<>> THEN Failing(r, "400")
       ELSE [r EXCEPT !.headers[Len(r.headers)] = @ \o line]
  ELSE IF Len(r.headers) > MaxHeaders THEN Failing(r, "400")
       ELSE [r EXCEPT !.headers = Append(@, line)]

\* One round of the loop of readHandler in state READING_HEADERS.
HeaderLine(s) ==
  LET got == tryReadLine(rd[s].buf, rd[s].idx)
      r == [rd[s] EXCEPT !.idx = got.idx]
      done == CASE got.found = "invalid" -> Failing(r, "400")
                [] got.found = "none" -> [r EXCEPT !.at = "again"]
                [] OTHER -> IF got.line = <<>> THEN EndOfHeaders(r)
                                               ELSE Header(r, got.line)
      flushes == done.at \in {"headers", "body"}
  IN
  /\ rd[s].at = "headers" /\ ~crashed
  /\ crashed' = (flushes /\ FlushCrashes(done))
  /\ rd' = [rd EXCEPT ![s] = IF flushes /\ ~crashed' THEN flushLine(done) ELSE done]
  /\ UNCHANGED <<up, pending, accepting, socket, net, wr, history>>

\* readHandler in state READING_BODY: the handler has the session, or the
\* socket is closed.
Body(s) ==
  LET all == rd[s].index = rd[s].len IN
  /\ rd[s].at = "body" /\ ~crashed
  /\ rd' = [rd EXCEPT ![s].at = "out", ![s].st = IF all THEN "responding" ELSE @]
  /\ \E answer \in Answers : wr' = [wr EXCEPT ![s].reply = IF all THEN answer ELSE @]
  /\ socket' = [socket EXCEPT ![s] = IF all THEN @ ELSE "closed"]
  /\ UNCHANGED <<up, pending, accepting, net, crashed, history>>

\* The read callback adds a piece of its own.
AddPiece(s) ==
  /\ rd[s].at = "add" /\ ~crashed
  /\ addWriteData(s, rd[s].piece)
  /\ rd' = [rd EXCEPT ![s].at = IF AddThrows(s) THEN "dead" ELSE rd[s].then]
  /\ UNCHANGED <<up, pending, accepting, socket, crashed>>

\* "Trigger new read": it throws if the socket was closed.
ReadAgain(s) ==
  /\ rd[s].at = "again" /\ ~crashed
  /\ IF Usable(s)
     THEN /\ Ask(s, Len(rd[s].buf))
          /\ rd' = [rd EXCEPT ![s].at = "out"]
          /\ UNCHANGED history
     ELSE /\ rd' = [rd EXCEPT ![s].at = "dead"]
          /\ Note(s, "dead")
          /\ UNCHANGED net
  /\ UNCHANGED <<up, pending, accepting, socket, wr, crashed>>

-----------------------------------------------------------------------------
ReaderStep(s) ==
  \/ FirstLine(s) \/ HeaderLine(s) \/ Body(s) \/ AddPiece(s) \/ ReadAgain(s)

WriterStep(s) == writeCallback(s) \/ CloseWritten(s) \/ respond(s)

Next ==
  \/ startServing \/ StopService \/ Stopped \/ shutdown
  \/ \E f \in Families : acceptCallback(f) \/ AcceptStep(f)
  \/ \E s \in Sessions :
       \/ readCallback(s) \/ ReadNothing(s) \/ ReadFails(s) \/ ReaderStep(s)
       \/ WriterStep(s) \/ WriteFails(s)

Spec == Init /\ [][Next]_vars

\* The service calls back what it was asked for, and threads go on.
Fairness ==
  \A s \in Sessions :
    /\ WF_vars(readCallback(s) \/ ReadNothing(s) \/ ReaderStep(s))
    /\ WF_vars(writeCallback(s) \/ CloseWritten(s)) /\ WF_vars(respond(s))

FairSpec == Spec /\ Fairness

-----------------------------------------------------------------------------
(* Properties.                                                              *)

\* The types; the line never ends behind what was read, a read never reaches
\* beyond the buffer, and only a body can crash the server.
TypeOK ==
  /\ up \in {"none", "up", "stopping", "down", "over"}
  /\ pending \in [Families -> Sessions \union {None}]
  /\ accepting \in [Families -> {"no", "asked", "connected", "read", "made", "dead"}]
  /\ socket \in [Sessions -> {"none", "made", "accepting", "connected", "open",
                             "closed", "deleted"}]
  /\ crashed => \E s \in Sessions : rd[s].len > 0
  /\ \A s \in Sessions :
       /\ rd[s].at \in {"out", "firstLine", "headers", "body", "add", "again", "dead"}
       /\ ~crashed => rd[s].idx <= Len(rd[s].buf)
       /\ Len(rd[s].buf) <= MaxLine
       /\ net[s].asked >= 0 => Len(rd[s].buf) + net[s].asked = MaxLine
       /\ wr[s].active = (wr[s].queue # <<>>)

\* The request the bytes stand for, whole and at once: the lines up to the
\* first empty one, each without its end, a header with its continuations.
LineEnds(bytes) == {i \in DOMAIN bytes : bytes[i] = "lf"}

LineAt(bytes, end) ==
  LET before == {i \in LineEnds(bytes) : i < end}
      from == IF before = {} THEN 1 ELSE Max(before) + 1
  IN SubSeq(bytes, from, IF end > from /\ bytes[end - 1] = "cr" THEN end - 2 ELSE end - 1)

Lines(bytes) ==
  LET ends == SetToSortSeq(LineEnds(bytes), <)
  IN [i \in DOMAIN ends |-> LineAt(bytes, ends[i])]

Unfolded(lines) ==
  LET Fold(headers, line) ==
        IF line[1] = " " /\ headers # <<>>
        THEN Append(Front(headers), Last(headers) \o line)
        ELSE Append(headers, line)
  IN FoldLeft(Fold, <<>>, lines)

Meant(bytes) ==
  LET lines == Lines(bytes)
      first == SelectSeq(lines[1], LAMBDA t : t \notin Space)
      end == Min({i \in DOMAIN lines : lines[i] = <<>>})
  IN [method |-> first[1], version |-> first[3],
      headers |-> Unfolded(SubSeq(lines, 2, end - 1))]

\* The handler is given the request that was sent, in however many pieces the
\* bytes came, unless the session was told of a failure before.
RequestExact ==
  \A s \in Sessions :
    rd[s].st = "responding" /\ ~history[s].failed =>
      LET m == Meant(history[s].sent) IN
      /\ rd[s].method = m.method /\ rd[s].version = m.version
      /\ rd[s].headers = m.headers

\* What the client may be sent when all goes well: one whole answer.
Expected(s) ==
  {(IF rd[s].version = "HTTP/1.1" THEN <<"100">> ELSE <<>>) \o a : a \in Answers}

\* The pieces leave in the order they were added, whoever added them and
\* whichever callback came between; a session ends with its whole response.
ResponseWhole ==
  \A s \in Sessions :
    LET h == history[s] IN
    /\ h.added = h.wire \o wr[s].queue
    /\ socket[s] = "closed" /\ ~h.failed /\ ~h.broken => h.wire \in Expected(s)

\* No callback is ended by an exception, and no lock left locked, on a
\* connection that nobody broke and that was not told of a failure; and clients
\* are accepted for as long as the service takes requests and accepts do not fail.
CallbacksSurvive ==
  /\ \A s \in Sessions :
       history[s].dead => history[s].failed \/ history[s].broken \/ up # "up"
  /\ \A f \in Families : accepting[f] = "dead" => up # "up"

\* A request without body that is whole and that the server can take.
Plain(bytes) ==
  LET lines == Lines(bytes)
      heads == SubSeq(lines, 2, Min({i \in DOMAIN lines : lines[i] = <<>>}) - 1)
  IN
  /\ Range(bytes) \intersect {"ctl", "Content"} = {}
  /\ \E i \in DOMAIN lines : lines[i] = <<>>
  /\ \A i \in DOMAIN lines : Len(lines[i]) + 2 <= MaxLine
  /\ parseFirstRequestLine(lines[1]).valid
  /\ parseFirstRequestLine(lines[1]).method \in {"GET", "HEAD"}
  /\ heads # <<>> => heads[1][1] # " "
  /\ Len(Unfolded(heads)) <= MaxHeaders + 1

\* It is answered in full, while the service runs and the connection holds.
Served ==
  \A s \in Sessions :
    (socket[s] = "open" /\ Plain(history[s].sent)) ~>
      \/ socket[s] = "closed" /\ history[s].wire \in Expected(s)
      \/ history[s].broken \/ up # "up"
=============================================================================
