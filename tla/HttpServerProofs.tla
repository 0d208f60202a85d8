--------------------------- MODULE HttpServerProofs ---------------------------
(***************************************************************************)
(* What HttpServer promises, for every number of listening sockets, of     *)
(* sessions and of clients, every limit and every stream of bytes.  The    *)
(* invariant says of one session what its reader, its writer, its socket   *)
(* and its history have to do with each other; a callback changes those of *)
(* its own session alone.                                                  *)
(***************************************************************************)
EXTENDS HttpServer, SequenceTheorems, WellFoundedInduction, TLAPS

-----------------------------------------------------------------------------
(* The inductive invariant.  r, w, n, k, h are one session's reader,        *)
(* writer, net, socket and history.                                         *)

Reading == {"firstLine", "headers"}

Shaped(r) ==
  r = [at |-> r.at, piece |-> r.piece, then |-> r.then, st |-> r.st,
       buf |-> r.buf, idx |-> r.idx, method |-> r.method, version |-> r.version,
       headers |-> r.headers, len |-> r.len, index |-> r.index]

\* The reader's fields, as far as anything depends on their types.
Fielded(r) ==
  /\ r.at \in {"out", "firstLine", "headers", "body", "add", "again", "dead"}
  /\ r.st \in {"firstLine", "headers", "body", "responding"}
  /\ r.buf \in Seq(STRING) /\ Len(r.buf) <= MaxLine
  /\ r.idx \in Nat

\* A callback that parses is where the state says; one that adds a piece tells
\* of a failure, or to continue.
Placed(r) ==
  /\ r.at \in {"firstLine", "headers", "body"} => r.at = r.st
  /\ r.at \in {"add", "again", "dead"} => r.st \in Reading
  /\ r.at = "add" =>
       \/ r.piece = "100" /\ r.then = "headers" /\ r.st = "headers"
            /\ r.version = "HTTP/1.1"
       \/ r.piece \in Failures /\ r.then = "again"

\* Until a body with content comes, the line that was looked at is in the
\* buffer, and there is nothing to wait for.
Sound(r, gone) ==
  ~gone => r.idx <= Len(r.buf) /\ r.len = 0 /\ r.index = 0

Pieces == {"100", "400", "411", "501", "status", "header", "body", "raw"}

Replies ==
  {<<"status", "header", "body">>, <<"header", "body">>, <<"body">>, <<"raw">>, <<>>}

Writers ==
  [queue : Seq(Pieces), active : BOOLEAN, complete : BOOLEAN, locked : BOOLEAN,
   closing : BOOLEAN, reply : Replies]

Nets == [in : Seq(STRING), asked : Int, writing : BOOLEAN]

Histories ==
  [sent : Seq(STRING), added : Seq(Pieces), wire : Seq(Pieces), failed : BOOLEAN,
   broken : BOOLEAN, dead : BOOLEAN]

\* A read is outstanding for exactly the rest of the buffer, and only while
\* there is something to read.
Asked(r, n) ==
  n.asked >= 0 =>
    r.at = "out" /\ r.st \in Reading /\ Len(r.buf) + n.asked = MaxLine

\* The list: a write is outstanding only for what waits, and nothing is lost
\* or changes places between being added and being written.
Listed(w, n, h) ==
  /\ w.active = (w.queue # <<>>)
  /\ n.writing => w.queue # <<>>
  /\ h.added = h.wire \o w.queue

Hundred(r) == IF r.version = "HTTP/1.1" THEN <<"100">> ELSE <<>>

\* What has been added, while all goes well: nothing before the first line was
\* understood; then "continue", once; then as much of the response as the
\* handler has given.  The list is complete after the whole of it.
Told(r, w, h) ==
  /\ r.st = "responding" => r.at = "out"
  /\ r.st # "responding" => w.reply = <<>>
  /\ ~h.failed =>
       /\ r.st = "firstLine" => h.added = <<>>
       /\ r.st \in {"headers", "body"} =>
            h.added = IF r.at = "add" /\ r.piece = "100" THEN <<>> ELSE Hundred(r)
       /\ r.st = "responding" =>
            \E answer \in Answers : h.added \o w.reply = Hundred(r) \o answer
       /\ w.complete => r.st = "responding" /\ w.reply = <<>>

\* A socket is closed, if nobody broke the connection, after the response.
Ended(k, w, h) ==
  ~h.failed /\ (w.closing \/ (k = "closed" /\ ~h.broken)) =>
    w.queue = <<>> /\ w.complete

\* What has never been connected is as it was made.
Unused(k, r, w, n, h) ==
  k \notin {"open", "closed"} =>
    r = FreshReader /\ w = FreshWriter /\ n = FreshNet /\ h = FreshHistory

Survived(h, u) == h.dead => h.failed \/ h.broken \/ u # "up"

SessionOK(k, r, w, n, h, gone, u) ==
  /\ k \in {"none", "made", "accepting", "connected", "open", "closed", "deleted"}
  /\ Shaped(r) /\ Fielded(r) /\ Placed(r) /\ Sound(r, gone)
  /\ w \in Writers /\ n \in Nets /\ h \in Histories
  /\ Asked(r, n) /\ Listed(w, n, h) /\ Told(r, w, h)
  /\ Ended(k, w, h) /\ Unused(k, r, w, n, h) /\ Survived(h, u)
  /\ k = "deleted" => u = "over"

\* How far a session is that waits for a client, by how far the accept is.
Stage(a, k) ==
  /\ a \in {"no", "asked"} => k = "accepting"
  /\ a = "connected" => k = "connected"
  /\ a = "read" => k \in {"open", "closed"}
  /\ a = "made" => k = "made"
  /\ a = "dead" => k \in {"made", "connected"}

\* The sessions that wait to be connected, one for each listening socket, while
\* the service is there.
Waiting ==
  /\ IsInjective(pending)
  /\ \A f \in Families : pending[f] \in Sessions /\ Stage(accepting[f], socket[pending[f]])

Accepting ==
  /\ up \in {"none", "up", "stopping", "down", "over"}
  /\ pending \in [Families -> Sessions \union {None}]
  /\ accepting \in [Families -> {"no", "asked", "connected", "read", "made", "dead"}]
  /\ up = "none" => \A s \in Sessions : socket[s] = "none"
  /\ up \in {"up", "stopping", "down"} => Waiting
  /\ \A f \in Families :
       /\ accepting[f] \in {"connected", "read", "made"} => up \in {"up", "stopping"}
       /\ accepting[f] = "dead" => up # "up"

IInv ==
  /\ Accepting
  /\ socket = [s \in Sessions |-> socket[s]] /\ rd = [s \in Sessions |-> rd[s]]
  /\ wr = [s \in Sessions |-> wr[s]] /\ net = [s \in Sessions |-> net[s]]
  /\ history = [s \in Sessions |-> history[s]]
  /\ crashed \in BOOLEAN
  /\ crashed => \E s \in Sessions : rd[s].len > 0
  /\ \A s \in Sessions :
       SessionOK(socket[s], rd[s], wr[s], net[s], history[s], crashed, up)

-----------------------------------------------------------------------------
(* One session among the others.                                            *)

\* g is f but for what it has at s.
Puts(f, g, s, v) == g = [x \in Sessions |-> IF x = s THEN v ELSE f[x]]

\* An EXCEPT puts its value at one session.
LEMMA PutOne ==
  ASSUME NEW f, NEW g, NEW s \in Sessions, NEW v,
         f = [x \in Sessions |-> f[x]], g = [f EXCEPT ![s] = v]
  PROVE  Puts(f, g, s, v)
BY DEF Puts

\* What is left alone keeps its value there.
LEMMA PutNone ==
  ASSUME NEW f, NEW g, NEW s \in Sessions,
         f = [x \in Sessions |-> f[x]], g = f
  PROVE  Puts(f, g, s, f[s])
BY DEF Puts

\* What one session is promised survives the end of the program.
LEMMA Outlives ==
  ASSUME NEW k, NEW r, NEW w, NEW n, NEW h, NEW gone \in BOOLEAN, NEW then \in BOOLEAN, NEW u,
         SessionOK(k, r, w, n, h, gone, u), gone => then
  PROVE  SessionOK(k, r, w, n, h, then, u)
BY DEF SessionOK, Sound

\* A step of one session keeps the invariant if it keeps that session's part.
LEMMA SessionMoves ==
  ASSUME IInv, NEW s \in Sessions, NEW k, NEW r, NEW w, NEW n, NEW h,
         Puts(socket, socket', s, k), Puts(rd, rd', s, r), Puts(wr, wr', s, w),
         Puts(net, net', s, n), Puts(history, history', s, h),
         UNCHANGED <<up, pending, accepting>>,
         k = socket[s] \/ (k = "closed" /\ socket[s] \in {"open", "closed"}),
         crashed' \in BOOLEAN, crashed => crashed',
         crashed' => r.len > 0 \/ (crashed /\ r = rd[s]),
         SessionOK(k, r, w, n, h, crashed', up)
  PROVE  IInv'
<1>1. /\ socket' = [x \in Sessions |-> socket'[x]] /\ rd' = [x \in Sessions |-> rd'[x]]
      /\ wr' = [x \in Sessions |-> wr'[x]] /\ net' = [x \in Sessions |-> net'[x]]
      /\ history' = [x \in Sessions |-> history'[x]]
  BY Zenon DEF Puts
<1>2. /\ socket'[s] = k /\ rd'[s] = r /\ wr'[s] = w /\ net'[s] = n /\ history'[s] = h
      /\ \A x \in Sessions : x # s =>
           /\ socket'[x] = socket[x] /\ rd'[x] = rd[x] /\ wr'[x] = wr[x]
           /\ net'[x] = net[x] /\ history'[x] = history[x]
  BY DEF Puts
<1>3. ASSUME NEW x \in Sessions
      PROVE  SessionOK(socket'[x], rd'[x], wr'[x], net'[x], history'[x], crashed', up')
  <2>1. CASE x = s
    BY <1>2, <2>1
  <2>2. CASE x # s
    <3>1. SessionOK(socket[x], rd[x], wr[x], net[x], history[x], crashed, up)
      BY DEF IInv
    <3>2. crashed \in BOOLEAN
      BY DEF IInv
    <3>3. SessionOK(socket[x], rd[x], wr[x], net[x], history[x], crashed', up)
      BY <3>1, <3>2, Outlives
    <3> QED BY <1>2, <2>2, <3>3
  <2> QED BY <2>1, <2>2
<1>4. Accepting'
  <2>1. up = "none" => \A x \in Sessions : socket'[x] = "none"
    BY <1>2 DEF IInv, Accepting
  <2>2. ASSUME up \in {"up", "stopping", "down"}
        PROVE  /\ IsInjective(pending)
               /\ \A f \in Families :
                    pending[f] \in Sessions /\ Stage(accepting[f], socket'[pending[f]])
    <3>1. Waiting
      BY <2>2 DEF IInv, Accepting
    <3>2. ASSUME NEW f \in Families
          PROVE  pending[f] \in Sessions /\ Stage(accepting[f], socket'[pending[f]])
      <4>1. pending[f] \in Sessions /\ Stage(accepting[f], socket[pending[f]])
        BY <3>1 DEF Waiting
      <4>2. CASE pending[f] # s
        BY <1>2, <4>1, <4>2
      <4>3. CASE pending[f] = s /\ k = socket[s]
        BY <1>2, <4>1, <4>3
      <4>4. CASE pending[f] = s /\ k = "closed" /\ socket[s] \in {"open", "closed"}
        <5>1. accepting[f] = "read"
          BY <2>2, <4>1, <4>4 DEF Stage, IInv, Accepting
        <5>2. socket'[pending[f]] = "closed"
          BY <1>2, <4>4
        <5> QED BY <4>1, <5>1, <5>2 DEF Stage
      <4> QED BY <4>2, <4>3, <4>4
    <3> QED BY <3>1, <3>2 DEF Waiting
  <2>3. Accepting
    BY DEF IInv
  <2>4. up' = up /\ pending' = pending /\ accepting' = accepting
    OBVIOUS
  <2>5. IsInjective(pending)' = IsInjective(pending)
    BY <2>4 DEF IsInjective
  <2> QED BY <2>1, <2>2, <2>3, <2>4, <2>5 DEF Accepting, Waiting
<1>5. ASSUME crashed' PROVE \E x \in Sessions : rd'[x].len > 0
  <2>1. CASE r.len > 0
    BY <1>2, <2>1
  <2>2. CASE crashed /\ r = rd[s]
    <3>1. PICK x \in Sessions : rd[x].len > 0
      BY <2>2 DEF IInv
    <3>2. rd'[x] = rd[x]
      BY <1>2, <2>2
    <3> QED BY <3>1, <3>2
  <2> QED BY <1>5, <2>1, <2>2
<1> QED BY <1>1, <1>3, <1>4, <1>5 DEF IInv

-----------------------------------------------------------------------------
(* Lines and pieces.                                                        *)

\* The least of two numbers is one of them, and no more than either.
LEMMA LeastOfTwo ==
  ASSUME NEW a \in Int, NEW b \in Int
  PROVE  Min({a, b}) \in {a, b} /\ Min({a, b}) <= a /\ Min({a, b}) <= b
<1>1. \E x \in {a, b} : \A y \in {a, b} : x <= y
  OBVIOUS
<1> QED BY <1>1 DEF Min

\* A set of positions has a first one.
LEMMA LeastOfSome ==
  ASSUME NEW S \in SUBSET Nat, S # {}
  PROVE  Min(S) \in S
<1> DEFINE below == OpToRel(<, Nat)
<1>1. IsWellFoundedOn(below, Nat)
  BY NatLessThanWellFounded
<1> HIDE DEF below
<1>2. PICK x \in S : \A y \in S : ~(<<y, x>> \in below)
  BY <1>1, WFMin
<1>3. \A y \in S : ~(y < x)
  BY <1>2 DEF below, OpToRel
<1>4. \E z \in S : \A y \in S : z <= y
  BY <1>3
<1> QED BY <1>4 DEF Min

\* tryReadLine looks no further than the buffer, and a line has an end.
LEMMA LineFound ==
  ASSUME NEW buf \in Seq(STRING), NEW idx \in Nat, idx <= Len(buf)
  PROVE  LET got == tryReadLine(buf, idx) IN
         /\ got.idx \in Nat /\ got.idx <= Len(buf)
         /\ got.found \in {"line", "none", "invalid"}
         /\ got.found = "line" => got.idx > 0
<1> DEFINE stops == {i \in idx + 1 .. Len(buf) : buf[i] \in {"lf", "ctl"}}
           i == Min(stops)
<1>1. stops # {} => i \in stops
  <2>1. stops \in SUBSET Nat
    OBVIOUS
  <2> HIDE DEF stops
  <2> QED BY <2>1, LeastOfSome
<1>2. stops # {} => i \in Nat /\ i <= Len(buf) /\ i > 0
  BY <1>1
<1>3. Len(buf) \in Nat
  OBVIOUS
<1> HIDE DEF stops, i
<1> QED BY <1>2, <1>3 DEF tryReadLine, stops, i

\* The first of what waits goes to the end of what was written.
LEMMA MovesOn ==
  ASSUME NEW w \in Seq(Pieces), NEW q \in Seq(Pieces), q # <<>>
  PROVE  Append(w, Head(q)) \o Tail(q) = w \o q
OBVIOUS

\* A few pieces are a sequence.
LEMMA FewPieces ==
  ASSUME NEW S, NEW p \in S, NEW q \in S, NEW r \in S
  PROVE  <<p>> \in Seq(S) /\ <<p, q>> \in Seq(S) /\ <<p, q, r>> \in Seq(S)
OBVIOUS

\* What is added waits behind the rest.
LEMMA Waits ==
  ASSUME NEW w \in Seq(Pieces), NEW q \in Seq(Pieces), NEW p \in Pieces
  PROVE  Append(w \o q, p) = w \o Append(q, p)
<1>1. w \o q \in Seq(Pieces)
  BY ConcatProperties
<1>0. <<p>> \in Seq(Pieces)
  BY FewPieces
<1>2. Append(w \o q, p) = (w \o q) \o <<p>> /\ Append(q, p) = q \o <<p>>
  BY <1>0, <1>1, AppendIsConcat
<1>3. (w \o q) \o <<p>> = w \o (q \o <<p>>)
  BY <1>0, <1>1, ConcatAssociative
<1> QED BY <1>2, <1>3

\* What may be left of the response is pieces.
LEMMA RepliesArePieces == Replies \subseteq Seq(Pieces)
<1>1. "status" \in Pieces /\ "header" \in Pieces /\ "body" \in Pieces
  BY DEF Pieces
<1>2. \A p, q, r \in Pieces :
        <<p>> \in Seq(Pieces) /\ <<p, q>> \in Seq(Pieces) /\ <<p, q, r>> \in Seq(Pieces)
  BY FewPieces
<1>5. "raw" \in Pieces
  BY DEF Pieces
<1>3. /\ <<"body">> \in Seq(Pieces) /\ <<"header", "body">> \in Seq(Pieces)
      /\ <<"raw">> \in Seq(Pieces)
      /\ <<"status", "header", "body">> \in Seq(Pieces)
  BY <1>1, <1>2, <1>5, Zenon
<1>4. <<>> \in Seq(Pieces)
  OBVIOUS
<1> QED BY <1>3, <1>4, Zenon DEF Replies

\* A response goes piece by piece, and "body" or "raw" is its last.
LEMMA NextPiece ==
  ASSUME NEW reply \in Replies, reply # <<>>
  PROVE  /\ Head(reply) \in Given
         /\ Tail(reply) \in Replies /\ reply \in Seq(Pieces)
         /\ Head(reply) \in {"body", "raw"} => Tail(reply) = <<>>
<1>1. CASE reply = <<"status", "header", "body">>
  <2>1. Head(reply) = "status" /\ Tail(reply) = <<"header", "body">>
    BY <1>1
  <2> QED BY <2>1, RepliesArePieces DEF Replies, Given
<1>2. CASE reply = <<"header", "body">>
  <2>1. Head(reply) = "header" /\ Tail(reply) = <<"body">>
    BY <1>2
  <2> QED BY <2>1, RepliesArePieces DEF Replies, Given
<1>3. CASE reply = <<"body">>
  <2>1. Head(reply) = "body" /\ Tail(reply) = <<>>
    BY <1>3
  <2> QED BY <2>1, RepliesArePieces DEF Replies, Given
<1>4. CASE reply = <<"raw">>
  <2>1. Head(reply) = "raw" /\ Tail(reply) = <<>>
    BY <1>4
  <2> QED BY <2>1, RepliesArePieces DEF Replies, Given
<1> QED BY <1>1, <1>2, <1>3, <1>4 DEF Replies

\* Nothing to add changes nothing.
LEMMA NothingMore ==
  ASSUME NEW q \in Seq(Pieces)
  PROVE  q \o <<>> = q /\ <<>> \o q = q
OBVIOUS
-----------------------------------------------------------------------------
(* Writing.                                                                 *)

\* A session's part of the invariant.
LEMMA SessionPart ==
  ASSUME IInv, NEW s \in Sessions
  PROVE  /\ SessionOK(socket[s], rd[s], wr[s], net[s], history[s], crashed, up)
         /\ socket = [x \in Sessions |-> socket[x]] /\ rd = [x \in Sessions |-> rd[x]]
         /\ wr = [x \in Sessions |-> wr[x]] /\ net = [x \in Sessions |-> net[x]]
         /\ history = [x \in Sessions |-> history[x]] /\ crashed \in BOOLEAN
BY DEF IInv

\* The pieces of a failure and of the response are pieces, and differ.
LEMMA KindsOfPieces ==
  /\ Failures \subseteq Pieces /\ Final \subseteq Pieces /\ "100" \notin Final
  /\ Failures \subseteq Final /\ Final = Failures \union {"body", "raw"}
  /\ Given \subseteq Pieces /\ Failures \intersect Given = {}
  /\ "100" \in Pieces /\ "100" \notin Given
  /\ {"status", "header"} \intersect Final = {}
BY DEF Failures, Final, Given, Pieces

\* The list, and the history, after a piece was added.
Listing(w, piece, throws) ==
  [w EXCEPT !.queue = Appended(@, piece), !.complete = piece \in Final,
            !.active = TRUE, !.locked = throws,
            !.reply = IF piece \in Given THEN Tail(@) ELSE @]

Telling(h, piece, throws) ==
  [h EXCEPT !.added = Append(@, piece), !.failed = @ \/ piece \in Failures,
            !.dead = @ \/ throws]

\* What that makes of them.
Grown(w, h, piece, throws, w1, h1) ==
  /\ w1 \in Writers /\ h1 \in Histories
  /\ w1.queue # <<>> /\ w1.active = TRUE /\ w1.complete = (piece \in Final)
  /\ w1.closing = w.closing
  /\ w1.reply = IF piece \in Given THEN Tail(w.reply) ELSE w.reply
  /\ h1.added = Append(h.added, piece) /\ h1.added = h1.wire \o w1.queue
  /\ h1.failed = (h.failed \/ piece \in Failures) /\ h1.broken = h.broken
  /\ h1.dead = (h.dead \/ throws)

\* They stay a list and a history, in step with each other.
LEMMA ListGrows ==
  ASSUME NEW w \in Writers, NEW h \in Histories, NEW piece \in Pieces,
         NEW throws \in BOOLEAN, piece \in Given => w.reply # <<>>,
         h.added = h.wire \o w.queue
  PROVE  Grown(w, h, piece, throws, Listing(w, piece, throws), Telling(h, piece, throws))
<1> DEFINE w1 == Listing(w, piece, throws)
           h1 == Telling(h, piece, throws)
<1> USE DEF Writers, Histories, Listing, Telling
<1>1. Appended(w.queue, piece) \in Seq(Pieces) /\ Appended(w.queue, piece) # <<>>
  BY AppendProperties DEF Appended
<1>2. Append(h.added, piece) \in Seq(Pieces)
  BY AppendProperties
<1>3. (IF piece \in Given THEN Tail(w.reply) ELSE w.reply) \in Replies
  BY NextPiece
<1>4. Append(h.wire \o w.queue, piece) = h.wire \o Append(w.queue, piece)
  BY Waits
<1>5. (piece \in Final) \in BOOLEAN /\ (h.failed \/ piece \in Failures) \in BOOLEAN
      /\ (h.dead \/ throws) \in BOOLEAN
  OBVIOUS
<1>6. /\ w1.queue = Appended(w.queue, piece) /\ w1.active = TRUE
      /\ w1.complete = (piece \in Final) /\ w1.closing = w.closing
      /\ w1.reply = IF piece \in Given THEN Tail(w.reply) ELSE w.reply
  OBVIOUS
<1>7. /\ h1.added = Append(h.added, piece) /\ h1.wire = h.wire
      /\ h1.failed = (h.failed \/ piece \in Failures) /\ h1.broken = h.broken
      /\ h1.dead = (h.dead \/ throws)
  OBVIOUS
<1>8. w1 \in Writers
  BY <1>1, <1>3, <1>5
<1>9. h1 \in Histories
  BY <1>2, <1>5
<1> QED BY <1>1, <1>4, <1>6, <1>7, <1>8, <1>9 DEF Appended, Grown

\* What addWriteData does to the session's own state.
Added(s, piece, w1, n1, h1) ==
  /\ Puts(wr, wr', s, w1) /\ Puts(net, net', s, n1) /\ Puts(history, history', s, h1)
  /\ w1 \in Writers /\ n1 \in Nets /\ h1 \in Histories
  /\ n1.asked = net[s].asked /\ Listed(w1, n1, h1)
  /\ w1.complete = (piece \in Final) /\ w1.closing = wr[s].closing
  /\ w1.reply = IF piece \in Given THEN Tail(wr[s].reply) ELSE wr[s].reply
  /\ h1.added = Append(history[s].added, piece)
  /\ h1.failed = (history[s].failed \/ piece \in Failures)
  /\ h1.broken = history[s].broken
  /\ h1.dead = (history[s].dead \/ AddThrows(s))

\* addWriteData does that.
LEMMA Adding ==
  ASSUME IInv, NEW s \in Sessions, NEW piece \in Pieces, addWriteData(s, piece),
         piece \in Given => wr[s].reply # <<>>
  PROVE  Added(s, piece, wr'[s], net'[s], history'[s])
<1>0. PICK throws \in BOOLEAN : throws = AddThrows(s)
  BY DEF AddThrows, Usable
<1> DEFINE k == socket[s]  r == rd[s]  w == wr[s]  n == net[s]  h == history[s]
           wn == Listing(w, piece, throws)
           hn == Telling(h, piece, throws)
           nn == [n EXCEPT !.writing = @ \/ (~w.active /\ Usable(s))]
<1>1. SessionOK(k, r, w, n, h, crashed, up) /\ wr = [x \in Sessions |-> wr[x]]
      /\ net = [x \in Sessions |-> net[x]] /\ history = [x \in Sessions |-> history[x]]
  BY SessionPart
<1>2. w \in Writers /\ n \in Nets /\ h \in Histories /\ Listed(w, n, h)
  BY <1>1 DEF SessionOK
<1>3. wr' = [wr EXCEPT ![s] = wn] /\ net' = [net EXCEPT ![s] = nn]
      /\ history' = [history EXCEPT ![s] = hn]
  BY <1>0 DEF addWriteData, Listing, Telling
<1>4. Usable(s) \in BOOLEAN
  BY DEF Usable
<1>7. h.added = h.wire \o w.queue
  BY <1>2 DEF Listed
<1>8. nn \in Nets /\ nn.asked = n.asked
  BY <1>2, <1>4 DEF Nets
<1>11. piece \in Given => w.reply # <<>>
  OBVIOUS
<1> HIDE DEF nn, w, h, n
<1>12. Grown(w, h, piece, throws, wn, hn)
  BY <1>2, <1>7, <1>11, ListGrows, Zenon
<1> HIDE DEF wn, hn
<1>9. /\ Puts(wr, wr', s, wn) /\ Puts(net, net', s, nn) /\ Puts(history, history', s, hn)
  BY <1>1, <1>3, PutOne
<1>10. wr'[s] = wn /\ net'[s] = nn /\ history'[s] = hn
  BY <1>9 DEF Puts
<1>13. Listed(wn, nn, hn)
  BY <1>12 DEF Listed, Grown
<1> QED BY <1>8, <1>9, <1>10, <1>0, <1>12, <1>13 DEF Added, Grown, w, h, n

\* A session's list may grow before it is complete: who is not connected, or is
\* done, has nothing more to say.
LEMMA StillTalking ==
  ASSUME NEW k, NEW r, NEW w, NEW n, NEW h, NEW gone \in BOOLEAN, NEW u,
         SessionOK(k, r, w, n, h, gone, u),
         w.reply # <<>> \/ r.at \in {"firstLine", "headers", "body", "add", "again"}
  PROVE  /\ k \in {"open", "closed"}
         /\ ~h.failed => ~w.complete /\ ~w.closing /\ (k = "closed" => h.broken)
<1>1. k \in {"open", "closed"}
  BY DEF SessionOK, Unused, FreshWriter, FreshReader
<1>2. ~h.failed => ~w.complete
  BY DEF SessionOK, Told
<1>3. ~h.failed => ~w.closing /\ (k = "closed" => h.broken)
  BY <1>2 DEF SessionOK, Ended
<1> QED BY <1>1, <1>2, <1>3

\* respond.
LEMMA RespondStep ==
  ASSUME IInv, NEW s \in Sessions, respond(s)
  PROVE  IInv'
<1> DEFINE k == socket[s]  r == rd[s]  w == wr[s]  n == net[s]  h == history[s]
           w1 == wr'[s]  n1 == net'[s]  h1 == history'[s]
           piece == Head(w.reply)
<1>1. SessionOK(k, r, w, n, h, crashed, up) /\ crashed \in BOOLEAN
  BY SessionPart
<1>2. w.reply # <<>> /\ w.reply \in Replies
  BY <1>1 DEF respond, SessionOK, Writers
<1>3. /\ piece \in Given /\ Tail(w.reply) \in Replies
      /\ w.reply \in Seq(Pieces) /\ (piece \in {"body", "raw"} => Tail(w.reply) = <<>>)
  BY <1>2, NextPiece
<1>4. piece \in Pieces /\ piece \in Given /\ piece \notin Failures
      /\ (piece \in Final => piece \in {"body", "raw"})
  BY <1>3 DEF Pieces, Failures, Final, Given
<1>5. Added(s, piece, w1, n1, h1)
  BY <1>2, <1>4, Adding DEF respond
<1>6. UNCHANGED <<up, pending, accepting, socket, rd, crashed>>
  BY DEF respond
<1>7. Puts(socket, socket', s, k) /\ Puts(rd, rd', s, r)
  BY <1>6, SessionPart, PutNone
<1>8. /\ k \in {"open", "closed"}
      /\ ~h.failed => ~w.complete /\ ~w.closing /\ (k = "closed" => h.broken)
  BY <1>1, <1>2, StillTalking
<1>9. h.added \in Seq(Pieces) /\ h.failed \in BOOLEAN
  BY <1>1 DEF SessionOK, Histories
<1>10. Append(h.added, piece) \o Tail(w.reply) = h.added \o w.reply
  BY <1>2, <1>3, <1>9, MovesOn
<1>11. AddThrows(s) => k # "open" \/ up # "up"
  BY DEF AddThrows, Usable
<1> HIDE DEF k, r, w, n, h, w1, n1, h1, piece
<1>12. /\ h1.failed = h.failed /\ w1.reply = Tail(w.reply) /\ w1.complete = (piece \in Final)
       /\ w1.closing = w.closing /\ h1.broken = h.broken
       /\ h1.dead = (h.dead \/ AddThrows(s)) /\ h1.added = Append(h.added, piece)
       /\ n1.asked = n.asked
  BY <1>4, <1>5, <1>9 DEF Added, w, h, n
<1>13. Told(r, w1, h1)
  <2>1. Told(r, w, h)
    BY <1>1 DEF SessionOK
  <2>2. r.st = "responding"
    BY <1>2, <2>1 DEF Told
  <2>3. ~h1.failed => \E answer \in Answers : h1.added \o w1.reply = Hundred(r) \o answer
    BY <1>10, <1>12, <2>1, <2>2 DEF Told
  <2>4. w1.complete => w1.reply = <<>>
    BY <1>3, <1>4, <1>12
  <2> QED BY <2>1, <2>2, <2>3, <2>4 DEF Told
<1>14. Asked(r, n1)
  BY <1>1, <1>12 DEF SessionOK, Asked
<1>15. Ended(k, w1, h1)
  BY <1>8, <1>12 DEF Ended
<1>16. Survived(h1, up)
  BY <1>1, <1>8, <1>11, <1>12 DEF SessionOK, Survived
<1>17. SessionOK(k, r, w1, n1, h1, crashed, up)
  BY <1>1, <1>5, <1>8, <1>13, <1>14, <1>15, <1>16 DEF SessionOK, Unused, Added
<1>18. crashed' \in BOOLEAN /\ (crashed => crashed') /\ (crashed' => crashed /\ r = rd[s])
  BY <1>1, <1>6 DEF r
<1> QED BY <1>5, <1>6, <1>7, <1>17, <1>18, SessionMoves DEF Added, k

\* The list after its front was written.
Written(w, throws) ==
  [w EXCEPT !.queue = Tail(w.queue), !.active = Tail(w.queue) # <<>>, !.locked = throws,
            !.closing = Tail(w.queue) = <<>> /\ SessionComplete(w)]

Wired(w, h, throws) ==
  [h EXCEPT !.wire = Append(@, Head(w.queue)), !.dead = @ \/ throws]

\* What that makes of the list and the history.
Shrunk(w, h, throws, w1, h1) ==
  /\ w1 \in Writers /\ h1 \in Histories
  /\ w1.queue = Tail(w.queue) /\ w1.active = (w1.queue # <<>>)
  /\ w1.complete = w.complete /\ w1.reply = w.reply
  /\ w1.closing = (w1.queue = <<>> /\ w.complete)
  /\ h1.added = h1.wire \o w1.queue
  /\ h1.added = h.added /\ h1.failed = h.failed /\ h1.broken = h.broken
  /\ h1.dead = (h.dead \/ throws)

\* They stay a list and a history, in step with each other.
LEMMA ListShrinks ==
  ASSUME NEW w \in Writers, NEW h \in Histories, NEW throws \in BOOLEAN,
         w.queue # <<>>, h.added = h.wire \o w.queue
  PROVE  Shrunk(w, h, throws, Written(w, throws), Wired(w, h, throws))
<1> DEFINE w1 == Written(w, throws)
           h1 == Wired(w, h, throws)
<1> USE DEF Writers, Histories, Written, Wired
<1>1. Tail(w.queue) \in Seq(Pieces) /\ Head(w.queue) \in Pieces
  BY HeadTailProperties
<1>2. Append(h.wire, Head(w.queue)) \in Seq(Pieces)
  BY <1>1, AppendProperties
<1>3. Append(h.wire, Head(w.queue)) \o Tail(w.queue) = h.wire \o w.queue
  BY MovesOn
<1>4. /\ w1.queue = Tail(w.queue) /\ w1.active = (Tail(w.queue) # <<>>)
      /\ w1.complete = w.complete /\ w1.reply = w.reply
      /\ w1.closing = (Tail(w.queue) = <<>> /\ SessionComplete(w))
  OBVIOUS
<1>5. /\ h1.added = h.added /\ h1.wire = Append(h.wire, Head(w.queue))
      /\ h1.failed = h.failed /\ h1.broken = h.broken /\ h1.dead = (h.dead \/ throws)
  OBVIOUS
<1>6. SessionComplete(w) = w.complete /\ w.complete \in BOOLEAN
  BY DEF SessionComplete
<1>7. w1 \in Writers
  BY <1>1, <1>6
<1>8. h1 \in Histories
  BY <1>2
<1> QED BY <1>3, <1>4, <1>5, <1>6, <1>7, <1>8 DEF Shrunk

\* writeCallback.
LEMMA WriteStep ==
  ASSUME IInv, NEW s \in Sessions, writeCallback(s)
  PROVE  IInv'
<1>0. PICK throws \in BOOLEAN : throws = (Tail(wr[s].queue) # <<>> /\ ~Usable(s))
  OBVIOUS
<1> DEFINE k == socket[s]  r == rd[s]  w == wr[s]  n == net[s]  h == history[s]
           w1 == Written(w, throws)
           n1 == [n EXCEPT !.writing = Tail(w.queue) # <<>> /\ ~throws]
           h1 == Wired(w, h, throws)
<1>1. SessionOK(k, r, w, n, h, crashed, up) /\ wr = [x \in Sessions |-> wr[x]]
      /\ net = [x \in Sessions |-> net[x]] /\ history = [x \in Sessions |-> history[x]]
      /\ crashed \in BOOLEAN
  BY SessionPart
<1>2. w \in Writers /\ n \in Nets /\ h \in Histories /\ Listed(w, n, h) /\ n.writing
  BY <1>1 DEF SessionOK, writeCallback
<1>3. wr' = [wr EXCEPT ![s] = w1] /\ net' = [net EXCEPT ![s] = n1]
      /\ history' = [history EXCEPT ![s] = h1]
  BY <1>0 DEF writeCallback, Written, Wired
<1>4. w.queue # <<>> /\ h.added = h.wire \o w.queue
  BY <1>2 DEF Listed
<1>5. n1 \in Nets /\ n1.asked = n.asked /\ (n1.writing => Tail(w.queue) # <<>>)
  BY <1>2 DEF Nets
<1>6. UNCHANGED <<up, pending, accepting, socket, rd, crashed>>
  BY DEF writeCallback
<1>7. Puts(socket, socket', s, k) /\ Puts(rd, rd', s, r)
  BY <1>6, SessionPart, PutNone
<1>8. throws => k # "open" \/ up # "up"
  BY <1>0, <1>2 DEF Usable
<1> HIDE DEF k, r, w, n, h, n1
<1>9. Shrunk(w, h, throws, w1, h1)
  BY <1>2, <1>4, ListShrinks, Zenon
<1> HIDE DEF w1, h1
<1>10. Puts(wr, wr', s, w1) /\ Puts(net, net', s, n1) /\ Puts(history, history', s, h1)
  BY <1>1, <1>3, PutOne
<1>11. Listed(w1, n1, h1)
  BY <1>5, <1>9 DEF Listed, Shrunk
<1>12. Told(r, w1, h1)
  BY <1>1, <1>9 DEF SessionOK, Told, Shrunk
<1>13. Asked(r, n1)
  BY <1>1, <1>5 DEF SessionOK, Asked
<1>14. k \in {"open", "closed"}
  BY <1>1, <1>4 DEF SessionOK, Unused, FreshWriter
<1>15. ~h.failed /\ ~h.broken => k # "closed" /\ ~w.closing
  BY <1>1, <1>4 DEF SessionOK, Ended
<1>16. Ended(k, w1, h1)
  BY <1>9, <1>15 DEF Ended, Shrunk
<1>17. Survived(h1, up)
  BY <1>1, <1>8, <1>9, <1>14, <1>15 DEF SessionOK, Survived, Shrunk
<1>18. SessionOK(k, r, w1, n1, h1, crashed, up)
  BY <1>1, <1>5, <1>9, <1>11, <1>12, <1>13, <1>14, <1>16, <1>17 DEF SessionOK, Unused, Shrunk
<1>19. crashed' \in BOOLEAN /\ (crashed => crashed') /\ (crashed' => crashed /\ r = rd[s])
  BY <1>1, <1>6 DEF r
<1> QED BY <1>6, <1>7, <1>10, <1>18, <1>19, SessionMoves DEF k

\* CloseWritten.
LEMMA CloseStep ==
  ASSUME IInv, NEW s \in Sessions, CloseWritten(s)
  PROVE  IInv'
<1> DEFINE k == socket[s]  r == rd[s]  w == wr[s]  n == net[s]  h == history[s]
           w1 == [w EXCEPT !.closing = FALSE]
<1>1. SessionOK(k, r, w, n, h, crashed, up) /\ crashed \in BOOLEAN
      /\ socket = [x \in Sessions |-> socket[x]] /\ wr = [x \in Sessions |-> wr[x]]
  BY SessionPart
<1>2. w \in Writers /\ w.closing
  BY <1>1 DEF SessionOK, CloseWritten
<1>3. wr' = [wr EXCEPT ![s] = w1] /\ socket' = [socket EXCEPT ![s] = "closed"]
  BY DEF CloseWritten
<1>4. Puts(wr, wr', s, w1) /\ Puts(socket, socket', s, "closed")
  BY <1>1, <1>3, PutOne
<1>5. UNCHANGED <<up, pending, accepting, net, rd, crashed, history>>
  BY DEF CloseWritten
<1>6. Puts(net, net', s, n) /\ Puts(rd, rd', s, r) /\ Puts(history, history', s, h)
  BY <1>5, SessionPart, PutNone
<1>7. k \in {"open", "closed"}
  BY <1>1, <1>2 DEF SessionOK, Unused, FreshWriter
<1>8. /\ w1 \in Writers /\ w1.closing = FALSE /\ w1.queue = w.queue
      /\ w1.active = w.active /\ w1.complete = w.complete /\ w1.reply = w.reply
  BY <1>2 DEF Writers
<1> HIDE DEF k, r, w, n, h, w1
<1>9. Listed(w1, n, h) /\ Told(r, w1, h)
  BY <1>1, <1>8 DEF SessionOK, Listed, Told
<1>10. Ended("closed", w1, h)
  BY <1>1, <1>2, <1>8 DEF SessionOK, Ended
<1>11. SessionOK("closed", r, w1, n, h, crashed, up)
  BY <1>1, <1>8, <1>9, <1>10 DEF SessionOK, Unused
<1>12. crashed' \in BOOLEAN /\ (crashed => crashed') /\ (crashed' => crashed /\ r = rd[s])
  BY <1>1, <1>5 DEF r
<1> QED BY <1>4, <1>5, <1>6, <1>7, <1>11, <1>12, SessionMoves DEF k

\* What an error leaves: the connection is broken, and the socket closed.
LEMMA BreakStep ==
  ASSUME IInv, NEW s \in Sessions, NEW n1,
         net' = [net EXCEPT ![s] = n1], n1 \in Nets,
         n1.asked = net[s].asked \/ n1.asked < 0, n1.writing => net[s].writing,
         net[s] # FreshNet,
         socket' = [socket EXCEPT ![s] = "closed"], Note(s, "broken"),
         UNCHANGED <<up, pending, accepting, rd, wr, crashed>>
  PROVE  IInv'
<1> DEFINE k == socket[s]  r == rd[s]  w == wr[s]  n == net[s]  h == history[s]
           h1 == [h EXCEPT !.broken = TRUE]
<1>1. SessionOK(k, r, w, n, h, crashed, up) /\ crashed \in BOOLEAN
      /\ socket = [x \in Sessions |-> socket[x]] /\ net = [x \in Sessions |-> net[x]]
      /\ history = [x \in Sessions |-> history[x]]
  BY SessionPart
<1>2. h \in Histories
  BY <1>1 DEF SessionOK
<1>3. history' = [history EXCEPT ![s] = h1]
  BY DEF Note
<1>4. Puts(net, net', s, n1) /\ Puts(socket, socket', s, "closed")
      /\ Puts(history, history', s, h1)
  BY <1>1, <1>3, PutOne
<1>5. Puts(wr, wr', s, w) /\ Puts(rd, rd', s, r)
  BY SessionPart, PutNone
<1>6. k \in {"open", "closed"}
  BY <1>1 DEF SessionOK, Unused
<1>7. /\ h1 \in Histories /\ h1.broken = TRUE /\ h1.failed = h.failed
      /\ h1.added = h.added /\ h1.wire = h.wire
  BY <1>2 DEF Histories
<1> HIDE DEF k, r, w, h, h1
<1>8. Listed(w, n1, h1) /\ Told(r, w, h1)
  BY <1>1, <1>7 DEF SessionOK, Listed, Told
<1>9. Ended("closed", w, h1)
  BY <1>1, <1>7 DEF SessionOK, Ended
<1>10. Asked(r, n1)
  BY <1>1 DEF SessionOK, Asked, Nets
<1>11. Survived(h1, up)
  BY <1>7 DEF Survived
<1>12. SessionOK("closed", r, w, n1, h1, crashed, up)
  BY <1>1, <1>7, <1>8, <1>9, <1>10, <1>11 DEF SessionOK, Unused
<1>13. crashed' \in BOOLEAN /\ (crashed => crashed') /\ (crashed' => crashed /\ r = rd[s])
  BY <1>1 DEF r
<1> QED BY <1>4, <1>5, <1>6, <1>12, <1>13, SessionMoves DEF k

\* WriteFails.
LEMMA WriteFailsStep ==
  ASSUME IInv, NEW s \in Sessions, WriteFails(s)
  PROVE  IInv'
<1> DEFINE n == net[s]
           n1 == [n EXCEPT !.writing = FALSE]
<1>1. n \in Nets /\ n.writing
  BY SessionPart DEF SessionOK, WriteFails
<1>2. n1 \in Nets /\ n1.asked = n.asked /\ n1.writing = FALSE
  BY <1>1 DEF Nets
<1>3. n # FreshNet
  BY <1>1 DEF FreshNet
<1>4. net' = [net EXCEPT ![s] = n1]
  BY DEF WriteFails
<1> HIDE DEF n1
<1> QED BY <1>2, <1>3, <1>4, BreakStep DEF WriteFails

\* ReadFails.
LEMMA ReadFailsStep ==
  ASSUME IInv, NEW s \in Sessions, ReadFails(s)
  PROVE  IInv'
<1> DEFINE n == net[s]
           n1 == [n EXCEPT !.asked = -1]
<1>1. n \in Nets /\ n.asked >= 0
  BY SessionPart DEF SessionOK, ReadFails
<1>2. n1 \in Nets /\ n1.asked < 0 /\ n1.writing = n.writing
  BY <1>1 DEF Nets
<1>3. n # FreshNet
  BY <1>1 DEF FreshNet
<1>4. net' = [net EXCEPT ![s] = n1]
  BY DEF ReadFails
<1> HIDE DEF n1
<1> QED BY <1>2, <1>3, <1>4, BreakStep DEF ReadFails

-----------------------------------------------------------------------------
(* Reading.                                                                 *)

\* A reader that has looked no further than its buffer, and waits for no body.
Base(r) == Shaped(r) /\ Fielded(r) /\ Sound(r, FALSE)

\* It reads the same request, as far.
SameStory(r, r1) == r1.st = r.st /\ r1.version = r.version

SamePlace(r, r1) == r1.at = r.at /\ r1.piece = r.piece /\ r1.then = r.then

\* Looking further.
LEMMA Looks ==
  ASSUME NEW r, Base(r), NEW i \in Nat, i <= Len(r.buf)
  PROVE  /\ Base([r EXCEPT !.idx = i])
         /\ SameStory(r, [r EXCEPT !.idx = i]) /\ SamePlace(r, [r EXCEPT !.idx = i])
<1> DEFINE r1 == [r EXCEPT !.idx = i]
<1>1. r1 = [r EXCEPT !.idx = i] /\ Shaped(r)
  BY DEF Base
<1> HIDE DEF r1
<1>2. Shaped(r1) /\ r1.idx = i
  BY <1>1 DEF Shaped
<1>3. r1.at = r.at /\ r1.st = r.st /\ r1.piece = r.piece /\ r1.then = r.then
      /\ r1.version = r.version
  BY <1>1 DEF Shaped
<1>4. r1.buf = r.buf /\ r1.len = r.len /\ r1.index = r.index
  BY <1>1 DEF Shaped
<1>5. Base(r1)
  BY <1>2, <1>3, <1>4 DEF Base, Fielded, Sound
<1>6. SameStory(r, r1) /\ SamePlace(r, r1)
  BY <1>3 DEF SameStory, SamePlace
<1> QED BY <1>5, <1>6 DEF r1

\* What a reader comes to: it goes on, as before, at a place without a piece.
Goes(r, r1, at) == Base(r1) /\ SameStory(r, r1) /\ r1.at = at

\* Going on, or waiting for more.
LEMMA GoesTo ==
  ASSUME NEW r, Base(r), NEW at, at \in {"out", "headers", "again", "dead"}
  PROVE  Goes(r, [r EXCEPT !.at = at], at)
<1> DEFINE r1 == [r EXCEPT !.at = at]
<1>1. r1 = [r EXCEPT !.at = at] /\ Shaped(r)
  BY DEF Base
<1> HIDE DEF r1
<1>2. Shaped(r1) /\ r1.at = at
  BY <1>1 DEF Shaped
<1>3. r1.st = r.st /\ r1.version = r.version /\ r1.idx = r.idx
  BY <1>1 DEF Shaped
<1>4. r1.buf = r.buf /\ r1.len = r.len /\ r1.index = r.index
  BY <1>1 DEF Shaped
<1>5. Base(r1)
  BY <1>2, <1>3, <1>4 DEF Base, Fielded, Sound
<1> QED BY <1>2, <1>3, <1>5 DEF Goes, SameStory, r1

Fails(r, r1) == Goes(r, r1, "add") /\ r1.piece \in Failures /\ r1.then = "again"

\* Telling of a failure.
LEMMA FailsWith ==
  ASSUME NEW r, Base(r), NEW piece \in Failures
  PROVE  Fails(r, Failing(r, piece))
<1> DEFINE r1 == Failing(r, piece)
<1>1. r1 = [r EXCEPT !.at = "add", !.piece = piece, !.then = "again"] /\ Shaped(r)
  BY DEF Base, Failing
<1> HIDE DEF r1
<1>2. Shaped(r1) /\ r1.at = "add" /\ r1.piece = piece /\ r1.then = "again"
  BY <1>1 DEF Shaped
<1>3. r1.st = r.st /\ r1.version = r.version /\ r1.idx = r.idx
  BY <1>1 DEF Shaped
<1>4. r1.buf = r.buf /\ r1.len = r.len /\ r1.index = r.index
  BY <1>1 DEF Shaped
<1>5. Base(r1)
  BY <1>2, <1>3, <1>4 DEF Base, Fielded, Sound
<1> QED BY <1>2, <1>3, <1>5 DEF Fails, Goes, SameStory, r1

\* Taking the line out of the buffer.
LEMMA Flushes ==
  ASSUME NEW r, Base(r)
  PROVE  /\ Base(flushLine(r))
         /\ SameStory(r, flushLine(r)) /\ SamePlace(r, flushLine(r))
<1> DEFINE r1 == flushLine(r)
<1>1. r1 = [r EXCEPT !.buf = SubSeq(r.buf, r.idx + 1, Len(r.buf)), !.idx = 0]
      /\ Shaped(r)
  BY DEF Base, flushLine
<1> HIDE DEF r1
<1>2. Shaped(r1) /\ r1.idx = 0 /\ r1.buf = SubSeq(r.buf, r.idx + 1, Len(r.buf))
  BY <1>1 DEF Shaped
<1>3. r1.st = r.st /\ r1.version = r.version /\ r1.at = r.at /\ r1.piece = r.piece
      /\ r1.then = r.then
  BY <1>1 DEF Shaped
<1>4. r1.len = r.len /\ r1.index = r.index
  BY <1>1 DEF Shaped
<1>5. r.buf \in Seq(STRING) /\ r.idx \in Nat /\ r.idx <= Len(r.buf) /\ Len(r.buf) <= MaxLine
  BY DEF Base, Fielded, Sound
<1>6. r1.buf \in Seq(STRING) /\ Len(r1.buf) <= MaxLine /\ Len(r1.buf) \in Nat
  <2> DEFINE buf == r.buf  i == r.idx  len == Len(buf)
  <2>1. len \in Nat /\ i + 1 \in Int /\ \A j \in i + 1 .. len : buf[j] \in STRING
    BY <1>5
  <2>2. r1.buf = SubSeq(buf, i + 1, len)
    BY <1>2
  <2>3. len <= MaxLine /\ MaxLine \in Nat /\ i \in Nat
    BY <1>5, HttpAssumption
  <2> HIDE DEF buf, i, len
  <2>4. /\ SubSeq(buf, i + 1, len) \in Seq(STRING)
        /\ Len(SubSeq(buf, i + 1, len)) = IF i + 1 <= len THEN len - (i + 1) + 1 ELSE 0
    BY <2>1, SubSeqProperties
  <2> DEFINE new == Len(SubSeq(buf, i + 1, len))
  <2>5. new = IF i + 1 <= len THEN len - (i + 1) + 1 ELSE 0
    BY <2>4
  <2> HIDE DEF new
  <2>6. new \in Nat /\ new <= MaxLine
    BY <2>1, <2>3, <2>5
  <2> QED BY <2>2, <2>4, <2>6 DEF new
<1>7. Base(r1)
  BY <1>2, <1>3, <1>4, <1>6 DEF Base, Fielded, Sound
<1> QED BY <1>3, <1>7 DEF SameStory, SamePlace, r1

\* The first line was understood.
Understood(r, method, version) ==
  [r EXCEPT !.st = "headers", !.at = "headers", !.method = method, !.version = version]

\* The parser is ready for the headers.
LEMMA Understands ==
  ASSUME NEW r, Base(r), NEW method, NEW version
  PROVE  /\ Base(Understood(r, method, version))
         /\ Understood(r, method, version).st = "headers"
         /\ Understood(r, method, version).at = "headers"
         /\ Understood(r, method, version).version = version
<1> DEFINE r1 == Understood(r, method, version)
<1>1. r1 = [r EXCEPT !.st = "headers", !.at = "headers",
                     !.method = method, !.version = version] /\ Shaped(r)
  BY DEF Base, Understood
<1> HIDE DEF r1
<1>2. Shaped(r1) /\ r1.st = "headers" /\ r1.at = "headers" /\ r1.version = version
  BY <1>1 DEF Shaped
<1>3. r1.buf = r.buf /\ r1.idx = r.idx /\ r1.len = r.len /\ r1.index = r.index
  BY <1>1 DEF Shaped
<1>4. Base(r1)
  BY <1>2, <1>3 DEF Base, Fielded, Sound
<1> QED BY <1>2, <1>4 DEF r1

\* The answer to the first line of a request of HTTP/1.1.
Continuing(r) == [r EXCEPT !.at = "add", !.piece = "100", !.then = "headers"]

\* It tells to continue, and then goes on to the headers.
LEMMA Continues ==
  ASSUME NEW r, Base(r)
  PROVE  /\ Goes(r, Continuing(r), "add")
         /\ Continuing(r).piece = "100" /\ Continuing(r).then = "headers"
<1> DEFINE r1 == Continuing(r)
<1>1. r1 = [r EXCEPT !.at = "add", !.piece = "100", !.then = "headers"] /\ Shaped(r)
  BY DEF Base, Continuing
<1> HIDE DEF r1
<1>2. Shaped(r1) /\ r1.at = "add" /\ r1.piece = "100" /\ r1.then = "headers"
  BY <1>1 DEF Shaped
<1>3. r1.st = r.st /\ r1.version = r.version
  BY <1>1 DEF Shaped
<1>4. r1.buf = r.buf /\ r1.idx = r.idx /\ r1.len = r.len /\ r1.index = r.index
  BY <1>1 DEF Shaped
<1>5. Base(r1)
  BY <1>2, <1>3, <1>4 DEF Base, Fielded, Sound
<1> QED BY <1>2, <1>3, <1>5 DEF Goes, SameStory, r1

\* A parser that goes on with the same request is still told the same.
LEMMA ToldStill ==
  ASSUME NEW r, NEW r1, NEW w, NEW h, Told(r, w, h), r.at # "add", r.st \in Reading,
         r1.version = r.version,
         r1.st = r.st \/ (r.st = "headers" /\ r1.st = "body"),
         r1.at = "add" => r1.piece # "100"
  PROVE  Told(r1, w, h)
<1>1. r.st \in {"firstLine", "headers"} /\ r1.st \in {"firstLine", "headers", "body"}
  BY DEF Reading
<1>2. Hundred(r1) = Hundred(r)
  BY DEF Hundred
<1> QED BY <1>1, <1>2 DEF Told

\* The parser moves, and nothing but the parser.
LEMMA ParserMoves ==
  ASSUME IInv, NEW s \in Sessions, NEW r1, ~crashed,
         rd' = [rd EXCEPT ![s] = r1], rd[s].at \in {"firstLine", "headers", "again"},
         Shaped(r1), Fielded(r1), Placed(r1), Sound(r1, crashed'),
         Told(r1, wr[s], history[s]), crashed' \in BOOLEAN, crashed' => r1.len > 0,
         UNCHANGED <<up, pending, accepting, socket, net, wr, history>>
  PROVE  IInv'
<1> DEFINE k == socket[s]  r == rd[s]  w == wr[s]  n == net[s]  h == history[s]
<1>1. SessionOK(k, r, w, n, h, crashed, up) /\ rd = [x \in Sessions |-> rd[x]]
      /\ crashed = FALSE
  BY SessionPart
<1>2. Puts(rd, rd', s, r1)
  BY <1>1, PutOne
<1>3. /\ Puts(socket, socket', s, k) /\ Puts(wr, wr', s, w) /\ Puts(net, net', s, n)
      /\ Puts(history, history', s, h)
  BY SessionPart, PutNone
<1>4. k \in {"open", "closed"}
  BY <1>1 DEF SessionOK, Unused, FreshReader
<1>5. Asked(r1, n)
  BY <1>1 DEF SessionOK, Asked
<1> HIDE DEF k, r, w, n, h
<1>6. Told(r1, w, h)
  BY DEF w, h
<1>7. SessionOK(k, r, w, n, h, FALSE, up)
  BY <1>1
<1>8. SessionOK(k, r1, w, n, h, crashed', up)
  BY <1>4, <1>5, <1>6, <1>7 DEF SessionOK, Unused
<1> QED BY <1>2, <1>3, <1>8, SessionMoves DEF k

\* A parser at work has a buffer to look into.
LEMMA AtWork ==
  ASSUME IInv, NEW s \in Sessions, ~crashed
  PROVE  /\ crashed = FALSE
         /\ Base(rd[s]) /\ Placed(rd[s]) /\ Told(rd[s], wr[s], history[s])
         /\ rd[s].buf \in Seq(STRING) /\ rd[s].idx \in Nat /\ rd[s].idx <= Len(rd[s].buf)
<1>1. SessionOK(socket[s], rd[s], wr[s], net[s], history[s], crashed, up) /\ crashed = FALSE
  BY SessionPart
<1> QED BY <1>1 DEF SessionOK, Base, Fielded, Sound

\* Where it stands after a line was looked for.
LEMMA LookedFor ==
  ASSUME IInv, NEW s \in Sessions, ~crashed, NEW got, NEW r,
         got = tryReadLine(rd[s].buf, rd[s].idx), r = [rd[s] EXCEPT !.idx = got.idx]
  PROVE  /\ Base(r) /\ SameStory(rd[s], r) /\ SamePlace(rd[s], r)
         /\ got.found \in {"line", "none", "invalid"}
         /\ got.found = "line" => r.idx > 0
<1>1. Base(rd[s]) /\ rd[s].buf \in Seq(STRING) /\ rd[s].idx \in Nat /\ rd[s].idx <= Len(rd[s].buf)
  BY AtWork
<1>2. /\ got.idx \in Nat /\ got.idx <= Len(rd[s].buf)
      /\ got.found \in {"line", "none", "invalid"} /\ (got.found = "line" => got.idx > 0)
  BY <1>1, LineFound
<1>3. Base(r) /\ SameStory(rd[s], r) /\ SamePlace(rd[s], r)
  BY <1>1, <1>2, Looks
<1>4. r.idx = got.idx
  BY <1>1 DEF Base, Shaped
<1> QED BY <1>2, <1>3, <1>4

\* A parser that fails goes to tell of it.
LEMMA FailingParser ==
  ASSUME IInv, NEW s \in Sessions, NEW r, NEW r1, ~crashed, crashed' = FALSE,
         rd[s].at \in {"firstLine", "headers"}, SameStory(rd[s], r), Fails(r, r1)
  PROVE  /\ Shaped(r1) /\ Fielded(r1) /\ Placed(r1) /\ Sound(r1, crashed')
         /\ Told(r1, wr[s], history[s]) /\ crashed' \in BOOLEAN
         /\ r1.at = "add"
<1>1. Base(r1) /\ r1.st = rd[s].st /\ r1.version = rd[s].version /\ r1.at = "add"
      /\ r1.piece \in Failures /\ r1.then = "again"
  BY DEF Fails, Goes, SameStory
<1>2. Placed(rd[s]) /\ Told(rd[s], wr[s], history[s])
  BY AtWork
<1>3. rd[s].st = rd[s].at /\ rd[s].st \in Reading
  BY <1>2 DEF Placed, Reading
<1>4. r1.piece # "100"
  BY <1>1 DEF Failures
<1>5. Told(r1, wr[s], history[s])
  BY <1>1, <1>2, <1>3, <1>4, ToldStill
<1>6. Placed(r1)
  BY <1>1, <1>3 DEF Placed
<1> QED BY <1>1, <1>5, <1>6 DEF Base, Sound

\* So does one that waits for more go on waiting.
LEMMA WaitingParser ==
  ASSUME IInv, NEW s \in Sessions, NEW r, NEW r1, ~crashed, crashed' = FALSE,
         rd[s].at \in {"firstLine", "headers"}, SameStory(rd[s], r), Goes(r, r1, "again")
  PROVE  /\ Shaped(r1) /\ Fielded(r1) /\ Placed(r1) /\ Sound(r1, crashed')
         /\ Told(r1, wr[s], history[s]) /\ crashed' \in BOOLEAN
<1>1. Base(r1) /\ r1.st = rd[s].st /\ r1.version = rd[s].version /\ r1.at = "again"
  BY DEF Goes, SameStory
<1>2. Placed(rd[s]) /\ Told(rd[s], wr[s], history[s])
  BY AtWork
<1>3. rd[s].st = rd[s].at /\ rd[s].st \in Reading
  BY <1>2 DEF Placed, Reading
<1>5. Told(r1, wr[s], history[s])
  BY <1>1, <1>2, <1>3, ToldStill
<1>6. Placed(r1)
  BY <1>1, <1>3 DEF Placed
<1> QED BY <1>1, <1>5, <1>6 DEF Base, Sound

\* FirstLine.
LEMMA FirstLineStep ==
  ASSUME IInv, NEW s \in Sessions, FirstLine(s)
  PROVE  IInv'
<1> DEFINE got == tryReadLine(rd[s].buf, rd[s].idx)
           r == [rd[s] EXCEPT !.idx = got.idx]
           first == parseFirstRequestLine(got.line)
           f == flushLine(r)
           next == Understood(f, first.method, first.version)
           told == Continuing(next)
           r1 == CASE got.found = "invalid" -> Failing(r, "400")
                   [] got.found = "none" -> [r EXCEPT !.at = "again"]
                   [] got.found = "line" /\ ~first.valid -> Failing(r, "501")
                   [] OTHER -> IF first.version = "HTTP/1.1" THEN told ELSE next
<1>1. /\ rd[s].at = "firstLine" /\ ~crashed /\ rd' = [rd EXCEPT ![s] = r1]
      /\ UNCHANGED <<up, pending, accepting, socket, net, wr, crashed, history>>
      /\ crashed = FALSE
  BY AtWork DEF FirstLine, Understood, Continuing
<1>2. /\ Base(r) /\ SameStory(rd[s], r) /\ got.found \in {"line", "none", "invalid"}
  BY <1>1, LookedFor
<1>3. Placed(rd[s]) /\ Told(rd[s], wr[s], history[s])
  BY <1>1, AtWork
<1>4. rd[s].st = "firstLine"
  BY <1>1, <1>3 DEF Placed
<1>5. \/ r1 = Failing(r, "400") \/ r1 = [r EXCEPT !.at = "again"] \/ r1 = Failing(r, "501")
      \/ (first.version = "HTTP/1.1" /\ r1 = told) \/ (first.version # "HTTP/1.1" /\ r1 = next)
  BY <1>2
<1>6. Base(f)
  BY <1>2, Flushes
<1>7. Base(next) /\ next.st = "headers" /\ next.at = "headers" /\ next.version = first.version
  BY <1>6, Understands
<1>8. Goes(next, told, "add") /\ told.piece = "100" /\ told.then = "headers"
  BY <1>7, Continues
<1> HIDE DEF r1, told, next, f, r, first, got
<1>9. /\ Shaped(r1) /\ Fielded(r1) /\ Placed(r1) /\ Sound(r1, crashed')
      /\ Told(r1, wr[s], history[s]) /\ crashed' \in BOOLEAN
  <2>1. CASE r1 = Failing(r, "400") \/ r1 = Failing(r, "501")
    <3>1. "400" \in Failures /\ "501" \in Failures
      BY DEF Failures
    <3>2. Fails(r, r1)
      BY <1>2, <2>1, <3>1, FailsWith
    <3> QED BY <1>1, <1>2, <3>2, FailingParser
  <2>2. CASE r1 = [r EXCEPT !.at = "again"]
    <3>1. Goes(r, r1, "again")
      BY <1>2, <2>2, GoesTo
    <3> QED BY <1>1, <1>2, <3>1, WaitingParser
  <2>3. CASE first.version = "HTTP/1.1" /\ r1 = told
    <3>1. Base(r1) /\ r1.st = "headers" /\ r1.at = "add" /\ r1.version = "HTTP/1.1"
          /\ r1.piece = "100" /\ r1.then = "headers"
      BY <1>7, <1>8, <2>3 DEF Goes, SameStory
    <3>2. Told(r1, wr[s], history[s])
      BY <1>3, <1>4, <3>1 DEF Told
    <3>3. Placed(r1)
      BY <3>1 DEF Placed, Reading
    <3> QED BY <1>1, <3>1, <3>2, <3>3 DEF Base, Sound
  <2>4. CASE first.version # "HTTP/1.1" /\ r1 = next
    <3>1. Hundred(r1) = <<>>
      BY <1>7, <2>4 DEF Hundred
    <3>2. Told(r1, wr[s], history[s])
      BY <1>3, <1>4, <1>7, <2>4, <3>1 DEF Told
    <3>3. Placed(r1)
      BY <1>7, <2>4 DEF Placed
    <3> QED BY <1>1, <1>7, <2>4, <3>2, <3>3 DEF Base, Sound
  <2> QED BY <1>5, <2>1, <2>2, <2>3, <2>4
<1> QED BY <1>1, <1>9, ParserMoves

\* A header more changes nothing but the headers.
LEMMA HeadersGrow ==
  ASSUME NEW r, Base(r), NEW headers
  PROVE  /\ Base([r EXCEPT !.headers = headers])
         /\ SameStory(r, [r EXCEPT !.headers = headers])
         /\ SamePlace(r, [r EXCEPT !.headers = headers])
<1> DEFINE r1 == [r EXCEPT !.headers = headers]
<1>1. r1 = [r EXCEPT !.headers = headers] /\ Shaped(r)
  BY DEF Base
<1> HIDE DEF r1
<1>2. Shaped(r1)
  BY <1>1 DEF Shaped
<1>3. r1.at = r.at /\ r1.st = r.st /\ r1.piece = r.piece /\ r1.then = r.then
      /\ r1.version = r.version
  BY <1>1 DEF Shaped
<1>4. r1.buf = r.buf /\ r1.idx = r.idx /\ r1.len = r.len /\ r1.index = r.index
  BY <1>1 DEF Shaped
<1>5. Base(r1)
  BY <1>2, <1>3, <1>4 DEF Base, Fielded, Sound
<1>6. SameStory(r, r1) /\ SamePlace(r, r1)
  BY <1>3 DEF SameStory, SamePlace
<1> QED BY <1>5, <1>6 DEF r1

Keeps(r, r1) == Base(r1) /\ SameStory(r, r1) /\ SamePlace(r, r1)

\* A header is kept, or is a failure.
LEMMA HeaderKept ==
  ASSUME NEW r, Base(r), NEW line
  PROVE  Keeps(r, Header(r, line)) \/ Fails(r, Header(r, line))
<1> DEFINE last == Len(r.headers)
           more == [r.headers EXCEPT ![last] = @ \o line]
           new == Append(r.headers, line)
<1>1. Fails(r, Failing(r, "400"))
  BY FailsWith DEF Failures
<1>2. Keeps(r, [r EXCEPT !.headers = more]) /\ Keeps(r, [r EXCEPT !.headers = new])
  BY HeadersGrow DEF Keeps
<1>3. \/ Header(r, line) = Failing(r, "400")
      \/ Header(r, line) = [r EXCEPT !.headers = more]
      \/ Header(r, line) = [r EXCEPT !.headers = new]
  BY DEF Header
<1> QED BY <1>1, <1>2, <1>3

\* The headers ask for a body that is there: nothing to wait for.
Bodied(r, r1) ==
  Base(r1) /\ r1.st = "body" /\ r1.at = "body" /\ r1.version = r.version

\* They ask for content: the buffer counts as empty, and the line as in it.
Doomed(r, r1) ==
  /\ Shaped(r1) /\ Fielded(r1) /\ r1.st = "body" /\ r1.at = "body"
  /\ r1.version = r.version /\ r1.idx = r.idx /\ r1.buf = <<>> /\ r1.len > 0

\* contentLen is one of the lengths that there are.
LEMMA ContentLengths ==
  ASSUME NEW headers
  PROVE  parseHeaders(headers) \in {-1, 0, 1, 2}
BY DEF parseHeaders, LengthOf

\* The end of the headers is a failure, no body, or the end of the program.
LEMMA HeadersEnd ==
  ASSUME NEW r, Base(r)
  PROVE  \/ Fails(r, EndOfHeaders(r)) \/ Bodied(r, EndOfHeaders(r))
         \/ Doomed(r, EndOfHeaders(r))
<1> DEFINE len == parseHeaders(r.headers)
           body == [r EXCEPT !.st = "body", !.at = "body", !.len = len]
           least == Min({len, Len(r.buf)})
           doomed == [r EXCEPT !.st = "body", !.at = "body", !.len = len,
                               !.index = least, !.buf = <<>>]
<1>1. len \in {-1, 0, 1, 2}
  BY ContentLengths
<1>2. /\ Fails(r, Failing(r, "400")) /\ Fails(r, Failing(r, "411"))
  BY FailsWith DEF Failures
<1>3. Shaped(r) /\ Fielded(r)
  BY DEF Base
<1> HIDE DEF len, least
<1>4. \/ EndOfHeaders(r) = Failing(r, "400") \/ EndOfHeaders(r) = Failing(r, "411")
      \/ (len = 0 /\ EndOfHeaders(r) = body)
      \/ (len \in {1, 2} /\ EndOfHeaders(r) = doomed)
  <2>1. EndOfHeaders(r) =
          CASE len = -1 -> Failing(r, "400")
            [] len = 0 /\ r.method \in {"PUT", "POST"} -> Failing(r, "411")
            [] len = 0 /\ r.method \notin {"PUT", "POST"} -> body
            [] OTHER -> [body EXCEPT !.index = least, !.buf = <<>>]
    BY DEF EndOfHeaders, len, least
  <2>2. [body EXCEPT !.index = least, !.buf = <<>>] = doomed
    BY <1>3 DEF Shaped
  <2> HIDE DEF body, doomed
  <2> QED BY <1>1, <2>1, <2>2
<1>5. ASSUME len = 0 PROVE Bodied(r, body)
  <2>1. body = [r EXCEPT !.st = "body", !.at = "body", !.len = 0]
    BY <1>5
  <2> HIDE DEF body
  <2>2. Shaped(body) /\ body.st = "body" /\ body.at = "body" /\ body.len = 0
    BY <1>3, <2>1 DEF Shaped
  <2>3. body.version = r.version /\ body.idx = r.idx /\ body.buf = r.buf
        /\ body.index = r.index
    BY <1>3, <2>1 DEF Shaped
  <2>4. Base(body)
    BY <2>2, <2>3 DEF Base, Fielded, Sound
  <2> QED BY <2>2, <2>3, <2>4 DEF Bodied
<1>6. ASSUME len \in {1, 2} PROVE Doomed(r, doomed)
  <2>1. doomed = [r EXCEPT !.st = "body", !.at = "body", !.len = len,
                           !.index = least, !.buf = <<>>]
    OBVIOUS
  <2> HIDE DEF doomed
  <2>2. Shaped(doomed) /\ doomed.st = "body" /\ doomed.at = "body" /\ doomed.len = len
        /\ doomed.buf = <<>>
    BY <1>3, <2>1 DEF Shaped
  <2>3. doomed.version = r.version /\ doomed.idx = r.idx
    BY <1>3, <2>1 DEF Shaped
  <2>4. <<>> \in Seq(STRING) /\ Len(<<>>) <= MaxLine
    BY HttpAssumption
  <2>5. Fielded(doomed)
    BY <1>3, <2>2, <2>3, <2>4 DEF Fielded
  <2>6. doomed.len > 0
    BY <1>6, <2>2
  <2> QED BY <2>2, <2>3, <2>5, <2>6 DEF Doomed
<1> QED BY <1>2, <1>4, <1>5, <1>6

\* HeaderLine.
LEMMA HeaderLineStep ==
  ASSUME IInv, NEW s \in Sessions, HeaderLine(s)
  PROVE  IInv'
<1> DEFINE got == tryReadLine(rd[s].buf, rd[s].idx)
           r == [rd[s] EXCEPT !.idx = got.idx]
           done == CASE got.found = "invalid" -> Failing(r, "400")
                     [] got.found = "none" -> [r EXCEPT !.at = "again"]
                     [] OTHER -> IF got.line = <<>> THEN EndOfHeaders(r)
                                                    ELSE Header(r, got.line)
           flushes == done.at \in {"headers", "body"}
           r1 == IF flushes /\ ~crashed' THEN flushLine(done) ELSE done
<1>1. /\ rd[s].at = "headers" /\ ~crashed /\ rd' = [rd EXCEPT ![s] = r1]
      /\ crashed' = (flushes /\ FlushCrashes(done))
      /\ UNCHANGED <<up, pending, accepting, socket, net, wr, history>>
  BY DEF HeaderLine
<1>2. /\ Base(r) /\ SameStory(rd[s], r) /\ SamePlace(rd[s], r)
      /\ got.found \in {"line", "none", "invalid"} /\ (got.found = "line" => r.idx > 0)
  BY <1>1, LookedFor
<1>3. Placed(rd[s]) /\ Told(rd[s], wr[s], history[s])
  BY <1>1, AtWork
<1>4. rd[s].st = "headers"
  BY <1>1, <1>3 DEF Placed
<1>5. \/ done = Failing(r, "400") \/ done = [r EXCEPT !.at = "again"]
      \/ (got.found = "line" /\ done = EndOfHeaders(r))
      \/ (got.found = "line" /\ done = Header(r, got.line))
  BY <1>2
<1> HIDE DEF done, r, got
<1>6. \/ Fails(r, done) \/ Goes(r, done, "again") \/ Keeps(r, done) \/ Bodied(r, done)
      \/ (Doomed(r, done) /\ r.idx > 0)
  <2>1. Fails(r, Failing(r, "400"))
    BY <1>2, FailsWith DEF Failures
  <2>2. Goes(r, [r EXCEPT !.at = "again"], "again")
    BY <1>2, GoesTo
  <2>3. Keeps(r, Header(r, got.line)) \/ Fails(r, Header(r, got.line))
    BY <1>2, HeaderKept
  <2>4. Fails(r, EndOfHeaders(r)) \/ Bodied(r, EndOfHeaders(r)) \/ Doomed(r, EndOfHeaders(r))
    BY <1>2, HeadersEnd
  <2> QED BY <1>2, <1>5, <2>1, <2>2, <2>3, <2>4
<1>7. crashed' \in BOOLEAN
  BY <1>1
<1>8. /\ Shaped(r1) /\ Fielded(r1) /\ Placed(r1) /\ Sound(r1, crashed')
      /\ Told(r1, wr[s], history[s]) /\ (crashed' => r1.len > 0)
  <2>1. CASE Fails(r, done)
    <3>1. done.at = "add"
      BY <2>1 DEF Fails, Goes
    <3>2. r1 = done /\ crashed' = FALSE
      BY <1>1, <3>1
    <3> HIDE DEF r1
    <3> QED BY <1>1, <1>2, <2>1, <3>2, FailingParser
  <2>2. CASE Goes(r, done, "again")
    <3>1. done.at = "again"
      BY <2>2 DEF Goes
    <3>2. r1 = done /\ crashed' = FALSE
      BY <1>1, <3>1
    <3> HIDE DEF r1
    <3> QED BY <1>1, <1>2, <2>2, <3>2, WaitingParser
  <2>3. CASE Keeps(r, done) \/ Bodied(r, done)
    <3>1. Base(done) /\ done.version = r.version
          /\ ((done.st = "headers" /\ done.at = "headers") \/ (done.st = "body" /\ done.at = "body"))
      BY <1>1, <1>2, <1>4, <2>3 DEF Keeps, Bodied, SameStory, SamePlace
    <3>2. done.idx <= Len(done.buf) /\ Len(done.buf) \in Nat /\ done.idx \in Nat
      BY <3>1 DEF Base, Fielded, Sound
    <3>3. r1 = flushLine(done) /\ crashed' = FALSE
      <4>1. ~FlushCrashes(done)
        BY <3>2 DEF FlushCrashes
      <4>2. flushes
        BY <3>1
      <4> HIDE DEF flushes
      <4>3. crashed' = FALSE
        BY <1>1, <4>1
      <4> QED BY <4>2, <4>3
    <3> HIDE DEF r1
    <3>4. Base(r1) /\ r1.st = done.st /\ r1.at = done.at /\ r1.version = rd[s].version
      BY <1>2, <3>1, <3>3, Flushes DEF SameStory, SamePlace
    <3>5. Placed(r1)
      BY <3>1, <3>4 DEF Placed
    <3>6. Told(r1, wr[s], history[s])
      BY <1>1, <1>3, <1>4, <3>1, <3>4, ToldStill DEF Reading
    <3> QED BY <3>3, <3>4, <3>5, <3>6 DEF Base, Sound
  <2>4. CASE Doomed(r, done) /\ r.idx > 0
    <3>1. done.idx > Len(done.buf)
      <4>1. Len(<<>>) = 0
        OBVIOUS
      <4> QED BY <2>4, <4>1 DEF Doomed
    <3>2. r1 = done /\ crashed' = TRUE
      BY <1>1, <2>4, <3>1 DEF FlushCrashes, Doomed
    <3> HIDE DEF r1
    <3>3. Placed(r1)
      BY <2>4, <3>2 DEF Placed, Doomed
    <3>4. r1.version = rd[s].version /\ r1.st = "body" /\ r1.at = "body"
      BY <1>2, <2>4, <3>2 DEF Doomed, SameStory
    <3>5. Told(r1, wr[s], history[s])
      BY <1>1, <1>3, <1>4, <3>4, ToldStill DEF Reading
    <3> QED BY <2>4, <3>2, <3>3, <3>5 DEF Doomed, Sound
  <2> QED BY <1>6, <2>1, <2>2, <2>3, <2>4
<1> HIDE DEF r1
<1> QED BY <1>1, <1>7, <1>8, ParserMoves

\* Body: nothing is missing, as there is nothing to wait for.
LEMMA BodyStep ==
  ASSUME IInv, NEW s \in Sessions, Body(s)
  PROVE  IInv'
<1> DEFINE k == socket[s]  r == rd[s]  w == wr[s]  n == net[s]  h == history[s]
           r1 == [r EXCEPT !.at = "out", !.st = "responding"]
<1>1. SessionOK(k, r, w, n, h, crashed, up) /\ rd = [x \in Sessions |-> rd[x]]
      /\ wr = [x \in Sessions |-> wr[x]] /\ socket = [x \in Sessions |-> socket[x]]
  BY SessionPart
<1>2. r.at = "body" /\ ~crashed
  BY DEF Body
<1>3. Base(r) /\ Placed(r) /\ Told(r, w, h) /\ crashed = FALSE
  BY <1>2, AtWork
<1>4. r.st = "body" /\ r.index = r.len
  BY <1>2, <1>3 DEF Placed, Base, Sound
<1>0. PICK answer \in Answers : wr' = [wr EXCEPT ![s].reply = answer]
  BY <1>4 DEF Body
<1> DEFINE w1 == [w EXCEPT !.reply = answer]
<1>5. rd' = [rd EXCEPT ![s] = r1] /\ wr' = [wr EXCEPT ![s] = w1]
      /\ socket' = [socket EXCEPT ![s] = k]
  BY <1>0, <1>4 DEF Body
<1>6. UNCHANGED <<up, pending, accepting, net, crashed, history>>
  BY DEF Body
<1>7. Puts(rd, rd', s, r1) /\ Puts(wr, wr', s, w1) /\ Puts(socket, socket', s, k)
  BY <1>1, <1>5, PutOne
<1>8. Puts(net, net', s, n) /\ Puts(history, history', s, h)
  BY <1>6, SessionPart, PutNone
<1>9. w \in Writers /\ Shaped(r)
  BY <1>1 DEF SessionOK
<1>10. k \in {"open", "closed"}
  BY <1>1, <1>2 DEF SessionOK, Unused, FreshReader
<1>11. answer \in Replies
  BY DEF Answers, Reply, Replies
<1>12. /\ w1 \in Writers /\ w1.reply = answer /\ w1.queue = w.queue /\ w1.active = w.active
       /\ w1.complete = w.complete /\ w1.closing = w.closing
  BY <1>9, <1>11 DEF Writers
<1>13. r1 = [r EXCEPT !.at = "out", !.st = "responding"]
  OBVIOUS
<1>14. w.reply = <<>> /\ (~h.failed => h.added = Hundred(r) /\ ~w.complete)
  BY <1>2, <1>3, <1>4 DEF Told
<1> HIDE DEF k, r, w, n, h, r1, w1
<1>15. Shaped(r1) /\ r1.at = "out" /\ r1.st = "responding" /\ r1.version = r.version
  BY <1>9, <1>13 DEF Shaped
<1>16. r1.buf = r.buf /\ r1.idx = r.idx /\ r1.len = r.len /\ r1.index = r.index
  BY <1>9, <1>13 DEF Shaped
<1>17. Fielded(r1) /\ Placed(r1) /\ Sound(r1, FALSE)
  BY <1>3, <1>15, <1>16 DEF Base, Fielded, Placed, Sound
<1>18. Told(r1, w1, h)
  BY <1>12, <1>14, <1>15 DEF Told, Hundred
<1>19. Asked(r1, n)
  BY <1>1, <1>2 DEF SessionOK, Asked
<1>20. Ended(k, w1, h) /\ Listed(w1, n, h)
  BY <1>1, <1>12 DEF SessionOK, Ended, Listed
<1>21. SessionOK(k, r1, w1, n, h, FALSE, up)
  BY <1>1, <1>10, <1>12, <1>15, <1>17, <1>18, <1>19, <1>20 DEF SessionOK, Unused
<1> QED BY <1>3, <1>6, <1>7, <1>8, <1>21, SessionMoves DEF k

\* AddPiece.
LEMMA AddPieceStep ==
  ASSUME IInv, NEW s \in Sessions, AddPiece(s)
  PROVE  IInv'
<1> DEFINE k == socket[s]  r == rd[s]  w == wr[s]  n == net[s]  h == history[s]
           w1 == wr'[s]  n1 == net'[s]  h1 == history'[s]
           piece == r.piece
           at == IF AddThrows(s) THEN "dead" ELSE r.then
           r1 == [r EXCEPT !.at = at]
<1>1. SessionOK(k, r, w, n, h, crashed, up) /\ rd = [x \in Sessions |-> rd[x]]
  BY SessionPart
<1>2. r.at = "add" /\ ~crashed
  BY DEF AddPiece
<1>3. Base(r) /\ Placed(r) /\ Told(r, w, h) /\ crashed = FALSE
  BY <1>2, AtWork
<1>4. \/ (piece = "100" /\ r.then = "headers" /\ r.st = "headers" /\ r.version = "HTTP/1.1")
      \/ (piece \in Failures /\ r.then = "again")
  BY <1>2, <1>3 DEF Placed
<1>5. piece \in Pieces /\ piece \notin Given /\ (piece = "100" => piece \notin Final)
  BY <1>4, KindsOfPieces
<1>6. Added(s, piece, w1, n1, h1)
  BY <1>5, Adding DEF AddPiece
<1>7. UNCHANGED <<up, pending, accepting, socket, crashed>>
      /\ rd' = [rd EXCEPT ![s] = r1]
  BY DEF AddPiece
<1>8. Puts(socket, socket', s, k) /\ Puts(rd, rd', s, r1)
  BY <1>1, <1>7, SessionPart, PutNone, PutOne
<1>9. /\ k \in {"open", "closed"}
      /\ ~h.failed => ~w.complete /\ ~w.closing /\ (k = "closed" => h.broken)
  BY <1>1, <1>2, <1>3, StillTalking
<1>10. AddThrows(s) => k # "open" \/ up # "up"
  BY DEF AddThrows, Usable
<1>11. at \in {"dead", "headers", "again"}
  BY <1>4
<1>12. h.added \in Seq(Pieces) /\ h.failed \in BOOLEAN
  BY <1>1 DEF SessionOK, Histories
<1>13. at \in {"dead", r.then}
  OBVIOUS
<1>14. Goes(r, r1, at)
  BY <1>3, <1>11, GoesTo
<1>15. r.st \in Reading
  BY <1>2, <1>3 DEF Placed
<1> HIDE DEF k, r, w, n, h, w1, n1, h1, at, r1
<1>16. Base(r1) /\ r1.st = r.st /\ r1.version = r.version /\ r1.at = at
  BY <1>14 DEF Goes, SameStory
<1>17. /\ h1.failed = (h.failed \/ piece \in Failures) /\ w1.reply = w.reply
       /\ w1.complete = (piece \in Final)
       /\ w1.closing = w.closing /\ h1.broken = h.broken
       /\ h1.dead = (h.dead \/ AddThrows(s)) /\ h1.added = Append(h.added, piece)
       /\ n1.asked = n.asked
  BY <1>5, <1>6 DEF Added, w, h, n
<1>18. Placed(r1)
  BY <1>4, <1>11, <1>13, <1>15, <1>16 DEF Placed
<1>19. ~h1.failed => /\ ~h.failed /\ piece = "100" /\ r.st = "headers"
                     /\ r.version = "HTTP/1.1" /\ ~w1.complete
  <2>1. ASSUME ~h1.failed PROVE ~h.failed /\ piece \notin Failures
    BY <1>17, <2>1
  <2>2. ASSUME piece = "100" PROVE ~w1.complete
    BY <1>5, <1>17, <2>2
  <2> QED BY <1>4, <2>1, <2>2
<1>20. Told(r1, w1, h1)
  <2>1. ~h1.failed => h.added = <<>>
    BY <1>2, <1>3, <1>19 DEF Told
  <2>2. ~h1.failed => h1.added = <<"100">>
    <3>1. Append(<<>>, "100") = <<"100">>
      OBVIOUS
    <3> QED BY <1>17, <1>19, <2>1, <3>1
  <2>3. r1.st \in Reading /\ r1.at # "add" /\ w1.reply = <<>>
    BY <1>3, <1>11, <1>15, <1>16, <1>17 DEF Told, Reading
  <2>4. ~h1.failed => Hundred(r1) = <<"100">>
    BY <1>16, <1>19 DEF Hundred
  <2> QED BY <1>16, <1>19, <2>2, <2>3, <2>4 DEF Told, Reading
<1>21. Asked(r1, n1)
  BY <1>1, <1>2, <1>17 DEF SessionOK, Asked
<1>22. Ended(k, w1, h1)
  BY <1>9, <1>17, <1>19 DEF Ended
<1>23. Survived(h1, up)
  BY <1>1, <1>9, <1>10, <1>17, <1>19 DEF SessionOK, Survived
<1>24. SessionOK(k, r1, w1, n1, h1, FALSE, up)
  BY <1>1, <1>6, <1>9, <1>16, <1>18, <1>20, <1>21, <1>22, <1>23
     DEF SessionOK, Unused, Added, Base
<1> QED BY <1>3, <1>6, <1>7, <1>8, <1>24, SessionMoves DEF Added, k

\* ReadAgain.
LEMMA ReadAgainStep ==
  ASSUME IInv, NEW s \in Sessions, ReadAgain(s)
  PROVE  IInv'
<1> DEFINE k == socket[s]  r == rd[s]  w == wr[s]  n == net[s]  h == history[s]
           at == IF Usable(s) THEN "out" ELSE "dead"
           r1 == [r EXCEPT !.at = at]
           n1 == IF Usable(s) THEN [n EXCEPT !.asked = MaxLine - Len(r.buf)] ELSE n
           h1 == IF Usable(s) THEN h ELSE [h EXCEPT !.dead = TRUE]
<1>1. SessionOK(k, r, w, n, h, crashed, up) /\ rd = [x \in Sessions |-> rd[x]]
      /\ net = [x \in Sessions |-> net[x]] /\ history = [x \in Sessions |-> history[x]]
  BY SessionPart
<1>2. r.at = "again" /\ ~crashed
  BY DEF ReadAgain
<1>3. Base(r) /\ Placed(r) /\ Told(r, w, h) /\ crashed = FALSE
  BY <1>2, AtWork
<1>4. r.st \in Reading
  BY <1>2, <1>3 DEF Placed
<1>5. UNCHANGED <<up, pending, accepting, socket, wr, crashed>>
      /\ rd' = [rd EXCEPT ![s] = r1]
  BY DEF ReadAgain
<1>6. Puts(net, net', s, n1)
  <2>1. CASE Usable(s)
    <3>1. net' = [net EXCEPT ![s] = n1]
      BY <2>1 DEF ReadAgain, Ask
    <3> QED BY <1>1, <3>1, PutOne
  <2>2. CASE ~Usable(s)
    <3>1. net' = net /\ n1 = n
      BY <2>2 DEF ReadAgain
    <3> QED BY <1>1, <3>1, PutNone
  <2> QED BY <2>1, <2>2
<1>7. Puts(history, history', s, h1)
  <2>1. CASE Usable(s)
    <3>1. history' = history /\ h1 = h
      BY <2>1 DEF ReadAgain
    <3> HIDE DEF h1
    <3> QED BY <1>1, <3>1, PutNone
  <2>2. CASE ~Usable(s)
    <3>1. history' = [history EXCEPT ![s] = h1]
      BY <2>2 DEF ReadAgain, Note
    <3> QED BY <1>1, <3>1, PutOne
  <2> QED BY <2>1, <2>2
<1>8. Puts(rd, rd', s, r1)
  BY <1>1, <1>5, PutOne
<1>9. Puts(socket, socket', s, k) /\ Puts(wr, wr', s, w)
  BY <1>5, SessionPart, PutNone
<1>10. /\ k \in {"open", "closed"}
       /\ ~h.failed => ~w.complete /\ ~w.closing /\ (k = "closed" => h.broken)
  BY <1>1, <1>2, <1>3, StillTalking
<1>11. n \in Nets /\ h \in Histories /\ Listed(w, n, h)
  BY <1>1 DEF SessionOK
<1>12. r.buf \in Seq(STRING) /\ Len(r.buf) \in Nat /\ Len(r.buf) <= MaxLine
  BY <1>3 DEF Base, Fielded
<1>13. MaxLine \in Nat
  BY HttpAssumption
<1>14. n1 \in Nets /\ n1.writing = n.writing
       /\ (at = "out" => Len(r.buf) + n1.asked = MaxLine) /\ (at = "dead" => n1.asked = n.asked)
  BY <1>11, <1>12, <1>13 DEF Nets
<1>15. /\ h1 \in Histories /\ h1.added = h.added /\ h1.wire = h.wire
       /\ h1.failed = h.failed /\ h1.broken = h.broken
       /\ (at = "out" => h1.dead = h.dead)
  BY <1>11 DEF Histories
<1>16. Goes(r, r1, at) /\ at \in {"out", "dead"}
  BY <1>3, GoesTo
<1>17. at = "dead" => k # "open" \/ up # "up"
  BY DEF Usable
<1>18. r1 = [r EXCEPT !.at = at] /\ Shaped(r)
  BY <1>3 DEF Base
<1> HIDE DEF k, r, w, n, h, at, r1, n1, h1
<1>19. Base(r1) /\ r1.st = r.st /\ r1.version = r.version /\ r1.at = at
  BY <1>16 DEF Goes, SameStory
<1>20. r1.buf = r.buf
  BY <1>18 DEF Shaped
<1>21. Placed(r1)
  BY <1>4, <1>16, <1>19 DEF Placed
<1>22. Told(r1, w, h1)
  <2>1. Told(r1, w, h)
    BY <1>2, <1>3, <1>4, <1>16, <1>19, ToldStill
  <2> QED BY <1>15, <2>1 DEF Told
<1>23. Asked(r1, n1)
  <2>1. CASE at = "out"
    BY <1>4, <1>14, <1>19, <1>20, <2>1 DEF Asked
  <2>2. CASE at = "dead"
    BY <1>1, <1>2, <1>14, <2>2 DEF SessionOK, Asked
  <2> QED BY <1>16, <2>1, <2>2
<1>24. Listed(w, n1, h1)
  BY <1>11, <1>14, <1>15 DEF Listed
<1>25. Ended(k, w, h1)
  BY <1>1, <1>15 DEF SessionOK, Ended
<1>26. Survived(h1, up)
  BY <1>1, <1>10, <1>15, <1>16, <1>17 DEF SessionOK, Survived
<1>27. SessionOK(k, r1, w, n1, h1, FALSE, up)
  BY <1>1, <1>10, <1>14, <1>15, <1>19, <1>21, <1>22, <1>23, <1>24, <1>25, <1>26
     DEF SessionOK, Unused, Base
<1> QED BY <1>3, <1>5, <1>6, <1>7, <1>8, <1>9, <1>27, SessionMoves DEF k

\* What comes goes behind what is there.
LEMMA Receives ==
  ASSUME NEW r, Base(r), NEW in \in Seq(STRING), NEW m, m \in 1 .. Len(in),
         Len(r.buf) + m <= MaxLine, r.st \in Reading
  PROVE  LET r1 == [r EXCEPT !.buf = @ \o SubSeq(in, 1, m), !.at = r.st] IN
         Base(r1) /\ SameStory(r, r1) /\ r1.at = r.st
<1> DEFINE r1 == [r EXCEPT !.buf = @ \o SubSeq(in, 1, m), !.at = r.st]
           new == SubSeq(in, 1, m)
<1>1. r1 = [r EXCEPT !.buf = r.buf \o new, !.at = r.st] /\ Shaped(r)
  BY DEF Base
<1>2. new \in Seq(STRING) /\ Len(new) = m /\ m \in Nat
  <2>1. \A i \in 1 .. m : in[i] \in STRING
    OBVIOUS
  <2>2. /\ SubSeq(in, 1, m) \in Seq(STRING)
        /\ Len(SubSeq(in, 1, m)) = IF 1 <= m THEN m - 1 + 1 ELSE 0
    BY <2>1, SubSeqProperties
  <2> QED BY <2>2
<1> HIDE DEF new, r1
<1>3. Shaped(r1) /\ r1.at = r.st /\ r1.buf = r.buf \o new
  BY <1>1 DEF Shaped
<1>4. r1.st = r.st /\ r1.version = r.version /\ r1.idx = r.idx
  BY <1>1 DEF Shaped
<1>5. r1.len = r.len /\ r1.index = r.index
  BY <1>1 DEF Shaped
<1>6. r.buf \in Seq(STRING) /\ r.idx \in Nat /\ r.idx <= Len(r.buf)
  BY DEF Base, Fielded, Sound
<1>7. r1.buf \in Seq(STRING) /\ Len(r1.buf) = Len(r.buf) + m
  BY <1>2, <1>3, <1>6, ConcatProperties
<1>8. r1.idx \in Nat /\ r1.idx <= Len(r1.buf) /\ Len(r1.buf) <= MaxLine
  BY <1>2, <1>4, <1>6, <1>7
<1>9. Base(r1)
  BY <1>3, <1>4, <1>5, <1>7, <1>8 DEF Base, Fielded, Sound, Reading
<1> QED BY <1>3, <1>4, <1>9 DEF SameStory, r1

\* A read came to its end; the parser may have got something from it.
LEMMA ReadEnds ==
  ASSUME IInv, NEW s \in Sessions, NEW r1, NEW n1, ~crashed,
         Puts(rd, rd', s, r1), Puts(net, net', s, n1),
         net[s].asked >= 0, n1 \in Nets, n1.asked < 0, n1.writing = net[s].writing,
         Base(r1), SameStory(rd[s], r1), r1.at \in {"out", rd[s].st},
         UNCHANGED <<up, pending, accepting, socket, wr, crashed, history>>
  PROVE  IInv'
<1> DEFINE k == socket[s]  r == rd[s]  w == wr[s]  n == net[s]  h == history[s]
<1>1. SessionOK(k, r, w, n, h, crashed, up)
  BY SessionPart
<1>2. Told(r, w, h) /\ crashed = FALSE
  BY AtWork
<1>3. Puts(socket, socket', s, k) /\ Puts(wr, wr', s, w) /\ Puts(history, history', s, h)
  BY SessionPart, PutNone
<1>4. r.at = "out" /\ r.st \in Reading
  BY <1>1 DEF SessionOK, Asked
<1>5. k \in {"open", "closed"}
  BY <1>1 DEF SessionOK, Unused, FreshNet
<1>6. r1.st = r.st /\ r1.version = r.version
  BY DEF SameStory
<1>7. n1.asked < 0 /\ n1.asked \in Int /\ n1.writing = n.writing
  BY DEF Nets
<1> HIDE DEF k, r, w, n, h
<1>8. Told(r1, w, h) /\ Placed(r1)
  <2>1. r1.at \in {"out", "firstLine", "headers"} /\ r1.at # "add"
    BY <1>4 DEF Reading, r
  <2>2. Told(r1, w, h)
    BY <1>2, <1>4, <1>6, <2>1, ToldStill
  <2>3. Placed(r1)
    BY <1>4, <1>6, <2>1 DEF Placed, r
  <2> QED BY <2>2, <2>3
<1>9. Asked(r1, n1)
  BY <1>7 DEF Asked
<1>10. Listed(w, n1, h)
  BY <1>1, <1>7 DEF SessionOK, Listed
<1>11. SessionOK(k, r1, w, n1, h, FALSE, up)
  BY <1>1, <1>2, <1>5, <1>8, <1>9, <1>10 DEF SessionOK, Unused, Base
<1> QED BY <1>2, <1>3, <1>11, SessionMoves DEF k

\* What a session has of the network is that.
LEMMA NetTyped ==
  ASSUME NEW in \in Seq(STRING), NEW asked \in Int, NEW writing \in BOOLEAN
  PROVE  [in |-> in, asked |-> asked, writing |-> writing] \in Nets
BY DEF Nets

\* readCallback.
LEMMA ReadStep ==
  ASSUME IInv, NEW s \in Sessions, readCallback(s)
  PROVE  IInv'
<1> DEFINE r == rd[s]  n == net[s]  in == net[s].in
<1>1. PICK m \in 1 .. Min({n.asked, Len(in)}) :
        /\ rd' = [rd EXCEPT ![s].buf = @ \o SubSeq(net[s].in, 1, m), ![s].at = rd[s].st]
        /\ net' = [net EXCEPT ![s].in = SubSeq(@, m + 1, Len(@)), ![s].asked = -1]
  BY DEF readCallback
<1> DEFINE r1 == [r EXCEPT !.buf = @ \o SubSeq(in, 1, m), !.at = r.st]
           n1 == [n EXCEPT !.in = SubSeq(in, m + 1, Len(in)), !.asked = -1]
<1>2. SessionOK(socket[s], r, wr[s], n, history[s], crashed, up)
      /\ rd = [x \in Sessions |-> rd[x]] /\ net = [x \in Sessions |-> net[x]]
  BY SessionPart
<1>3. ~crashed /\ UNCHANGED <<up, pending, accepting, socket, wr, crashed, history>>
  BY DEF readCallback, Running
<1>4. n \in Nets /\ in \in Seq(STRING) /\ n.asked \in Int /\ Len(in) \in Nat
  BY <1>2 DEF SessionOK, Nets
<1>5. m \in 1 .. Len(in) /\ m <= n.asked /\ n.asked >= 0
  <2> DEFINE a == n.asked  b == Len(in)
  <2>0. a \in Int /\ b \in Int
    BY <1>4
  <2> HIDE DEF a, b
  <2>1. Min({a, b}) \in {a, b} /\ Min({a, b}) <= a /\ Min({a, b}) <= b
    BY <2>0, LeastOfTwo
  <2> USE DEF a, b
  <2> QED BY <1>4, <2>1
<1>6. r.st \in Reading /\ Len(r.buf) + n.asked = MaxLine
  BY <1>2, <1>5 DEF SessionOK, Asked
<1>7. Base(r)
  BY <1>3, AtWork
<1>8. Len(r.buf) \in Nat /\ MaxLine \in Nat
  BY <1>7, HttpAssumption DEF Base, Fielded
<1>9. Len(r.buf) + m <= MaxLine
  BY <1>4, <1>5, <1>6, <1>8
<1>10. rd' = [rd EXCEPT ![s] = r1] /\ net' = [net EXCEPT ![s] = n1]
  BY <1>1
<1>11. Puts(rd, rd', s, r1) /\ Puts(net, net', s, n1)
  BY <1>2, <1>10, PutOne
<1>12. n1 \in Nets /\ n1.asked < 0 /\ n1.writing = n.writing
  <2>1. SubSeq(in, m + 1, Len(in)) \in Seq(STRING)
    <3>1. \A i \in m + 1 .. Len(in) : in[i] \in STRING
      BY <1>4, <1>5
    <3> QED BY <1>4, <1>5, <3>1, SubSeqProperties
  <2> DEFINE rest == SubSeq(in, m + 1, Len(in))
  <2>2. n1 = [n EXCEPT !.in = rest, !.asked = -1]
    OBVIOUS
  <2>7. rest \in Seq(STRING)
    BY <2>1
  <2>3. n \in Nets
    BY <1>4
  <2> HIDE DEF rest, n1, n, in
  <2>6. n1 = [in |-> rest, asked |-> -1, writing |-> n.writing]
    BY <2>2, <2>3 DEF Nets
  <2>4. n1 \in Nets
    <3>1. -1 \in Int /\ n.writing \in BOOLEAN
      BY <2>3 DEF Nets
    <3>2. [in |-> rest, asked |-> -1, writing |-> n.writing] \in Nets
      BY <2>7, <3>1, NetTyped
    <3> QED BY <2>6, <3>2
  <2>5. n1.asked = -1 /\ n1.writing = n.writing
    BY <2>2, <2>3 DEF Nets
  <2> QED BY <2>4, <2>5
<1> HIDE DEF r1, n1
<1>13. Base(r1) /\ SameStory(r, r1) /\ r1.at = r.st
  BY <1>4, <1>5, <1>6, <1>7, <1>9, Receives DEF r1
<1> QED BY <1>3, <1>5, <1>11, <1>12, <1>13, ReadEnds

\* ReadNothing.
LEMMA ReadNothingStep ==
  ASSUME IInv, NEW s \in Sessions, ReadNothing(s)
  PROVE  IInv'
<1> DEFINE r == rd[s]  n == net[s]
           n1 == [n EXCEPT !.asked = -1]
<1>1. SessionOK(socket[s], r, wr[s], n, history[s], crashed, up)
      /\ rd = [x \in Sessions |-> rd[x]] /\ net = [x \in Sessions |-> net[x]]
  BY SessionPart
<1>2. ~crashed /\ UNCHANGED <<up, pending, accepting, socket, rd, wr, crashed, history>>
      /\ net' = [net EXCEPT ![s] = n1]
  BY DEF ReadNothing, Running
<1>3. n \in Nets /\ n.asked >= 0
  BY <1>1 DEF SessionOK, Nets, ReadNothing
<1>4. n1 \in Nets /\ n1.asked < 0 /\ n1.writing = n.writing
  BY <1>3 DEF Nets
<1>5. Puts(rd, rd', s, r) /\ Puts(net, net', s, n1)
  BY <1>1, <1>2, PutOne, PutNone
<1>6. Base(r) /\ SameStory(r, r) /\ r.at = "out"
  BY <1>1, <1>2, <1>3, AtWork DEF SessionOK, Asked, SameStory
<1> HIDE DEF n1
<1> QED BY <1>2, <1>3, <1>4, <1>5, <1>6, ReadEnds

-----------------------------------------------------------------------------
(* Connecting, and the service.                                             *)

\* Nothing was read or written yet.
AsMade(k, n, h) ==
  /\ k \in {"none", "open"}
  /\ n \in Nets /\ n.writing = FALSE /\ (n.asked < 0 \/ n.asked = MaxLine)
  /\ h \in Histories /\ h.added = <<>> /\ h.wire = <<>> /\ ~h.dead /\ ~h.failed
  /\ k # "open" => n = FreshNet /\ h = FreshHistory

\* A session as it was made is sound, at any socket.
LEMMA FreshOK ==
  ASSUME NEW k, NEW n, NEW h, NEW gone \in BOOLEAN, NEW u, AsMade(k, n, h)
  PROVE  SessionOK(k, FreshReader, FreshWriter, n, h, gone, u)
<1> USE DEF AsMade
<1> DEFINE r == FreshReader  w == FreshWriter
<1>1. <<>> \in Seq(STRING) /\ <<>> \in Seq(Pieces) /\ Len(<<>>) = 0 /\ <<>> \o <<>> = <<>>
  <2>1. \A S : <<>> \in Seq(S) /\ <<>> \o <<>> = <<>>
    BY EmptySeq, ConcatEmptySeq
  <2> QED BY <2>1
<1>2. /\ r.at = "out" /\ r.st = "firstLine" /\ r.buf = <<>> /\ r.idx = 0
      /\ r.len = 0 /\ r.index = 0 /\ Shaped(r)
  BY DEF FreshReader, Shaped
<1>3. w \in Writers
  BY <1>1 DEF FreshWriter, Writers, Replies
<1>4. w.queue = <<>> /\ w.active = FALSE /\ w.complete = FALSE /\ w.closing = FALSE
      /\ w.reply = <<>>
  BY DEF FreshWriter
<1>5. Unused(k, r, w, n, h)
  BY DEF Unused
<1> HIDE DEF r, w
<1>6. Fielded(r) /\ Placed(r) /\ Sound(r, gone)
  BY <1>1, <1>2, HttpAssumption DEF Fielded, Placed, Sound
<1>7. Asked(r, n)
  <2>1. n.asked \in Int /\ MaxLine \in Nat
    BY HttpAssumption DEF Nets
  <2>2. ASSUME n.asked >= 0 PROVE Len(r.buf) + n.asked = MaxLine
    BY <1>1, <1>2, <2>1, <2>2
  <2> QED BY <1>2, <2>2 DEF Asked, Reading
<1>8. Listed(w, n, h)
  BY <1>1, <1>4 DEF Listed
<1>9. Told(r, w, h)
  BY <1>2, <1>4 DEF Told
<1>10. Ended(k, w, h)
  BY <1>4 DEF Ended
<1>11. Survived(h, u)
  BY DEF Survived
<1>12. SessionOK(k, r, w, n, h, gone, u)
  BY <1>2, <1>3, <1>5, <1>6, <1>7, <1>8, <1>9, <1>10, <1>11 DEF SessionOK
<1> QED BY <1>12 DEF r, w

\* The net and the history of a session as it was made.
LEMMA FreshTyped ==
  /\ FreshNet \in Nets /\ FreshNet.writing = FALSE /\ FreshNet.asked < 0
  /\ FreshHistory \in Histories /\ FreshHistory.added = <<>> /\ FreshHistory.wire = <<>>
  /\ ~FreshHistory.dead /\ ~FreshHistory.failed
<1>1. <<>> \in Seq(STRING) /\ <<>> \in Seq(Pieces)
  <2>1. \A S : <<>> \in Seq(S)
    BY EmptySeq
  <2> QED BY <2>1
<1>2. FreshNet \in Nets
  BY <1>1 DEF FreshNet, Nets
<1>3. FreshHistory \in Histories
  BY <1>1 DEF FreshHistory, Histories
<1>4. FreshNet.writing = FALSE /\ FreshNet.asked < 0
  BY DEF FreshNet
<1>5. /\ FreshHistory.added = <<>> /\ FreshHistory.wire = <<>>
      /\ ~FreshHistory.dead /\ ~FreshHistory.failed
  BY DEF FreshHistory
<1> QED BY <1>2, <1>3, <1>4, <1>5

\* The first state.
LEMMA InitIInv == Init => IInv
<1> SUFFICES ASSUME Init PROVE IInv
  OBVIOUS
<1>1. /\ socket = [s \in Sessions |-> "none"] /\ rd = [s \in Sessions |-> FreshReader]
      /\ wr = [s \in Sessions |-> FreshWriter] /\ net = [s \in Sessions |-> FreshNet]
      /\ history = [s \in Sessions |-> FreshHistory] /\ crashed = FALSE /\ up = "none"
  BY DEF Init
<1>2. /\ socket = [s \in Sessions |-> socket[s]] /\ rd = [s \in Sessions |-> rd[s]]
      /\ wr = [s \in Sessions |-> wr[s]] /\ net = [s \in Sessions |-> net[s]]
      /\ history = [s \in Sessions |-> history[s]]
  BY <1>1
<1>3. Accepting
  BY DEF Init, Accepting
<1>4. SessionOK("none", FreshReader, FreshWriter, FreshNet, FreshHistory, FALSE, "none")
  <2>1. AsMade("none", FreshNet, FreshHistory)
    BY FreshTyped DEF AsMade
  <2> QED BY <2>1, FreshOK
<1>5. \A s \in Sessions :
        SessionOK(socket[s], rd[s], wr[s], net[s], history[s], crashed, up)
  BY <1>1, <1>4
<1> QED BY <1>1, <1>2, <1>3, <1>5 DEF IInv

\* A session that is not connected has nothing that depends on its socket.
LEMMA NotConnected ==
  ASSUME NEW k, NEW k1, NEW r, NEW w, NEW n, NEW h, NEW gone \in BOOLEAN, NEW u, NEW u1,
         SessionOK(k, r, w, n, h, gone, u), k \notin {"open", "closed"},
         k1 \in {"none", "made", "accepting", "connected", "deleted"}, k1 = "deleted" => u1 = "over"
  PROVE  SessionOK(k1, r, w, n, h, gone, u1)
<1>1. w = FreshWriter /\ h = FreshHistory
  BY DEF SessionOK, Unused
<1>2. w.closing = FALSE /\ h.dead = FALSE
  BY <1>1 DEF FreshWriter, FreshHistory
<1>3. Ended(k1, w, h)
  BY <1>2 DEF Ended
<1>4. Survived(h, u1)
  BY <1>2 DEF Survived
<1>5. Unused(k1, r, w, n, h)
  BY DEF SessionOK, Unused
<1> QED BY <1>3, <1>4, <1>5 DEF SessionOK

\* One that is asks nothing of the service but that it is not over too soon.
LEMMA ServiceEnds ==
  ASSUME NEW k, NEW r, NEW w, NEW n, NEW h, NEW gone \in BOOLEAN, NEW u, NEW u1,
         SessionOK(k, r, w, n, h, gone, u), u1 # "up", k = "deleted" => u1 = "over"
  PROVE  SessionOK(k, r, w, n, h, gone, u1)
BY DEF SessionOK, Survived

\* What waits is not connected, once no accept callback runs.
LEMMA WaitingAreFresh ==
  ASSUME IInv, NEW f \in Families, up \in {"up", "stopping", "down"}
  PROVE  /\ IsInjective(pending) /\ pending[f] \in Sessions
         /\ Stage(accepting[f], socket[pending[f]])
         /\ accepting[f] # "read" => socket[pending[f]] \notin {"open", "closed"}
         /\ accepting[f] \in {"no", "asked", "connected", "read", "made", "dead"}
<1>1. Waiting /\ accepting[f] \in {"no", "asked", "connected", "read", "made", "dead"}
  BY DEF IInv, Accepting
<1>2. pending[f] \in Sessions /\ Stage(accepting[f], socket[pending[f]]) /\ IsInjective(pending)
  BY <1>1 DEF Waiting
<1> QED BY <1>1, <1>2 DEF Stage

\* startServing.
LEMMA StartStep ==
  ASSUME IInv, startServing
  PROVE  IInv'
<1>1. up = "none" /\ up' = "up" /\ UNCHANGED <<net, rd, wr, crashed, history>>
      /\ accepting' = [f \in Families |-> "made"]
  BY DEF startServing
<1>2. PICK new \in [Families -> Sessions] :
        /\ IsInjective(new) /\ pending' = new
        /\ socket' = [s \in Sessions |-> IF s \in Range(new) THEN "made" ELSE socket[s]]
  BY DEF startServing
<1>3. \A s \in Sessions : socket[s] = "none"
  BY <1>1 DEF IInv, Accepting
<1>4. ASSUME NEW s \in Sessions
      PROVE  SessionOK(socket'[s], rd'[s], wr'[s], net'[s], history'[s], crashed', up')
  <2>1. SessionOK(socket[s], rd[s], wr[s], net[s], history[s], crashed, up)
        /\ crashed \in BOOLEAN
    BY SessionPart
  <2>2. socket[s] = "none" /\ socket'[s] \in {"none", "made"}
    BY <1>2, <1>3
  <2> QED BY <1>1, <2>1, <2>2, NotConnected
<1>5. Accepting'
  <2>1. \A f \in Families : new[f] \in Sessions /\ new[f] \in Range(new)
    BY DEF Range
  <2>2. \A f \in Families : pending'[f] \in Sessions /\ socket'[pending'[f]] = "made"
    BY <1>2, <2>1
  <2>3. pending' \in [Families -> Sessions \union {None}]
    BY <1>2
  <2>4. IsInjective(pending)'
    BY <1>2 DEF IsInjective
  <2>5. \A f \in Families : accepting'[f] = "made"
    BY <1>1
  <2>6. Waiting'
    BY <2>2, <2>4, <2>5 DEF Waiting, Stage
  <2> QED BY <1>1, <2>3, <2>5, <2>6 DEF Accepting
<1>6. socket' = [s \in Sessions |-> socket'[s]]
  BY <1>2
<1> QED BY <1>1, <1>4, <1>5, <1>6 DEF IInv

\* The service goes on to its end; nothing else happens.
LEMMA ServiceStep ==
  ASSUME IInv, up' \in {"stopping", "down"}, up \in {"up", "stopping"},
         \A f \in Families : accepting[f] \in {"connected", "read", "made"} => up' = "stopping",
         UNCHANGED <<pending, accepting, socket, net, rd, wr, crashed, history>>
  PROVE  IInv'
<1>1. ASSUME NEW s \in Sessions
      PROVE  SessionOK(socket'[s], rd'[s], wr'[s], net'[s], history'[s], crashed', up')
  <2>1. SessionOK(socket[s], rd[s], wr[s], net[s], history[s], crashed, up)
        /\ crashed \in BOOLEAN
    BY SessionPart
  <2>2. socket[s] # "deleted"
    BY <2>1 DEF SessionOK
  <2>3. SessionOK(socket[s], rd[s], wr[s], net[s], history[s], crashed, up')
    BY <2>1, <2>2, ServiceEnds
  <2> QED BY <2>3
<1>2. IsInjective(pending)' = IsInjective(pending)
  BY DEF IsInjective
<1>3. Accepting'
  BY <1>2 DEF IInv, Accepting, Waiting
<1> QED BY <1>1, <1>3 DEF IInv

\* StopService.
LEMMA StopStep ==
  ASSUME IInv, StopService
  PROVE  IInv'
BY ServiceStep DEF StopService

\* Stopped.
LEMMA StoppedStep ==
  ASSUME IInv, Stopped
  PROVE  IInv'
BY ServiceStep DEF Stopped

\* shutdown.
LEMMA ShutdownStep ==
  ASSUME IInv, shutdown
  PROVE  IInv'
<1>1. /\ up = "down" /\ up' = "over"
      /\ socket' = [s \in Sessions |-> IF s \in Range(pending) THEN "deleted" ELSE socket[s]]
      /\ pending' = [f \in Families |-> None]
      /\ UNCHANGED <<accepting, net, rd, wr, crashed, history>>
  BY DEF shutdown
<1>2. \A f \in Families : accepting[f] \notin {"connected", "read", "made"}
  BY <1>1 DEF IInv, Accepting
<1>3. DOMAIN pending = Families
  BY DEF IInv, Accepting
<1>4. ASSUME NEW s \in Sessions
      PROVE  SessionOK(socket'[s], rd'[s], wr'[s], net'[s], history'[s], crashed', up')
  <2>1. SessionOK(socket[s], rd[s], wr[s], net[s], history[s], crashed, up)
        /\ crashed \in BOOLEAN
    BY SessionPart
  <2>2. CASE s \in Range(pending)
    <3>1. PICK f \in Families : pending[f] = s
      BY <1>3, <2>2 DEF Range
    <3>2. socket[s] \notin {"open", "closed"}
      BY <1>1, <1>2, <3>1, WaitingAreFresh
    <3>3. socket'[s] = "deleted"
      BY <1>1, <2>2
    <3> QED BY <1>1, <2>1, <3>2, <3>3, NotConnected
  <2>3. CASE s \notin Range(pending)
    <3>1. socket'[s] = socket[s]
      BY <1>1, <2>3
    <3>2. SessionOK(socket[s], rd[s], wr[s], net[s], history[s], crashed, "over")
      BY <2>1, ServiceEnds
    <3> QED BY <1>1, <3>1, <3>2
  <2> QED BY <2>2, <2>3
<1>5. Accepting'
  BY <1>1 DEF IInv, Accepting
<1>6. socket' = [s \in Sessions |-> socket'[s]]
  BY <1>1
<1> QED BY <1>1, <1>4, <1>5, <1>6 DEF IInv

\* A step of one listening socket and of the session that it has then.
Listens(f, q, k, n, h, a) ==
  /\ up \in {"up", "stopping"} /\ UNCHANGED <<up, rd, wr, crashed>>
  /\ Puts(socket, socket', q, k) /\ Puts(net, net', q, n) /\ Puts(history, history', q, h)
  /\ pending' = [pending EXCEPT ![f] = q] /\ accepting' = [accepting EXCEPT ![f] = a]
  /\ a \in {"no", "asked", "connected", "read", "made", "dead"} /\ Stage(a, k)
  /\ a = "dead" => up # "up"
  /\ \A g \in Families : g # f => pending[g] # q

\* It keeps the invariant if it keeps that session's part.
LEMMA ListenerMoves ==
  ASSUME IInv, NEW f \in Families, NEW q \in Sessions, NEW k, NEW n, NEW h, NEW a,
         Listens(f, q, k, n, h, a), SessionOK(k, rd[q], wr[q], n, h, crashed, up)
  PROVE  IInv'
<1> USE DEF Listens
<1>1. /\ socket' = [x \in Sessions |-> socket'[x]] /\ net' = [x \in Sessions |-> net'[x]]
      /\ history' = [x \in Sessions |-> history'[x]]
  BY Zenon DEF Puts
<1>2. /\ socket'[q] = k /\ net'[q] = n /\ history'[q] = h
      /\ \A x \in Sessions : x # q =>
           socket'[x] = socket[x] /\ net'[x] = net[x] /\ history'[x] = history[x]
  BY DEF Puts
<1>3. ASSUME NEW x \in Sessions
      PROVE  SessionOK(socket'[x], rd'[x], wr'[x], net'[x], history'[x], crashed', up')
  <2>1. SessionOK(socket[x], rd[x], wr[x], net[x], history[x], crashed, up)
    BY SessionPart
  <2> QED BY <1>2, <2>1
<1>4. /\ pending \in [Families -> Sessions \union {None}]
      /\ accepting \in [Families -> {"no", "asked", "connected", "read", "made", "dead"}]
      /\ Waiting
      /\ \A g \in Families :
           /\ accepting[g] \in {"connected", "read", "made"} => up \in {"up", "stopping"}
           /\ accepting[g] = "dead" => up # "up"
  BY DEF IInv, Accepting
<1>5. /\ \A g \in Families : pending'[g] = IF g = f THEN q ELSE pending[g]
      /\ \A g \in Families : accepting'[g] = IF g = f THEN a ELSE accepting[g]
      /\ pending' \in [Families -> Sessions \union {None}]
      /\ accepting' \in [Families -> {"no", "asked", "connected", "read", "made", "dead"}]
  BY <1>4
<1>6. IsInjective(pending)'
  <2>1. IsInjective(pending) /\ DOMAIN pending = Families /\ DOMAIN pending' = Families
    BY <1>4, <1>5 DEF Waiting
  <2> QED BY <1>5, <2>1 DEF IsInjective
<1>7. ASSUME NEW g \in Families
      PROVE  pending'[g] \in Sessions /\ Stage(accepting'[g], socket'[pending'[g]])
  <2>1. CASE g = f
    BY <1>2, <1>5, <2>1
  <2>2. CASE g # f
    <3>1. pending[g] \in Sessions /\ Stage(accepting[g], socket[pending[g]]) /\ pending[g] # q
      BY <1>4, <2>2 DEF Waiting
    <3> QED BY <1>2, <1>5, <2>2, <3>1
  <2> QED BY <2>1, <2>2
<1>8. Waiting'
  BY <1>6, <1>7 DEF Waiting
<1>9. Accepting'
  BY <1>4, <1>5, <1>8 DEF Accepting
<1> QED BY <1>1, <1>3, <1>9 DEF IInv

\* The session that a listening socket has, if it keeps it.
LEMMA KeepsSession ==
  ASSUME IInv, NEW f \in Families, up \in {"up", "stopping"}
  PROVE  /\ pending = [pending EXCEPT ![f] = pending[f]]
         /\ \A g \in Families : g # f => pending[g] # pending[f]
<1>1. Waiting /\ pending \in [Families -> Sessions \union {None}]
  BY DEF IInv, Accepting
<1> QED BY <1>1 DEF Waiting, IsInjective

\* acceptCallback.
LEMMA AcceptCallbackStep ==
  ASSUME IInv, NEW f \in Families, acceptCallback(f)
  PROVE  IInv'
<1> DEFINE q == pending[f]
<1>1. /\ up \in {"up", "stopping"} /\ accepting[f] = "asked"
      /\ UNCHANGED <<up, pending, net, rd, wr, crashed, history>>
      /\ \/ /\ accepting' = [accepting EXCEPT ![f] = "connected"]
            /\ socket' = [socket EXCEPT ![q] = "connected"]
         \/ accepting' = [accepting EXCEPT ![f] = "no"] /\ UNCHANGED socket
  BY DEF acceptCallback, Running
<1>2. q \in Sessions /\ socket[q] = "accepting"
  BY <1>1, WaitingAreFresh DEF Stage
<1>3. /\ pending' = [pending EXCEPT ![f] = q]
      /\ \A g \in Families : g # f => pending[g] # q
  BY <1>1, KeepsSession
<1> HIDE DEF q
<1>4. SessionOK(socket[q], rd[q], wr[q], net[q], history[q], crashed, up)
      /\ crashed \in BOOLEAN /\ socket = [x \in Sessions |-> socket[x]]
  BY <1>2, SessionPart
<1>5. Puts(net, net', q, net[q]) /\ Puts(history, history', q, history[q])
  BY <1>1, <1>2, SessionPart, PutNone
<1>6. CASE accepting' = [accepting EXCEPT ![f] = "connected"]
           /\ socket' = [socket EXCEPT ![q] = "connected"]
  <2>1. Puts(socket, socket', q, "connected")
    BY <1>2, <1>4, <1>6, PutOne
  <2>2. SessionOK("connected", rd[q], wr[q], net[q], history[q], crashed, up)
    BY <1>2, <1>4, NotConnected
  <2>3. Stage("connected", "connected")
    BY DEF Stage
  <2>4. Listens(f, q, "connected", net[q], history[q], "connected")
    BY <1>1, <1>2, <1>3, <1>5, <1>6, <2>1, <2>2, <2>3 DEF Listens
  <2> QED BY <1>2, <2>2, <2>4, ListenerMoves
<1>7. CASE accepting' = [accepting EXCEPT ![f] = "no"] /\ UNCHANGED socket
  <2>1. Puts(socket, socket', q, socket[q])
    BY <1>2, <1>4, <1>7, PutNone
  <2>2. Stage("no", socket[q])
    BY <1>2 DEF Stage
  <2>3. Listens(f, q, socket[q], net[q], history[q], "no")
    BY <1>1, <1>2, <1>3, <1>4, <1>5, <1>7, <2>1, <2>2 DEF Listens
  <2> QED BY <1>2, <1>4, <2>3, ListenerMoves
<1> QED BY <1>1, <1>6, <1>7

\* StartReading.
LEMMA StartReadingStep ==
  ASSUME IInv, NEW f \in Families, StartReading(f)
  PROVE  IInv'
<1> DEFINE q == pending[f]
<1>1. /\ up \in {"up", "stopping"} /\ accepting[f] = "connected"
      /\ UNCHANGED <<up, pending, rd, wr, crashed>>
  BY DEF StartReading, Running
<1>2. q \in Sessions /\ socket[q] = "connected"
  BY <1>1, WaitingAreFresh DEF Stage
<1>3. /\ pending' = [pending EXCEPT ![f] = q]
      /\ \A g \in Families : g # f => pending[g] # q
  BY <1>1, KeepsSession
<1>4. SessionOK(socket[q], rd[q], wr[q], net[q], history[q], crashed, up)
      /\ crashed \in BOOLEAN /\ socket = [x \in Sessions |-> socket[x]]
      /\ net = [x \in Sessions |-> net[x]] /\ history = [x \in Sessions |-> history[x]]
  BY <1>2, SessionPart
<1>5. CASE up = "up"
  <2>1. PICK stream \in Streams :
          /\ net' = [net EXCEPT ![q] = [FreshNet EXCEPT !.in = stream, !.asked = MaxLine]]
          /\ history' = [history EXCEPT ![q].sent = stream]
          /\ socket' = [socket EXCEPT ![q] = "open"]
          /\ accepting' = [accepting EXCEPT ![f] = "read"]
    BY <1>5 DEF StartReading
  <2> DEFINE n1 == [FreshNet EXCEPT !.in = stream, !.asked = MaxLine]
             h1 == [history[q] EXCEPT !.sent = stream]
  <2>2. history' = [history EXCEPT ![q] = h1] /\ net' = [net EXCEPT ![q] = n1]
    BY <2>1
  <2>3. rd[q] = FreshReader /\ wr[q] = FreshWriter /\ history[q] = FreshHistory
    BY <1>2, <1>4 DEF SessionOK, Unused
  <2>4. stream \in Seq(STRING) /\ MaxLine \in Nat
    BY HttpAssumption
  <2>5. n1 \in Nets /\ n1.writing = FALSE /\ n1.asked = MaxLine
    <3>0. n1 = [FreshNet EXCEPT !.in = stream, !.asked = MaxLine]
      OBVIOUS
    <3> HIDE DEF n1
    <3>1. n1 = [in |-> stream, asked |-> MaxLine, writing |-> FALSE]
      BY <3>0 DEF FreshNet
    <3>2. n1 \in Nets
      <4>1. MaxLine \in Int /\ FALSE \in BOOLEAN
        BY <2>4
      <4> QED BY <2>4, <3>1, <4>1, NetTyped
    <3> QED BY <3>1, <3>2
  <2>6. h1 \in Histories /\ h1.added = <<>> /\ h1.wire = <<>> /\ ~h1.dead /\ ~h1.failed
    <3>1. h1 = [FreshHistory EXCEPT !.sent = stream]
      BY <2>3
    <3> HIDE DEF h1
    <3>2. h1.added = <<>> /\ h1.wire = <<>> /\ ~h1.dead /\ ~h1.failed
      BY <3>1 DEF FreshHistory
    <3>3. h1 \in Histories
      BY <2>4, <3>1, FreshTyped DEF Histories
    <3> QED BY <3>2, <3>3
  <2> HIDE DEF q, n1, h1
  <2>7. SessionOK("open", rd[q], wr[q], n1, h1, crashed, up)
    <3>1. AsMade("open", n1, h1)
      BY <2>5, <2>6 DEF AsMade
    <3> QED BY <1>4, <2>3, <3>1, FreshOK
  <2>8. Puts(net, net', q, n1) /\ Puts(history, history', q, h1) /\ Puts(socket, socket', q, "open")
    BY <1>2, <1>4, <2>1, <2>2, PutOne
  <2>9. Stage("read", "open")
    BY DEF Stage
  <2>10. Listens(f, q, "open", n1, h1, "read")
    BY <1>1, <1>2, <1>3, <2>1, <2>7, <2>8, <2>9 DEF Listens
  <2> QED BY <1>2, <2>7, <2>10, ListenerMoves
<1>6. CASE up # "up"
  <2>1. accepting' = [accepting EXCEPT ![f] = "dead"] /\ UNCHANGED <<net, history, socket>>
    BY <1>6 DEF StartReading
  <2> HIDE DEF q
  <2>2. /\ Puts(socket, socket', q, socket[q]) /\ Puts(net, net', q, net[q])
        /\ Puts(history, history', q, history[q])
    BY <1>2, <1>4, <2>1, PutNone
  <2>3. Stage("dead", socket[q])
    BY <1>2 DEF Stage
  <2>4. Listens(f, q, socket[q], net[q], history[q], "dead")
    BY <1>1, <1>2, <1>3, <1>4, <1>6, <2>1, <2>2, <2>3 DEF Listens
  <2> QED BY <1>2, <1>4, <2>4, ListenerMoves
<1> QED BY <1>5, <1>6

\* NewSession.
LEMMA NewSessionStep ==
  ASSUME IInv, NEW f \in Families, NewSession(f)
  PROVE  IInv'
<1>1. /\ up \in {"up", "stopping"} /\ accepting' = [accepting EXCEPT ![f] = "made"]
      /\ UNCHANGED <<up, net, rd, wr, crashed, history>>
  BY DEF NewSession, Running
<1>2. PICK new \in Sessions : /\ socket[new] = "none" /\ pending' = [pending EXCEPT ![f] = new]
                              /\ socket' = [socket EXCEPT ![new] = "made"]
  BY DEF NewSession
<1>3. SessionOK(socket[new], rd[new], wr[new], net[new], history[new], crashed, up)
      /\ crashed \in BOOLEAN /\ socket = [x \in Sessions |-> socket[x]]
  BY SessionPart
<1>4. /\ Puts(net, net', new, net[new]) /\ Puts(history, history', new, history[new])
      /\ Puts(socket, socket', new, "made")
  BY <1>1, <1>2, <1>3, SessionPart, PutNone, PutOne
<1>5. SessionOK("made", rd[new], wr[new], net[new], history[new], crashed, up)
  BY <1>2, <1>3, NotConnected
<1>6. ASSUME NEW g \in Families PROVE pending[g] # new
  BY <1>1, <1>2, WaitingAreFresh DEF Stage
<1>7. Stage("made", "made")
  BY DEF Stage
<1>8. Listens(f, new, "made", net[new], history[new], "made")
  BY <1>1, <1>2, <1>4, <1>5, <1>6, <1>7 DEF Listens
<1> QED BY <1>5, <1>8, ListenerMoves

\* AcceptNext.
LEMMA AcceptNextStep ==
  ASSUME IInv, NEW f \in Families, AcceptNext(f)
  PROVE  IInv'
<1> DEFINE q == pending[f]
           a == IF up = "up" THEN "asked" ELSE "dead"
           k == IF up = "up" THEN "accepting" ELSE socket[q]
<1>1. /\ up \in {"up", "stopping"} /\ accepting[f] = "made"
      /\ accepting' = [accepting EXCEPT ![f] = a] /\ socket' = [socket EXCEPT ![q] = k]
      /\ UNCHANGED <<up, pending, net, rd, wr, crashed, history>>
  BY DEF AcceptNext, Running
<1>2. q \in Sessions /\ socket[q] = "made"
  BY <1>1, WaitingAreFresh DEF Stage
<1>3. /\ pending' = [pending EXCEPT ![f] = q]
      /\ \A g \in Families : g # f => pending[g] # q
  BY <1>1, KeepsSession
<1>4. /\ a \in {"asked", "dead"} /\ Stage(a, k) /\ (a = "dead" => up # "up")
      /\ k \in {"accepting", "made"}
  BY <1>2 DEF Stage
<1> HIDE DEF q, a, k
<1>5. SessionOK(socket[q], rd[q], wr[q], net[q], history[q], crashed, up)
      /\ crashed \in BOOLEAN /\ socket = [x \in Sessions |-> socket[x]]
  BY <1>2, SessionPart
<1>6. /\ Puts(net, net', q, net[q]) /\ Puts(history, history', q, history[q])
      /\ Puts(socket, socket', q, k)
  BY <1>1, <1>2, <1>5, SessionPart, PutNone, PutOne
<1>7. SessionOK(k, rd[q], wr[q], net[q], history[q], crashed, up)
  BY <1>2, <1>4, <1>5, NotConnected
<1>8. Listens(f, q, k, net[q], history[q], a)
  BY <1>1, <1>2, <1>3, <1>4, <1>6, <1>7 DEF Listens
<1> QED BY <1>2, <1>7, <1>8, ListenerMoves

-----------------------------------------------------------------------------
(* The theorems.                                                            *)

\* Nothing happens.
LEMMA StutterStep ==
  ASSUME IInv, UNCHANGED vars
  PROVE  IInv'
<1>1. IsInjective(pending)' = IsInjective(pending)
  BY DEF vars, IsInjective
<1>2. Accepting'
  BY <1>1 DEF IInv, Accepting, Waiting, vars
<1> QED BY <1>2 DEF IInv, vars

\* Every step keeps the invariant.
LEMMA NextStep ==
  ASSUME IInv, [Next]_vars
  PROVE  IInv'
<1>1. CASE startServing
  BY <1>1, StartStep
<1>2. CASE StopService
  BY <1>2, StopStep
<1>9. CASE Stopped
  BY <1>9, StoppedStep
<1>3. CASE shutdown
  BY <1>3, ShutdownStep
<1>4. ASSUME NEW f \in Families, acceptCallback(f) \/ AcceptStep(f)
      PROVE  IInv'
  BY <1>4, AcceptCallbackStep, StartReadingStep, NewSessionStep, AcceptNextStep DEF AcceptStep
<1>5. ASSUME NEW s \in Sessions,
             readCallback(s) \/ ReadNothing(s) \/ ReadFails(s) \/ WriteFails(s)
      PROVE  IInv'
  BY <1>5, ReadStep, ReadNothingStep, ReadFailsStep, WriteFailsStep
<1>6. ASSUME NEW s \in Sessions, ReaderStep(s)
      PROVE  IInv'
  BY <1>6, FirstLineStep, HeaderLineStep, BodyStep, AddPieceStep, ReadAgainStep
     DEF ReaderStep
<1>7. ASSUME NEW s \in Sessions, WriterStep(s)
      PROVE  IInv'
  BY <1>7, WriteStep, CloseStep, RespondStep DEF WriterStep
<1>8. CASE UNCHANGED vars
  BY <1>8, StutterStep
<1> QED BY <1>1, <1>2, <1>3, <1>4, <1>5, <1>6, <1>7, <1>8, <1>9 DEF Next

\* The invariant holds in every state of every behaviour.
THEOREM Invariance == Spec => []IInv
<1>1. Init => IInv
  BY InitIInv
<1>2. IInv /\ [Next]_vars => IInv'
  BY NextStep
<1> QED BY <1>1, <1>2, PTL DEF Spec

\* The types hold, the parser's index stays in its buffer, a read is asked for
\* exactly the rest of the buffer, and only a body crashes the server: for
\* every limit and every stream, however it is cut.
THEOREM ServerTypeOK == Spec => []TypeOK
<1>1. IInv => TypeOK
  <2> SUFFICES ASSUME IInv PROVE TypeOK
    OBVIOUS
  <2>1. ASSUME NEW s \in Sessions
        PROVE  /\ socket[s] \in {"none", "made", "accepting", "connected", "open",
                              "closed", "deleted"}
               /\ rd[s].at \in {"out", "firstLine", "headers", "body", "add", "again", "dead"}
               /\ ~crashed => rd[s].idx <= Len(rd[s].buf)
               /\ Len(rd[s].buf) <= MaxLine
               /\ net[s].asked >= 0 => Len(rd[s].buf) + net[s].asked = MaxLine
               /\ wr[s].active = (wr[s].queue # <<>>)
    BY SessionPart DEF SessionOK, Fielded, Sound, Asked, Listed
  <2>2. socket \in [Sessions -> {"none", "made", "accepting", "connected", "open",
                                 "closed", "deleted"}]
    BY <2>1 DEF IInv
  <2> QED BY <2>1, <2>2 DEF IInv, Accepting, TypeOK
<1> QED BY <1>1, Invariance, PTL

\* The pieces of a response leave in the order they were added, and a session
\* that nobody broke and that was told of no failure ends with all of them.
THEOREM ResponsesWhole == Spec => []ResponseWhole
<1>1. IInv => ResponseWhole
  <2> SUFFICES ASSUME IInv, NEW s \in Sessions
               PROVE  /\ history[s].added = history[s].wire \o wr[s].queue
                      /\ socket[s] = "closed" /\ ~history[s].failed /\ ~history[s].broken
                           => history[s].wire \in Expected(s)
    BY DEF ResponseWhole
  <2> DEFINE r == rd[s]  w == wr[s]  h == history[s]
  <2>1. SessionOK(socket[s], r, w, net[s], h, crashed, up)
    BY SessionPart
  <2>2. h.added = h.wire \o w.queue /\ h.wire \in Seq(Pieces) /\ h.added \in Seq(Pieces)
    BY <2>1 DEF SessionOK, Listed, Histories
  <2>3. ASSUME socket[s] = "closed", ~h.failed, ~h.broken
        PROVE  h.wire \in Expected(s)
    <3>1. w.queue = <<>> /\ w.complete
      BY <2>1, <2>3 DEF SessionOK, Ended
    <3>2. w.reply = <<>> /\ \E answer \in Answers : h.added \o w.reply = Hundred(r) \o answer
      BY <2>1, <2>3, <3>1 DEF SessionOK, Told
    <3>3. h.added = h.wire
      BY <2>2, <3>1, NothingMore
    <3>4. h.added \o <<>> = h.added
      BY <2>2, NothingMore
    <3> QED BY <3>2, <3>3, <3>4 DEF Expected, Hundred
  <2> QED BY <2>2, <2>3
<1> QED BY <1>1, Invariance, PTL

\* While the service takes requests, no callback ends with an exception, and no
\* lock is left locked, on a connection that nobody broke and that was told of
\* no failure; nor does an accept callback.
THEOREM CallbacksAllSurvive == Spec => []CallbacksSurvive
<1>1. IInv => CallbacksSurvive
  <2>1. ASSUME IInv PROVE \A s \in Sessions : Survived(history[s], up)
    BY <2>1, SessionPart DEF SessionOK
  <2>2. ASSUME IInv PROVE \A f \in Families : accepting[f] = "dead" => up # "up"
    BY <2>2 DEF IInv, Accepting
  <2> QED BY <2>1, <2>2 DEF CallbacksSurvive, Survived
<1> QED BY <1>1, Invariance, PTL
=============================================================================
