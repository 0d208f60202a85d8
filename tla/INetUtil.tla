------------------------------ MODULE INetUtil ------------------------------
(***************************************************************************)
(* The parsers of addresses (src/src/ge/inet/INetUtil.cpp), as             *)
(* INetAddress::fromString() calls them: on a zeroed address.  A character *)
(* is its value as a digit or one of the names below.                      *)
(***************************************************************************)
EXTENDS Integers, Sequences, SequencesExt, FiniteSetsExt

CONSTANTS
    Byte,        \* the values of a byte of an IPv4 address (256)
    HexRadix,    \* 16: four digits of it make two bytes of IPv6 address,
                 \* here two digits make two "bytes" of one digit
    Groups       \* of two bytes in an IPv6 address (8)

Period == -1
Colon == -2
Percent == -3
Other == -4

N == INSTANCE Numbers WITH Bits <- 8, ByteMax <- Byte - 1, Wide <- Byte^4

Failed == <<>>
None == -1

-----------------------------------------------------------------------------
\* ipv4AddrStringToBinary(): the segments between the periods, then by how
\* many there are: the last one stands for all the bytes that are left.

IndexOf(src, c, from) ==
    LET hits == {i \in from..Len(src) : src[i] = c}
    IN IF hits = {} THEN None ELSE Min(hits)

Segments(src) ==
    LET f[start \in 1..(Len(src) + 1)] ==
            LET at == IndexOf(src, Period, start)
            IN IF at = None THEN <<SubSeq(src, start, Len(src))>>
               ELSE <<SubSeq(src, start, at - 1)>> \o f[at + 1]
    IN f[1]

parseUInt(text, max) ==
    LET v == N!parseUInt32(text, 10) IN IF v # N!Bad /\ v > max THEN N!Bad ELSE v

\* n bytes of v, the greatest first.
BigEndian(v, n) == [i \in 1..n |-> (v \div (Byte^(n - i))) % Byte]

ipv4AddrStringToBinary(src) ==
    LET segments == Segments(src)
        count == Len(segments)
        left == 5 - count
        firsts == [i \in 1..(count - 1) |-> parseUInt(segments[i], Byte - 1)]
        last == parseUInt(segments[count], Byte^left - 1)
    IN IF src = <<>> \/ count > 4 THEN Failed
       ELSE IF last = N!Bad \/ N!Bad \in Range(firsts) THEN Failed
       ELSE firsts \o BigEndian(last, left)

-----------------------------------------------------------------------------
\* ipv6AddrStringToBinary(): one pass over the characters.

Size == 2 * Groups

Fail(s) == [s EXCEPT !.ok = FALSE]
PutGroup(s) ==
    IF s.j + 2 > Size THEN Fail(s)
    ELSE [s EXCEPT !.dest[s.j + 1] = s.val \div HexRadix, !.dest[s.j + 2] = s.val % HexRadix,
                   !.j = s.j + 2, !.haveSeenHex = FALSE, !.val = 0]

HexDigit(s, digit) ==
    IF s.val * HexRadix + digit >= HexRadix^2 THEN Fail(s)
    ELSE [s EXCEPT !.val = s.val * HexRadix + digit, !.haveSeenHex = TRUE]

\* A colon at "i" of a text of n characters.
ColonAt(s, i, n) ==
    IF ~ s.haveSeenHex
    THEN IF s.colonPos # None THEN Fail(s) ELSE [s EXCEPT !.colonPos = s.j]
    ELSE IF i = n THEN Fail(s) ELSE PutGroup(s)

Scanned(src, from, n) ==
    LET step(s, i) ==
            IF ~ s.ok THEN s
            ELSE IF N!IsDigit(src[i], HexRadix) THEN HexDigit(s, src[i])
            ELSE IF src[i] # Colon THEN Fail(s)
            ELSE ColonAt(s, i, n)
        start == [dest |-> [k \in 1..Size |-> 0], j |-> 0, colonPos |-> None,
                  val |-> 0, haveSeenHex |-> FALSE, ok |-> TRUE]
        done == FoldLeft(step, start, [k \in 1..(n - from + 1) |-> from + k - 1])
    IN IF done.ok /\ done.haveSeenHex THEN PutGroup(done) ELSE done

\* What was read behind the double colon goes to the end.
Spread(s) ==
    LET n == s.j - s.colonPos
        move(dest, i) ==
            [dest EXCEPT ![Size + 1 - i] = dest[s.colonPos + n + 1 - i],
                         ![s.colonPos + n + 1 - i] = 0]
    IN FoldLeft(move, s.dest, [i \in 1..n |-> i])

ipv6AddrStringToBinary(src) ==
    LET percent == IndexOf(src, Percent, 1)
        n == IF percent = None THEN Len(src) ELSE percent - 1
        from == IF src[1] = Colon THEN 2 ELSE 1
        s == Scanned(src, from, n)
    IN IF Len(src) < 2 \/ percent = Len(src) THEN Failed
       ELSE IF src[1] = Colon /\ src[2] # Colon THEN Failed
       ELSE IF ~ s.ok THEN Failed
       ELSE IF s.colonPos # None THEN IF s.j = Size THEN Failed ELSE Spread(s)
       ELSE IF s.j # Size THEN Failed
       ELSE s.dest

fromString(src) ==
    LET v6 == ipv6AddrStringToBinary(src)
        v4 == ipv4AddrStringToBinary(src)
    IN IF v6 # Failed THEN <<6, v6>> ELSE IF v4 # Failed THEN <<4, v4>> ELSE Failed

-----------------------------------------------------------------------------
\* What the texts mean.

\* Digits of a number below "max", however many.
Numeral(text, radix, max) ==
    N!WellWritten(text, radix) /\ N!Meaning(text, radix) < max

\* Groups between colons, at one place perhaps a double colon for as many
\* zeros as are missing, at least one.
Parts(text, c) ==
    LET f[i \in 0..Len(text)] ==
            IF i = 0 THEN <<<<>>>>
            ELSE IF text[i] = c THEN Append(f[i - 1], <<>>)
            ELSE [f[i - 1] EXCEPT ![Len(f[i - 1])] = Append(@, text[i])]
    IN f[Len(text)]
Group(g) == <<N!Meaning(g, HexRadix) \div HexRadix, N!Meaning(g, HexRadix) % HexRadix>>
AllGroups(gs) == \A i \in DOMAIN gs : Numeral(gs[i], HexRadix, HexRadix^2)
GroupsOf(text) == IF text = <<>> THEN <<>> ELSE Parts(text, Colon)
BytesOf(gs) == FoldLeft(LAMBDA b, g : b \o Group(g), <<>>, gs)

Meaning6(text) ==
    LET doubles == {i \in 1..(Len(text) - 1) : text[i] = Colon /\ text[i + 1] = Colon}
        plain == GroupsOf(text)
        at == Min(doubles)
        before == GroupsOf(SubSeq(text, 1, at - 1))
        after == GroupsOf(SubSeq(text, at + 2, Len(text)))
        missing == Groups - Len(before) - Len(after)
    IN IF doubles = {}
       THEN IF Len(plain) = Groups /\ AllGroups(plain) THEN BytesOf(plain) ELSE Failed
       ELSE IF missing > 0 /\ AllGroups(before \o after)
            THEN BytesOf(before) \o [i \in 1..(2 * missing) |-> 0] \o BytesOf(after)
            ELSE Failed

Meaning4(text) ==
    LET parts == Parts(text, Period)
        n == Len(parts)
    IN IF /\ n <= 4
          /\ \A i \in 1..(n - 1) : Numeral(parts[i], 10, Byte)
          /\ Numeral(parts[n], 10, Byte^(5 - n))
       THEN [i \in 1..4 |-> IF i < n THEN N!Meaning(parts[i], 10)
                            ELSE (N!Meaning(parts[n], 10) \div Byte^(4 - i)) % Byte]
       ELSE Failed

\* A zone, behind a percent sign, is left out; it may not be empty.
Unzoned(text) ==
    LET percent == {i \in DOMAIN text : text[i] = Percent}
    IN IF percent = {} THEN text ELSE SubSeq(text, 1, Min(percent) - 1)

=============================================================================
