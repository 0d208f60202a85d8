---------------------------- MODULE StringBuffer ----------------------------
(***************************************************************************)
(* The storage of a String (src/src/ge/text/String.cpp): characters in the *)
(* object, shortStr, or in a buffer of the heap, strData.  Readers go by   *)
(* the length, "len < SMALL_STR_MAX", writers by the pointer, and the      *)
(* pointer of a short string may name either.  No String frees its buffer  *)
(* when it is destroyed.                                                   *)
(***************************************************************************)
EXTENDS Integers, Sequences, SequencesExt

CONSTANTS
    Chars, Nul, Junk,   \* characters, the terminator, an unwritten byte
    SmallLen,           \* SMALL_STR_LEN (24)
    Pieces,             \* the texts a program puts in
    MaxLen              \* bound on the length of a string

VARIABLES
    str,      \* the String: [shortStr, at, heap, len, reserved]
    want,     \* the text the callers asked for
    spoilt    \* what went wrong: {} while every call can be trusted

vars == <<str, want, spoilt>>

SmallMax == SmallLen - 1
FreshMemory(n) == [i \in 1..n |-> Junk]
\* "buffer" with the bytes of "text" from "offset" on.
Overlay(buffer, offset, text) ==
    [i \in DOMAIN buffer |->
        IF i > offset /\ i <= offset + Len(text) THEN text[i - offset] ELSE buffer[i]]
Terminated(text) == Append(text, Nul)

\* strData points at shortStr, at a buffer of its own, or at one that now
\* belongs to another String.
Written(s) == IF s.at = "inline" THEN s.shortStr ELSE s.heap
data(s) == IF s.len < SmallMax THEN s.shortStr ELSE Written(s)
Text(s) == SubSeq(data(s), 1, s.len)

EmptyString ==
    [shortStr |-> FreshMemory(SmallLen), at |-> "inline", heap |-> <<>>,
     len |-> 0, reserved |-> SmallLen]

\* A text taken over by any constructor or assignment: what shortStr held
\* stays there under a long one.
Holding(shortStr, text) ==
    LET n == Len(text)
    IN IF n < SmallMax
       THEN [EmptyString EXCEPT !.shortStr = Overlay(shortStr, 0, Terminated(text)), !.len = n]
       ELSE [shortStr |-> shortStr, at |-> "heap", heap |-> Terminated(text),
             len |-> n, reserved |-> n + 1]
Made(text) == Holding(EmptyString.shortStr, text)

\* append_raw()
Appended(s, text) ==
    LET n == s.len + Len(text)
        cells == IF n < s.reserved THEN Overlay(Written(s), s.len, Terminated(text))
                 ELSE Overlay(FreshMemory(2 * (n + 1)), 0,
                              SubSeq(Written(s), 1, s.len) \o Terminated(text))
    IN IF n < s.reserved /\ s.at = "inline"
       THEN [s EXCEPT !.shortStr = cells, !.len = n]
       ELSE [s EXCEPT !.heap = cells, !.len = n,
                      !.at = IF n < s.reserved THEN @ ELSE "heap",
                      !.reserved = IF n < @ THEN @ ELSE 2 * (n + 1)]
AppendHarm(s, text) ==
    (IF s.at = "away" THEN {"stolen"} ELSE {})
    \cup (IF s.at = "heap" /\ s.len + Len(text) \in 1..(SmallMax - 1) THEN {"unread"} ELSE {})

\* reserve()
Ignored(s, n) == n < SmallMax \/ n <= s.reserved
Enlarged(s, n) ==
    IF Ignored(s, n) THEN s
    ELSE [s EXCEPT !.at = "heap", !.reserved = n + 1,
                   !.heap = Overlay(FreshMemory(n + 1), 0,
                                IF s.len > 0 THEN SubSeq(Written(s), 1, s.len + 1) ELSE <<>>)]
ReserveHarm(s, n) ==
    IF ~ Ignored(s, n) /\ s.len > 0 /\ s.at = "inline" THEN {"inlineFreed"} ELSE {}

\* An assignment gives back the buffer of a string that is long.
ReleaseHarm(s) == IF s.len >= SmallMax /\ s.at = "inline" THEN {"inlineFreed"} ELSE {}

\* operator+
Sum(first, second) == Appended(Appended(Enlarged(EmptyString, Len(first) + Len(second)), first), second)

Init ==
    /\ \/ str = EmptyString /\ want = <<>>
       \/ \E text \in Pieces : str = Made(text) /\ want = text
    /\ spoilt = {}

assign(text) ==
    /\ str' = Holding(str.shortStr, text)
    /\ want' = text
    /\ spoilt' = spoilt \cup ReleaseHarm(str)

\* Assigned a part of itself: a StringRef is read before the old buffer is
\* freed, a const char* after it.
assignPart(i, asRef) ==
    /\ str' = Holding(str.shortStr, SubSeq(Text(str), i, str.len))
    /\ want' = SubSeq(want, i, Len(want))
    /\ spoilt' = spoilt \cup ReleaseHarm(str)
                 \cup (IF ~ asRef /\ str.len >= SmallMax THEN {"freedRead"} ELSE {})

append(text) ==
    /\ str' = Appended(str, text)
    /\ want' = want \o text
    /\ spoilt' = spoilt \cup AppendHarm(str, text)

reserve(n) ==
    /\ str' = Enlarged(str, n)
    /\ spoilt' = spoilt \cup ReserveHarm(str, n)
    /\ UNCHANGED want

\* Going on with a copy of the string.
copy ==
    /\ str' = Holding(EmptyString.shortStr, Text(str))
    /\ UNCHANGED <<want, spoilt>>

\* Going on with a String this one was moved to; a long one hands over its
\* pointer, also when that is its own shortStr.
move ==
    /\ str' = IF str.len < SmallMax THEN Made(Text(str))
              ELSE [str EXCEPT !.shortStr = EmptyString.shortStr]
    /\ spoilt' = IF str.len >= SmallMax /\ str.at = "inline" THEN spoilt \cup {"dangling"} ELSE spoilt
    /\ UNCHANGED want

\* Going on with the String that was moved from: a long one is empty but
\* keeps the pointer and the size of the buffer it gave away.
movedFrom ==
    /\ str.len >= SmallMax
    /\ str' = [str EXCEPT !.len = 0, !.at = IF @ = "heap" THEN "away" ELSE @]
    /\ want' = <<>>
    /\ UNCHANGED spoilt

\* Going on with the sum of this string and a text.
plus(text) ==
    /\ str' = Sum(Text(str), text)
    /\ want' = want \o text
    /\ UNCHANGED spoilt

Next ==
    /\ spoilt = {}
    /\ \/ \E text \in Pieces : assign(text)
       \/ \E i \in 1..str.len, asRef \in BOOLEAN : assignPart(i, asRef)
       \/ \E text \in Pieces : Len(want \o text) <= MaxLen /\ (append(text) \/ plus(text))
       \/ \E n \in 0..MaxLen : reserve(n)
       \/ copy
       \/ move
       \/ movedFrom

Spec == Init /\ [][Next]_vars

TypeOK ==
    /\ str.shortStr \in [1..SmallLen -> Chars \cup {Nul, Junk}]
    /\ str.at \in {"inline", "heap", "away"}
    /\ str.heap \in Seq(Chars \cup {Nul, Junk})
    /\ str.len \in 0..MaxLen
    /\ want \in Seq(Chars)
    /\ spoilt \subseteq {"inlineFreed", "freedRead", "stolen", "unread", "dangling"}

(* A string reads as what was put in, terminated unless it was never       *)
(* written, and "reserved" is the size of what strData points at, in every *)
(* order of appends, reserves, copies, moves and assignments until one of  *)
(* them frees or shares a buffer that is not its own.  A sum is right      *)
(* although it reserves on an empty string: it is long when it reserves.   *)
Held ==
    spoilt = {} =>
        /\ Text(str) = want
        /\ want # <<>> => data(str)[str.len + 1] = Nul
        /\ str.at # "away" => str.reserved = Len(Written(str))
        /\ str.len > 0 /\ str.at = "heap" => str.len >= SmallMax
=============================================================================
