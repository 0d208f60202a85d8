------------------------------- MODULE List -------------------------------
(***************************************************************************)
(* List<T> (src/inc/ge/data/List.h), a growing array that keeps its        *)
(* elements between _start and _iter of a buffer that ends at _end, and    *)
(* ShortList<T, n>, whose first buffer is a member of the object.          *)
(*                                                                         *)
(* A slot of the buffer holds a constructed element or Raw storage: the    *)
(* code constructs and destroys elements by hand, and what it can get      *)
(* wrong is which slots hold one.  "want" is the sequence the callers      *)
(* asked for.  A program goes on until an operation leaves the list        *)
(* spoilt: from there on every call acts on a broken object.               *)
(***************************************************************************)
EXTENDS Integers, Sequences, SequencesExt

CONSTANTS
    Elements,     \* values of T
    Raw,          \* storage without an object
    MinSize,      \* LIST_MIN_SIZE (8)
    ShortCount,   \* the second parameter of ShortList
    MaxElements   \* bound on the elements a program puts in

VARIABLES
    short,    \* the object is a ShortList
    inner,    \* _start is the buffer inside the ShortList
    slots,    \* the buffer, from _start to _end
    iter,     \* _iter - _start
    want,
    spoilt,   \* what went wrong: {} while every call can be trusted
    alive     \* FALSE once the code walked off the buffer

vars == <<short, inner, slots, iter, want, spoilt, alive>>

Contents == SubSeq(slots, 1, iter)
Live == {i \in DOMAIN slots : slots[i] # Raw}
Larger(a, b) == IF a > b THEN a ELSE b

\* Construction: empty, with a reserve, or as a ShortList.
Init ==
    /\ short \in BOOLEAN
    /\ \E n \in 0..MaxElements :
           /\ inner = (short /\ n <= ShortCount)
           /\ slots = [i \in 1..(IF inner THEN ShortCount ELSE n) |-> Raw]
    /\ iter = 0 /\ want = <<>> /\ spoilt = {} /\ alive = TRUE

\* A ShortList gives its inner buffer to any small request, also while the
\* elements are still in it: they are copied onto themselves and destroyed.
InnerFor(n) == short /\ n < ShortCount
Aliased(n) == n > Len(slots) /\ inner /\ InnerFor(n)

\* The buffer after reserve(n).
Reserved(n) ==
    IF n <= Len(slots) THEN slots
    ELSE [i \in 1..n |-> IF i <= iter /\ ~ Aliased(n) THEN slots[i] ELSE Raw]

\* Where it is then, and what went wrong on the way.
Placed(n) ==
    /\ inner' = IF n <= Len(slots) THEN inner ELSE InnerFor(n)
    /\ UNCHANGED <<short, alive>>
Harm(n) == IF Aliased(n) /\ iter > 0 THEN {"aliased"} ELSE {}
Overbuilt(buffer, S) == IF \E i \in S : buffer[i] # Raw THEN {"overbuilt"} ELSE {}

\* The reserve an element added at the back asks for.
Doubled == Larger(MinSize, 2 * Len(slots))
ForOneMore == IF iter = Len(slots) THEN Doubled ELSE 0

addBack(v) ==
    LET room == Reserved(ForOneMore)
    IN /\ slots' = [room EXCEPT ![iter + 1] = v]
       /\ iter' = iter + 1
       /\ want' = Append(want, v)
       /\ Placed(ForOneMore)
       /\ spoilt' = spoilt \cup Harm(ForOneMore) \cup Overbuilt(room, {iter + 1})

\* The element is added at the back and rotated into its place.
insert(index, v) ==
    LET room == [Reserved(ForOneMore) EXCEPT ![iter + 1] = v]
    IN /\ slots' = [i \in DOMAIN room |->
                       IF i = index THEN v
                       ELSE IF i > index /\ i <= iter + 1 THEN room[i - 1]
                       ELSE room[i]]
       /\ iter' = iter + 1
       /\ want' = InsertAt(want, index, v)
       /\ Placed(ForOneMore)
       /\ spoilt' = spoilt \cup Harm(ForOneMore)

addBlockBack(block) ==
    LET size == iter + Len(block)
        n == IF size > Len(slots) THEN Larger(Doubled, size) ELSE 0
        room == Reserved(n)
    IN /\ slots' = [i \in DOMAIN room |->
                       IF i > iter /\ i <= size THEN block[i - iter] ELSE room[i]]
       /\ iter' = size
       /\ want' = want \o block
       /\ Placed(n)
       /\ spoilt' = spoilt \cup Harm(n) \cup Overbuilt(room, (iter + 1)..size)

\* remove() rotates the element to the back, destroys the slot behind the
\* back and leaves _iter where it was: the list keeps its size.
remove(index) ==
    /\ slots' = [i \in DOMAIN slots |->
                    IF i = iter THEN slots[index]
                    ELSE IF i >= index /\ i < iter THEN slots[i + 1]
                    ELSE slots[i]]
    /\ want' = RemoveAt(want, index)
    /\ spoilt' = spoilt \cup {"notShrunk", "rawDestroyed"}
    /\ UNCHANGED <<short, inner, iter, alive>>

set(index, v) ==
    /\ slots' = [slots EXCEPT ![index] = v]
    /\ want' = [want EXCEPT ![index] = v]
    /\ UNCHANGED <<short, inner, iter, spoilt, alive>>

popBack ==
    /\ iter > 0
    /\ slots' = [slots EXCEPT ![iter] = Raw]
    /\ iter' = iter - 1
    /\ want' = Front(want)
    /\ UNCHANGED <<short, inner, spoilt, alive>>

reserve(n) ==
    /\ slots' = Reserved(n)
    /\ Placed(n)
    /\ spoilt' = spoilt \cup Harm(n)
    /\ UNCHANGED <<iter, want>>

\* Growing constructs fill values up to the end of the buffer, not up to the
\* new size: the ones past it are objects nobody counts.
resize(n, fill) ==
    LET room == Reserved(n)
    IN /\ IF n < iter
          THEN /\ slots' = [i \in DOMAIN slots |->
                               IF i > n /\ i <= iter THEN Raw ELSE slots[i]]
               /\ want' = SubSeq(want, 1, n)
          ELSE /\ slots' = [i \in DOMAIN room |->
                               IF i > iter THEN fill ELSE room[i]]
               /\ want' = want \o [i \in 1..(n - iter) |-> fill]
       /\ iter' = n
       /\ Placed(n)
       /\ spoilt' = spoilt \cup Harm(n)
                    \cup (IF n >= iter /\ n < Len(slots') THEN {"uncounted"} ELSE {})

\* A fill value throws after "done" of them: the first one is forgotten by
\* the clean-up, and with none done its loop walks off the buffer.
ResizeThrows(n, fill, done) ==
    /\ n >= iter /\ done < Len(Reserved(n)) - iter
    /\ slots' = [i \in DOMAIN Reserved(n) |->
                    IF done > 0 /\ i = iter + 1 THEN fill ELSE Reserved(n)[i]]
    /\ inner' = IF n <= Len(slots) THEN inner ELSE InnerFor(n)
    /\ alive' = (done > 0)
    /\ spoilt' = spoilt \cup Harm(n) \cup (IF done > 0 THEN {"uncounted"} ELSE {})
    /\ UNCHANGED <<short, iter, want>>

\* _iter goes to the end of the buffer, whatever size was asked for.
uninitializedResize(n) ==
    LET room == Reserved(n)
    IN /\ slots' = room
       /\ iter' = Len(room)
       /\ Placed(n)
       /\ spoilt' = spoilt \cup Harm(n)
                    \cup (IF Len(room) > iter THEN {"raw"} ELSE {})
       /\ UNCHANGED want

\* The elements go, the buffer is forgotten without being freed.
clear ==
    /\ inner' = FALSE
    /\ slots' = <<>>
    /\ iter' = 0
    /\ want' = <<>>
    /\ UNCHANGED <<short, spoilt, alive>>

\* An element that throws while a buffer is copied, by reserve(), a copy or
\* an assignment, ends in cleanupBuffer(buffer, 0), whose loop from the
\* buffer to address 0 never stops.
CopyThrows ==
    /\ iter > 0
    /\ alive' = FALSE
    /\ UNCHANGED <<short, inner, slots, iter, want, spoilt>>

\* Going on with a copy made by List(const List&), a buffer of the size.  It
\* ends with _iter = _start: the copy has the elements and says it is empty.
copy ==
    /\ short' = FALSE /\ inner' = FALSE
    /\ slots' = Contents
    /\ iter' = 0
    /\ spoilt' = spoilt \cup (IF iter > 0 THEN {"forgotten"} ELSE {})
    /\ UNCHANGED <<want, alive>>

\* Going on with a ShortList made of this list: everything up to the END of
\* the other buffer is copied, and the new list says it is empty, too.
copyShort ==
    LET size == IF iter <= ShortCount THEN ShortCount ELSE iter
    IN /\ short' = TRUE
       /\ inner' = (iter <= ShortCount)
       /\ slots' = [i \in 1..size |-> IF i <= Len(slots) THEN slots[i] ELSE Raw]
       /\ iter' = 0
       /\ spoilt' = spoilt \cup (IF iter > 0 THEN {"forgotten"} ELSE {})
                           \cup (IF Len(slots) > iter THEN {"rawRead"} ELSE {})
                           \cup (IF Len(slots) > size THEN {"overrun"} ELSE {})
       /\ UNCHANGED <<want, alive>>

\* Going on with a List of n slots this one was assigned to.
assign(n) ==
    /\ short' = FALSE /\ inner' = FALSE
    /\ slots' = [i \in 1..Larger(n, Len(slots)) |->
                    IF i <= iter THEN slots[i] ELSE Raw]
    /\ UNCHANGED <<iter, want, spoilt, alive>>

\* Assigned to itself, a list destroys its elements before it copies them.
assignSelf ==
    /\ spoilt' = IF iter > 0 THEN spoilt \cup {"rawRead"} ELSE spoilt
    /\ UNCHANGED <<short, inner, slots, iter, want, alive>>

\* Going on with a List this one was moved to; the buffer inside a ShortList
\* is moved as a pointer into an object the program is done with.
move ==
    /\ short' = FALSE /\ inner' = FALSE
    /\ spoilt' = IF inner THEN spoilt \cup {"dangling"} ELSE spoilt
    /\ UNCHANGED <<slots, iter, want, alive>>

Fits(n) == Len(want) + n <= MaxElements

Next ==
    /\ alive /\ spoilt = {}
    /\ \/ \E v \in Elements : Fits(1) /\ addBack(v)
       \/ \E v \in Elements, i \in 1..iter : Fits(1) /\ insert(i, v)
       \/ \E a, b \in Elements : Fits(2) /\ addBlockBack(<<a, b>>)
       \/ \E i \in 1..iter : remove(i)
       \/ \E v \in Elements, i \in 1..iter : set(i, v)
       \/ popBack
       \/ \E n \in 0..MaxElements : reserve(n)
       \/ \E v \in Elements, n \in 0..MaxElements : resize(n, v)
       \/ \E v \in Elements, n, done \in 0..MaxElements : ResizeThrows(n, v, done)
       \/ \E n \in 0..MaxElements : uninitializedResize(n)
       \/ clear
       \/ CopyThrows
       \/ copy
       \/ copyShort
       \/ \E n \in 0..MaxElements : assign(n)
       \/ assignSelf
       \/ move

Spec == Init /\ [][Next]_vars

TypeOK ==
    /\ short \in BOOLEAN /\ inner \in BOOLEAN /\ alive \in BOOLEAN
    /\ slots \in Seq(Elements \cup {Raw})
    /\ iter \in 0..Len(slots)
    /\ want \in Seq(Elements) /\ Len(want) <= MaxElements

(* Until an operation spoils it, a list holds what was put in, in order,   *)
(* and exactly the counted slots hold an object, so nothing is destroyed   *)
(* twice or never.  Even a spoilt list keeps every element in its place:   *)
(* remove() only fails to shrink it and uninitializedResize() to bound it. *)
(* Only a constructed copy, which says it is empty, or small requests to a *)
(* cleared ShortList lose them.                                            *)
Held ==
    /\ spoilt = {} => Contents = want /\ Live = 1..iter
    /\ IsPrefix(want, Contents) \/ {"forgotten", "aliased"} \cap spoilt # {}
=============================================================================
