------------------------------- MODULE Deque -------------------------------
(***************************************************************************)
(* Deque<T> (src/inc/ge/data/Deque.h): a ring of slots with a hole from    *)
(* _head to _tail.  A program takes elements from a Deque that has some.   *)
(* Nothing else is modelled than the template's members as they are        *)
(* written: no file of the library includes them, and the constructors and *)
(* assignments name a member _reserved that the class has not.             *)
(***************************************************************************)
EXTENDS Integers, Sequences, SequencesExt

CONSTANTS
    Elements,
    Raw,          \* storage without an object
    MinSize,      \* the least buffer reserve() makes (16)
    MaxElements   \* bound on the elements held and on a reserve asked for

VARIABLES
    ring,     \* the slots from _data to _end
    head,     \* _head - _data: where the next element goes
    tail,     \* _tail - _data: the first element
    size,     \* _size
    want,     \* the sequence the callers asked for
    spoilt    \* what went wrong: {} while every call can be trusted

vars == <<ring, head, tail, size, want, spoilt>>

Slots == Len(ring)
next(p) == IF p + 1 = Slots THEN 0 ELSE p + 1
prev(p) == IF p = 0 THEN Slots - 1 ELSE p - 1
indexPtr(i) == IF tail + i < Slots THEN tail + i ELSE tail + i - Slots

Init == ring = <<>> /\ head = 0 /\ tail = 0 /\ size = 0 /\ want = <<>> /\ spoilt = {}

\* The buffer reserve(n) leaves: _size slots from the tail on, raw ones too.
Kept(n) == n < Slots
Moved(n) ==
    [i \in 1..(IF n < MinSize THEN MinSize ELSE n) |->
        IF i <= size THEN ring[indexPtr(i - 1) + 1] ELSE Raw]
RawMoved(n) ==
    IF ~ Kept(n) /\ \E i \in 1..size : Moved(n)[i] = Raw THEN {"rawMoved"} ELSE {}

\* An empty Deque forgets the buffer it had.
Leaked(n) == IF ~ Kept(n) /\ size = 0 /\ Slots > 0 THEN {"leaked"} ELSE {}

reserve(n) ==
    /\ IF Kept(n)
       THEN UNCHANGED <<ring, head, tail>>
       ELSE ring' = Moved(n) /\ head' = size /\ tail' = 0
    /\ spoilt' = spoilt \cup RawMoved(n) \cup Leaked(n)
    /\ UNCHANGED <<size, want>>

\* What an added element finds after the reserve(_size * 2) of a Deque that
\* has counted as many elements as it has slots.
Grown ==
    IF size = Slots
    THEN [ring |-> Moved(2 * size), head |-> size, tail |-> 0]
    ELSE [ring |-> ring, head |-> head, tail |-> tail]
GrowthHarm == IF size = Slots THEN RawMoved(2 * size) ELSE {}
MutAround(p, n) == p
Around(p, n) == p % n

addFront(v) ==
    LET n == Len(Grown.ring)
        p == Around(Grown.tail + n - 1, n)
    IN /\ ring' = [Grown.ring EXCEPT ![p + 1] = v]
       /\ tail' = p
       /\ head' = Grown.head
       /\ size' = size + 1
       /\ want' = <<v>> \o want
       /\ spoilt' = spoilt \cup GrowthHarm

addBack(v) ==
    /\ ring' = [Grown.ring EXCEPT ![Grown.head + 1] = v]
    /\ head' = Around(Grown.head + 1, Len(Grown.ring))
    /\ tail' = Grown.tail
    /\ size' = size + 1
    /\ want' = Append(want, v)
    /\ spoilt' = spoilt \cup GrowthHarm

\* The pops leave _size alone.
popFront ==
    /\ want # <<>>
    /\ ring' = [ring EXCEPT ![tail + 1] = Raw]
    /\ tail' = next(tail)
    /\ want' = Tail(want)
    /\ UNCHANGED <<head, size, spoilt>>

popBack ==
    /\ want # <<>>
    /\ ring' = [ring EXCEPT ![prev(head) + 1] = Raw]
    /\ head' = prev(head)
    /\ want' = Front(want)
    /\ UNCHANGED <<tail, size, spoilt>>

set(i, v) ==
    /\ ring' = [ring EXCEPT ![indexPtr(i) + 1] = v]
    /\ want' = [want EXCEPT ![i + 1] = v]
    /\ UNCHANGED <<head, tail, size, spoilt>>

front == ring[tail + 1]
back == ring[prev(head) + 1]
get(i) == ring[indexPtr(i) + 1]

\* What hasNext() and next() show from the front on.  In a full ring the end
\* is where the beginning is, or past the last slot, which next() never
\* reaches; the destructor's loop goes the same way.
Endless == Slots > 0 /\ head = Slots
Iterated ==
    LET n == IF head >= tail THEN head - tail ELSE head + Slots - tail
    IN [i \in 1..n |-> get(i - 1)]

Next ==
    /\ spoilt = {}
    /\ \/ \E v \in Elements : Len(want) < MaxElements /\ addFront(v)
       \/ \E v \in Elements : Len(want) < MaxElements /\ addBack(v)
       \/ popFront
       \/ popBack
       \/ \E v \in Elements, i \in 0..(Len(want) - 1) : set(i, v)
       \/ \E n \in 0..MaxElements : reserve(n)

Spec == Init /\ [][Next]_vars

TypeOK ==
    /\ ring \in Seq(Elements \cup {Raw})
    /\ head \in 0..Slots /\ tail \in 0..Slots
    /\ size \in Nat
    /\ want \in Seq(Elements)
    /\ spoilt \subseteq {"rawMoved", "leaked"}

(* However the ring wraps, a Deque gives back what was put in, at both     *)
(* ends and by index, and only the slots of held elements are live -- until*)
(* it grows after a pop.  An iterator shows all of them; when the ring is  *)
(* full it shows none, or goes round for ever after reserve(size()).       *)
Held ==
    spoilt = {} =>
        /\ [i \in 1..Len(want) |-> get(i - 1)] = want
        /\ {p \in 1..Slots : ring[p] # Raw} = {indexPtr(i - 1) + 1 : i \in DOMAIN want}
        /\ want # <<>> => front = Head(want) /\ back = Last(want)
        /\ IF Endless THEN size = Slots
           ELSE Iterated = IF Len(want) = Slots THEN <<>> ELSE want
        /\ size >= Len(want)
============================================================================
