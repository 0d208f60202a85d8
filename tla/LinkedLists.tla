----------------------------- MODULE LinkedLists -----------------------------
(***************************************************************************)
(* DLinkedList<T>, LinkedList<T> and SLinkedList<T> (src/inc/ge/data), one *)
(* model of their nodes and pointers.  The singly linked ones put an       *)
(* element at the head and call it the back: they are stacks.  A node that *)
(* was deleted is not in DOMAIN nodes; a pointer may still name it, and a  *)
(* new node may get its address.  The requests of a ThreadPool or of a     *)
(* FileServiceBlocking wait in a DLinkedList that is only used through     *)
(* addBack(const T&), front() and popFront().                              *)
(***************************************************************************)
EXTENDS Integers, Sequences, FiniteSets, SequencesExt

CONSTANTS
    Elements,
    MaxElements   \* bound on the elements held

VARIABLES
    double,   \* the list is a DLinkedList
    nodes,    \* the nodes: address -> [data, prev, next]
    head, tail, size,
    want,     \* the sequence the callers asked for
    spoilt,   \* what went wrong: {} while every call can be trusted
    alive     \* FALSE once the code followed NULL

vars == <<double, nodes, head, tail, size, want, spoilt, alive>>

Null == 0
Addresses == 1..(MaxElements + 1)
fresh == CHOOSE p \in Addresses \ DOMAIN nodes :
             \A q \in Addresses \ DOMAIN nodes : p <= q
Node(v, prev, next) == [data |-> v, prev |-> prev, next |-> next]
With(p, node) == [q \in DOMAIN nodes \cup {p} |-> IF q = p THEN node ELSE nodes[q]]
Without(p) == [q \in DOMAIN nodes \ {p} |-> nodes[q]]

\* The nodes an iterator meets from the head on.
Chain ==
    LET at[k \in 0..Cardinality(Addresses)] ==
            IF k = 0 THEN head
            ELSE IF at[k - 1] \in DOMAIN nodes THEN nodes[at[k - 1]].next ELSE Null
        met == {k \in DOMAIN at : at[k] # Null}
    IN [k \in 1..Cardinality(met) |-> at[k - 1]]
Forward == [k \in DOMAIN Chain |->
               IF Chain[k] \in DOMAIN nodes THEN nodes[Chain[k]].data ELSE "freed"]

Init ==
    /\ double \in BOOLEAN
    /\ nodes = <<>> /\ head = Null /\ tail = Null /\ size = 0
    /\ want = <<>> /\ spoilt = {} /\ alive = TRUE

\* A new head; the old one does not learn of it.
AtHead(v) ==
    /\ nodes' = With(fresh, Node(v, Null, IF size > 0 THEN head ELSE Null))
    /\ head' = fresh
    /\ tail' = IF double /\ size = 0 THEN fresh ELSE tail
    /\ size' = size + 1
    /\ UNCHANGED <<double, spoilt, alive>>

addFront(v) == double /\ AtHead(v) /\ want' = <<v>> \o want
push(v) == ~ double /\ AtHead(v) /\ want' = Append(want, v)

\* A new tail, and what follows it.
addBackTo(v, follower) ==
    /\ double
    /\ IF size = 0
       THEN nodes' = With(fresh, Node(v, Null, Null)) /\ head' = fresh
       ELSE /\ nodes' = [With(fresh, Node(v, tail, follower)) EXCEPT ![tail].next = fresh]
            /\ UNCHANGED head
    /\ tail' = fresh
    /\ size' = size + 1
    /\ want' = Append(want, v)
    /\ UNCHANGED <<double, alive>>

\* DLinkedList::addBack(const T&).
addBack(v) == addBackTo(v, Null) /\ UNCHANGED spoilt

\* DLinkedList::addBack(T&&), whose new node is followed by the head: a walk
\* goes round for ever.  As written, its Node calls std::forward() without a
\* type, so a compiler takes it only once somebody has mended that.
addBackMoved(v) ==
    /\ addBackTo(v, head)
    /\ spoilt' = IF size > 0 THEN spoilt \cup {"cycle"} ELSE spoilt

\* The head goes; the next node, or the tail, still points at it.
popHead ==
    /\ nodes' = Without(head)
    /\ head' = nodes[head].next
    /\ size' = size - 1
    /\ UNCHANGED <<double, tail, spoilt, alive>>

popFront == double /\ want # <<>> /\ popHead /\ want' = Tail(want)
pop == ~ double /\ want # <<>> /\ popHead /\ want' = Front(want)

\* The tail goes; whoever was in front of it still points at it.
popBack ==
    /\ double /\ want # <<>>
    /\ nodes' = Without(tail)
    /\ tail' = nodes[tail].prev
    /\ size' = size - 1
    /\ want' = Front(want)
    /\ spoilt' = spoilt \cup {"dangling"}
    /\ UNCHANGED <<double, head, alive>>

\* Going on with a copy, made by the constructor or by an assignment: new
\* nodes with both their pointers right.  An empty list that is assigned
\* leaves the tail as it was, at a node that is gone.
Copied(k, n) ==
    Node(Forward[k], IF double THEN k - 1 ELSE Null, IF k = n THEN Null ELSE k + 1)
copy ==
    LET n == Len(Chain)
    IN /\ nodes' = [k \in 1..n |-> Copied(k, n)]
       /\ head' = IF n = 0 THEN Null ELSE 1
       /\ IF double /\ n = 0 THEN tail' \in Addresses \cup {Null}
          ELSE tail' = IF double THEN n ELSE Null
       /\ UNCHANGED <<double, size, want, spoilt, alive>>

\* Going on with a list that was moved from.
movedFrom ==
    /\ nodes' = <<>> /\ head' = Null /\ tail' = Null /\ size' = 0
    /\ want' = <<>>
    /\ UNCHANGED <<double, spoilt, alive>>

\* Iterator::insert() and remove() follow the pointers of the node they are
\* at without a look at NULL, and leave the head, the tail and the size.
Behind(p) ==
    IF nodes[p].prev \in DOMAIN nodes /\ nodes[nodes[p].prev].next = p THEN {}
    ELSE {"strayWrite"}
Linked(p) == nodes[p].prev # Null
Relink(f, p, field, q) ==
    IF p \notin DOMAIN f THEN f
    ELSE IF field = "next" THEN [f EXCEPT ![p].next = q] ELSE [f EXCEPT ![p].prev = q]

insert(k, v) ==
    LET p == Chain[k]
        back == nodes[p].prev
        new == With(fresh, Node(v, back, p))
    IN /\ double
       /\ alive' = Linked(p)
       /\ nodes' = IF Linked(p)
                   THEN Relink(Relink(new, back, "next", fresh), p, "prev", fresh)
                   ELSE nodes
       /\ want' = IF Linked(p) THEN InsertAt(want, k, v) ELSE want
       /\ spoilt' = IF Linked(p) THEN spoilt \cup {"uncounted"} \cup Behind(p) ELSE spoilt
       /\ UNCHANGED <<double, head, tail, size>>

remove(k) ==
    LET p == Chain[k]
        back == nodes[p].prev
        ahead == nodes[p].next
        cut == Relink(nodes, back, "next", ahead)
    IN /\ double
       /\ alive' = (Linked(p) /\ ahead # Null)
       /\ nodes' = IF ~ Linked(p) THEN nodes
                   ELSE IF ahead = Null THEN cut
                   ELSE [q \in DOMAIN nodes \ {p} |-> Relink(cut, ahead, "prev", back)[q]]
       /\ want' = IF alive' THEN RemoveAt(want, k) ELSE want
       /\ spoilt' = IF alive' THEN spoilt \cup {"uncounted"} \cup Behind(p) ELSE spoilt
       /\ UNCHANGED <<double, head, tail, size>>

set(k, v) ==
    /\ double
    /\ nodes' = [nodes EXCEPT ![Chain[k]].data = v]
    /\ want' = [want EXCEPT ![k] = v]
    /\ UNCHANGED <<double, head, tail, size, spoilt, alive>>

Room == Len(want) < MaxElements

Next ==
    /\ alive /\ spoilt = {}
    /\ \/ \E v \in Elements : Room /\ (addFront(v) \/ push(v) \/ addBack(v) \/ addBackMoved(v))
       \/ popFront \/ pop \/ popBack
       \/ copy
       \/ movedFrom
       \/ \E v \in Elements, k \in DOMAIN Chain : (Room /\ insert(k, v)) \/ set(k, v)
       \/ \E k \in DOMAIN Chain : remove(k)

Spec == Init /\ [][Next]_vars

TypeOK ==
    /\ double \in BOOLEAN /\ alive \in BOOLEAN
    /\ DOMAIN nodes \subseteq Addresses
    /\ {head, tail} \subseteq Addresses \cup {Null}
    /\ size \in 0..MaxElements
    /\ want \in Seq(Elements)
    /\ spoilt \subseteq {"dangling", "cycle", "uncounted", "strayWrite"}

(* A list that is filled at either end and emptied at the front, copied or *)
(* moved, shows its elements in the order the callers asked for, counts    *)
(* them, has no other node and ends at its tail, whatever deleted nodes    *)
(* the pointers nobody follows still name.                                 *)
Held ==
    spoilt = {} /\ alive =>
        /\ Forward = IF double THEN want ELSE Reverse(want)
        /\ size = Len(want)
        /\ Range(Chain) = DOMAIN nodes
        /\ double /\ want # <<>> => tail = Last(Chain)
=============================================================================
