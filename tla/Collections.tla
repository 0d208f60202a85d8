----------------------------- MODULE Collections -----------------------------
(***************************************************************************)
(* The containers of the library (src/inc/ge/data).                        *)
(***************************************************************************)
EXTENDS Contents, Integers, Sequences

CONSTANTS
    Elements, Raw, MinSize, ShortCount, MaxElements,       \* List, Deque, LinkedLists
    Keys, Values, HashOf, InitialSize, MaxSize             \* HashMap

\* Buffers and tables have a size, a hash is an unsigned number, and storage
\* without an object is no element.
ASSUME CollectionsAssumption ==
    /\ MinSize \in Nat \ {0} /\ ShortCount \in Nat /\ MaxElements \in Nat
    /\ Raw \notin Elements
    /\ HashOf \in [Keys -> Nat] /\ InitialSize \in Nat \ {0} /\ MaxSize \in Nat

VARIABLES
    alive,
    short, inner, slots, iter,                             \* List
    ring, head, tail, size,                                \* Deque, LinkedLists
    double, nodes,                                         \* LinkedLists
    table, m_size                                          \* HashMap

L == INSTANCE List
D == INSTANCE Deque
K == INSTANCE LinkedLists
H == INSTANCE HashMap
=============================================================================
