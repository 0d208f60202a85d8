------------------------------- MODULE HashMap -------------------------------
(***************************************************************************)
(* HashMap<K, V, H> (src/inc/ge/data/HashMap.h): a table of chains.  A     *)
(* chain is the sequence of its <<key, value>> nodes.  The socket service  *)
(* for unix keeps its sockets in one.                                      *)
(*                                                                         *)
(* A bucket that was never written is Junk.  The code follows it wherever  *)
(* it looks at it, so the program ends there: "spoilt" says why.           *)
(***************************************************************************)
EXTENDS Integers, Sequences, FiniteSets, SequencesExt

CONSTANTS
    Keys, Values,
    HashOf,        \* m_hasher(key), a function of Keys
    InitialSize,   \* the first table of put() (16)
    MaxSize,       \* bound on m_size, which erase() never lowers
    Junk           \* an uninitialised bucket

VARIABLES
    table,    \* m_table: a sequence of chains, empty while it is NULL
    m_size,
    want,     \* the function from keys to values the callers asked for
    spoilt,   \* what went wrong: {} while every call can be trusted
    alive     \* FALSE once the code divided by zero, read NULL or hangs

vars == <<table, m_size, want, spoilt, alive>>

Index(k, n) == (HashOf[k] % n) + 1
KeysOf(chain) == {chain[i][1] : i \in DOMAIN chain}

\* HashMap() and HashMap(initialSize), whose buckets nobody writes.
Init ==
    /\ table \in {<<>>, <<Junk, Junk>>}
    /\ m_size = 0 /\ want = <<>> /\ alive = TRUE
    /\ spoilt = IF table = <<>> THEN {} ELSE {"junk"}

\* A node goes to the end of the chain its hash names.
Added(t, node) == [t EXCEPT ![Index(node[1], Len(t))] = Append(@, node)]

\* Every node, bucket by bucket, goes to its new chain.
MutRehashed(old, n) ==
    LET nodes == FlattenSeq(old)
        moved[i \in 0..Len(nodes)] ==
            IF i = 0 THEN [b \in 1..n |-> <<>>]
            ELSE [moved[i - 1] EXCEPT ![Index(nodes[i][1], Len(old))] = Append(@, nodes[i])]
    IN moved[Len(nodes)]
Rehashed(old, n) ==
    LET nodes == FlattenSeq(old)
        moved[i \in 0..Len(nodes)] ==
            IF i = 0 THEN [b \in 1..n |-> <<>>] ELSE Added(moved[i - 1], nodes[i])
    IN moved[Len(nodes)]

\* put() searches the whole chain, and grows a table that counts more than
\* three quarters of its buckets.
put(k, v) ==
    LET t == IF table = <<>> THEN Rehashed(<<>>, InitialSize) ELSE table
        at == Index(k, Len(t))
        grown == Added(t, <<k, v>>)
    IN /\ m_size < MaxSize
       /\ IF k \in KeysOf(t[at])
          THEN /\ table' = [t EXCEPT ![at] =
                               [i \in DOMAIN @ |-> IF @[i][1] = k THEN <<k, v>> ELSE @[i]]]
               /\ UNCHANGED m_size
          ELSE /\ m_size' = m_size + 1
               /\ table' = IF m_size + 1 > Len(t) \div 2 + Len(t) \div 4
                           THEN Rehashed(grown, 2 * Len(t)) ELSE grown
       /\ want' = [q \in DOMAIN want \cup {k} |-> IF q = k THEN v ELSE want[q]]
       /\ UNCHANGED <<spoilt, alive>>

\* get() looks at the first node of a chain only: on any other it stays.
Chain(k) == table[Index(k, Len(table))]
Found(k) == Chain(k) # <<>> /\ Head(Chain(k))[1] = k
Endless(k) == Chain(k) # <<>> /\ ~ Found(k)
get(k) ==
    /\ alive' = (table # <<>> /\ ~ Endless(k))
    /\ UNCHANGED <<table, m_size, want, spoilt>>

\* erase() of what get() found, or of where an iterator is: the count stays.
erase(b, i) ==
    /\ table' = [table EXCEPT ![b] = RemoveAt(@, i)]
    /\ want' = [q \in DOMAIN want \ {table[b][i][1]} |-> want[q]]
    /\ UNCHANGED <<m_size, spoilt, alive>>

\* A walk over all nodes ends with a look at the bucket past the table, and
\* begins with one at the first bucket, of NULL when there is no table.
Iterated == FlattenSeq(table)
iterate ==
    /\ alive' = (table # <<>>)
    /\ spoilt' = IF table # <<>> THEN spoilt \cup {"readPastEnd"} ELSE spoilt
    /\ UNCHANGED <<table, m_size, want>>

clear ==
    /\ table' = <<>> /\ m_size' = 0 /\ want' = <<>>
    /\ UNCHANGED <<spoilt, alive>>

\* Going on with a copy, by constructor or assignment: the buckets of empty
\* chains are never written.
copy ==
    /\ table' = [b \in DOMAIN table |-> IF table[b] = <<>> THEN Junk ELSE table[b]]
    /\ spoilt' = IF \E b \in DOMAIN table : table[b] = <<>>
                 THEN spoilt \cup {"junk"} ELSE spoilt
    /\ UNCHANGED <<m_size, want, alive>>

\* Going on with a map that was moved from.
movedFrom == clear

Next ==
    /\ alive /\ spoilt = {}
    /\ \/ \E k \in Keys, v \in Values : put(k, v)
       \/ \E k \in Keys : get(k)
       \/ \E b \in DOMAIN table : \E i \in DOMAIN table[b] : erase(b, i)
       \/ iterate
       \/ clear \/ movedFrom
       \/ copy

Spec == Init /\ [][Next]_vars

TypeOK ==
    /\ IsFiniteSet(DOMAIN want) /\ DOMAIN want \subseteq Keys
    /\ \A b \in DOMAIN table :
           table[b] # Junk => table[b] \in Seq(Keys \X Values)
    /\ m_size \in Nat /\ alive \in BOOLEAN
    /\ spoilt \subseteq {"junk", "readPastEnd"}

(* Through growth, overwriting and erasing, every key has one node, in the *)
(* chain its hash names, with the last value put; the count never falls    *)
(* below the nodes, and the table is at most three quarters full by it.    *)
(* A look at the map comes back unless there is no table or a chain begins *)
(* with another key: that is how far the get() of the code can be trusted. *)
Held ==
    /\ alive \/ table = <<>> \/ \E k \in Keys : Endless(k)
    /\ spoilt = {} =>
           /\ {<<q, want[q]>> : q \in DOMAIN want} = Range(Iterated)
           /\ Len(Iterated) = Cardinality(DOMAIN want)
           /\ \A b \in DOMAIN table : \A i \in DOMAIN table[b] :
                  Index(table[b][i][1], Len(table)) = b
           /\ Len(Iterated) <= m_size /\ 4 * m_size <= 3 * Len(table)
=============================================================================
