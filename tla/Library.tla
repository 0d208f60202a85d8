------------------------------- MODULE Library -------------------------------
(***************************************************************************)
(* The sequential parts of the library, one program at a time: a program   *)
(* uses one of the Parts, and the others are Blank.  The parts with state  *)
(* are the modules named like them; of those without, the program is the   *)
(* input it builds up character by character and hands to every function.  *)
(***************************************************************************)
EXTENDS Storage, Collections

CONSTANTS
    Brute, Block, Align, Bits, ByteMax, Wide,
    Byte, HexRadix, Groups,                                \* the functions
    Alphabet, MaxInput                                     \* per part with an input

VARIABLES
    part,
    input                                                  \* the functions

Search == INSTANCE StringSearch
Unicode == INSTANCE UnicodeUtil
Number == INSTANCE Numbers
INet == INSTANCE INetUtil
Text == INSTANCE Escaping

Functions == {"StringSearch", "UnicodeUtil", "Numbers", "INetUtil", "HttpUtil",
              "CommandLine"}
Parts == {"List", "Deque", "LinkedLists", "HashMap", "StringBuffer", "Dates",
          "RAFile", "Streams", "Sockets"} \cup Functions
Blank == {}
Used(users) == part \in users

-----------------------------------------------------------------------------

\* What a function is handed has a bound.
ASSUME InputAssumption == \A f \in Functions : MaxInput[f] \in Nat

-----------------------------------------------------------------------------

\* A part starts as its module says; what no used part has is Blank.
Init ==
    /\ part \in Parts
    /\ IF Used({"List"}) THEN L!Init
       ELSE short = Blank /\ inner = Blank /\ slots = Blank /\ iter = Blank
    /\ IF Used({"Deque"}) THEN D!Init ELSE ring = Blank
    /\ IF Used({"LinkedLists"}) THEN K!Init ELSE double = Blank /\ nodes = Blank
    /\ IF Used({"HashMap"}) THEN H!Init ELSE table = Blank /\ m_size = Blank
    /\ IF Used({"StringBuffer"}) THEN B!Init ELSE str = Blank
    /\ IF Used({"Dates"}) THEN T!Init ELSE date = Blank /\ last = Blank /\ steps = Blank
    /\ IF Used({"RAFile"}) THEN R!Init ELSE handle = Blank /\ asked = Blank /\ pos = Blank
    /\ IF Used({"Streams"}) THEN F!Init ELSE in = Blank /\ out = Blank /\ append = Blank
    /\ IF Used({"Sockets"}) THEN S!Init
       ELSE kernel = Blank /\ m_fd = Blank /\ m_family = Blank /\ streams = Blank /\ threw = Blank
    /\ IF Used(Functions) THEN input = <<>> ELSE input = Blank
    /\ IF Used({"Deque", "LinkedLists"}) THEN TRUE
       ELSE head = Blank /\ tail = Blank /\ size = Blank
    /\ IF Used({"RAFile", "Streams"}) THEN TRUE ELSE file = Blank /\ got = Blank /\ calls = Blank
    /\ IF Used({"RAFile", "Streams", "Sockets"}) THEN TRUE ELSE unix = Blank
    /\ IF Used({"List", "LinkedLists", "HashMap"}) THEN TRUE ELSE alive = Blank
    /\ IF Used(Functions \cup {"Dates", "Sockets"}) THEN want = Blank ELSE TRUE
    /\ IF Used(Functions) THEN spoilt = Blank ELSE TRUE

\* One more character for a function.
Extend ==
    /\ Len(input) < MaxInput[part]
    /\ \E c \in Alphabet[part] : input' = Append(input, c)

\* A step of the part that is used changes nothing of the others.
Kept(users, variables) == IF Used(users) THEN TRUE ELSE UNCHANGED variables
Next ==
    /\ UNCHANGED part
    /\ \/ Used({"List"}) /\ L!Next
       \/ Used({"Deque"}) /\ D!Next
       \/ Used({"LinkedLists"}) /\ K!Next
       \/ Used({"HashMap"}) /\ H!Next
       \/ Used({"StringBuffer"}) /\ B!Next
       \/ Used({"Dates"}) /\ T!Next
       \/ Used({"RAFile"}) /\ R!Next
       \/ Used({"Streams"}) /\ F!Next
       \/ Used({"Sockets"}) /\ S!Next
       \/ Used(Functions) /\ Extend
    /\ Kept({"List"}, <<short, inner, slots, iter>>)
    /\ Kept({"Deque"}, ring)
    /\ Kept({"LinkedLists"}, <<double, nodes>>)
    /\ Kept({"HashMap"}, <<table, m_size>>)
    /\ Kept({"StringBuffer"}, str)
    /\ Kept({"Dates"}, <<date, last, steps>>)
    /\ Kept({"RAFile"}, <<handle, asked, pos>>)
    /\ Kept({"Streams"}, <<in, out, append>>)
    /\ Kept({"Sockets"}, <<kernel, m_fd, m_family, streams, threw>>)
    /\ Kept(Functions, input)
    /\ Kept({"Deque", "LinkedLists"}, <<head, tail, size>>)
    /\ Kept({"RAFile", "Streams"}, <<file, got, calls>>)
    /\ Kept({"RAFile", "Streams", "Sockets"}, unix)
    /\ Kept({"List", "LinkedLists", "HashMap"}, alive)
    /\ Kept(Parts \ (Functions \cup {"Dates", "Sockets"}), want)
    /\ Kept(Parts \ Functions, spoilt)

vars == <<part, want, spoilt, alive, short, inner, slots, iter, ring, head, tail,
          size, double, nodes, table, m_size, str, date, last, steps, unix, file,
          got, calls, handle, asked, pos, in, out, append, kernel, m_fd, m_family,
          streams, threw, input>>

Spec == Init /\ [][Next]_vars

-----------------------------------------------------------------------------

\* The part that is used has its type; see the modules.
TypeOK ==
    CASE part = "List" -> L!TypeOK
      [] part = "Deque" -> D!TypeOK
      [] part = "LinkedLists" -> K!TypeOK
      [] part = "HashMap" -> H!TypeOK
      [] part = "StringBuffer" -> B!TypeOK
      [] part = "Dates" -> T!TypeOK
      [] part = "RAFile" -> R!TypeOK
      [] part = "Streams" -> F!TypeOK
      [] part = "Sockets" -> S!TypeOK
      [] OTHER -> input \in Seq(Alphabet[part]) /\ Len(input) <= MaxInput[part]

(* Until a call spoils it, a part holds what its callers put in: the       *)
(* containers and strings their contents, the files their bytes and the    *)
(* place in them, the sockets their descriptors, a date the day it was     *)
(* moved to.  What the calls that spoil are, and what holds even then, is  *)
(* said at each module's Held.                                             *)
Held ==
    CASE part = "List" -> L!Held
      [] part = "Deque" -> D!Held
      [] part = "LinkedLists" -> K!Held
      [] part = "HashMap" -> H!Held
      [] part = "StringBuffer" -> B!Held
      [] part = "Dates" -> T!Held
      [] part = "RAFile" -> R!Held
      [] part = "Streams" -> F!Held
      [] part = "Sockets" -> S!Held
      [] OTHER -> TRUE

=============================================================================
