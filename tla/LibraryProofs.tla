---------------------------- MODULE LibraryProofs ----------------------------
(***************************************************************************)
(* The sequential parts keep what a program hands them, for every value of *)
(* Library's constants.  CollectionsProofs and StorageProofs have the      *)
(* invariant of each part, and the lemma that each of its calls keeps it.  *)
(* Here they are put together, as Library puts the parts together.         *)
(***************************************************************************)
EXTENDS Library, StorageProofs, CollectionsProofs

-----------------------------------------------------------------------------
(* All parts.                                                               *)

\* What a function is handed fits its bound.
InputInv == input \in Seq(Alphabet[part]) /\ Len(input) <= MaxInput[part]

\* The inductive invariant, whichever part the program uses.
PartsInv ==
  /\ part \in Parts
  /\ part = "List" => ListInv
  /\ part = "Deque" => DequeInv
  /\ part = "LinkedLists" => LinkInv
  /\ part = "HashMap" => HashInv
  /\ part = "StringBuffer" => StringInv
  /\ part = "Dates" => DatesInv
  /\ part = "RAFile" => RAFileInv
  /\ part = "Streams" => StreamsInv
  /\ part = "Sockets" => SocketsInv
  /\ part \in Functions => InputInv

\* A program starts with the invariant of the part it uses.
LEMMA PartsInit ==
  ASSUME Init  PROVE PartsInv
<1>1. ASSUME part = "List" PROVE ListInv
  <2>1. L!Init
    BY <1>1 DEF Init, Used
  <2> QED BY <2>1, ListInit
<1>2. ASSUME part = "Deque" PROVE DequeInv
  <2>1. D!Init
    BY <1>2 DEF Init, Used
  <2> QED BY <2>1, DequeInit
<1>3. ASSUME part = "LinkedLists" PROVE LinkInv
  <2>1. K!Init
    BY <1>3 DEF Init, Used
  <2> QED BY <2>1, LinkInit
<1>4. ASSUME part = "HashMap" PROVE HashInv
  <2>1. H!Init
    BY <1>4 DEF Init, Used
  <2> QED BY <2>1, HashInit
<1>5. ASSUME part = "StringBuffer" PROVE StringInv
  <2>1. B!Init
    BY <1>5 DEF Init, Used
  <2> QED BY <2>1, StringInit
<1>6. ASSUME part = "Dates" PROVE DatesInv
  <2>1. T!Init
    BY <1>6 DEF Init, Used
  <2> QED BY <2>1, DatesInit
<1>7. ASSUME part = "RAFile" PROVE RAFileInv
  <2>1. R!Init
    BY <1>7 DEF Init, Used
  <2> QED BY <2>1, RAFileInit
<1>8. ASSUME part = "Streams" PROVE StreamsInv
  <2>1. F!Init
    BY <1>8 DEF Init, Used
  <2> QED BY <2>1, StreamInit
<1>9. ASSUME part = "Sockets" PROVE SocketsInv
  <2>1. S!Init
    BY <1>9 DEF Init, Used
  <2> QED BY <2>1, SocketsInit
<1>10. ASSUME part \in Functions PROVE InputInv
  <2>1. input = <<>> /\ MaxInput[part] \in Nat
    BY <1>10, InputAssumption DEF Init, Used
  <2> QED BY <2>1 DEF InputInv
<1>11. part \in Parts
  BY DEF Init
<1> QED BY <1>1, <1>2, <1>3, <1>4, <1>5, <1>6, <1>7, <1>8, <1>9, <1>10, <1>11 DEF PartsInv

\* And keeps it: a step of Library is a step of the part that is used.
LEMMA PartsStep ==
  ASSUME PartsInv, [Next]_vars  PROVE PartsInv'
<1>1. CASE Next
  <2>1. part' = part
    BY <1>1 DEF Next
  <2>2. ASSUME part = "List" PROVE ListInv'
    <3>1. L!Next
      BY <1>1, <2>2 DEF Next, Used, Functions
    <3> QED BY <2>2, <3>1, ListStep DEF PartsInv
  <2>3. ASSUME part = "Deque" PROVE DequeInv'
    <3>1. D!Next
      BY <1>1, <2>3 DEF Next, Used, Functions
    <3> QED BY <2>3, <3>1, DequeStep DEF PartsInv
  <2>4. ASSUME part = "LinkedLists" PROVE LinkInv'
    <3>1. K!Next
      BY <1>1, <2>4 DEF Next, Used, Functions
    <3> QED BY <2>4, <3>1, LinkStep DEF PartsInv
  <2>5. ASSUME part = "HashMap" PROVE HashInv'
    <3>1. H!Next
      BY <1>1, <2>5 DEF Next, Used, Functions
    <3> QED BY <2>5, <3>1, HashStep DEF PartsInv
  <2>6. ASSUME part = "StringBuffer" PROVE StringInv'
    <3>1. B!Next
      BY <1>1, <2>6 DEF Next, Used, Functions
    <3> QED BY <2>6, <3>1, StringStep DEF PartsInv
  <2>7. ASSUME part = "Dates" PROVE DatesInv'
    <3>1. T!Next
      BY <1>1, <2>7 DEF Next, Used, Functions
    <3> QED BY <2>7, <3>1, DatesStep DEF PartsInv
  <2>8. ASSUME part = "RAFile" PROVE RAFileInv'
    <3>1. R!Next
      BY <1>1, <2>8 DEF Next, Used, Functions
    <3> QED BY <2>8, <3>1, RAFileStep DEF PartsInv
  <2>9. ASSUME part = "Streams" PROVE StreamsInv'
    <3>1. F!Next
      BY <1>1, <2>9 DEF Next, Used, Functions
    <3> QED BY <2>9, <3>1, StreamStep DEF PartsInv
  <2>10. ASSUME part = "Sockets" PROVE SocketsInv'
    <3>1. S!Next
      BY <1>1, <2>10 DEF Next, Used, Functions
    <3> QED BY <2>10, <3>1, SocketsStep DEF PartsInv
  <2>11. ASSUME part \in Functions PROVE InputInv'
    <3>1. Extend
      BY <1>1, <2>11 DEF Next, Used, Functions
    <3>2. PICK c \in Alphabet[part] : input' = Append(input, c)
      BY <3>1 DEF Extend
    <3>3. input \in Seq(Alphabet[part]) /\ Len(input) < MaxInput[part] /\ MaxInput[part] \in Nat
      BY <2>11, <3>1, InputAssumption DEF PartsInv, InputInv, Extend
    <3>4. input' \in Seq(Alphabet[part]) /\ Len(input') <= MaxInput[part]
      BY <3>2, <3>3
    <3> QED BY <2>1, <3>4 DEF InputInv
  <2> QED BY <2>1, <2>2, <2>3, <2>4, <2>5, <2>6, <2>7, <2>8, <2>9, <2>10, <2>11 DEF PartsInv
<1>2. CASE UNCHANGED vars
  <2>1. /\ UNCHANGED <<part, short, inner, slots, iter, want, spoilt, alive, input>>
        /\ UNCHANGED <<unix, file, handle, asked, pos, got, calls, str>>
        /\ UNCHANGED <<kernel, m_fd, m_family, streams, threw>>
        /\ UNCHANGED <<ring, head, tail, size, double, nodes>>
        /\ UNCHANGED <<table, m_size, date, last, steps, in, out, append>>
    BY <1>2 DEF vars
  <2>2. ASSUME part = "List" PROVE ListInv'
    BY <2>1, <2>2, ListStutter DEF PartsInv
  <2>3. ASSUME part = "Deque" PROVE DequeInv'
    BY <2>1, <2>3, DequeStutter DEF PartsInv
  <2>4. ASSUME part = "LinkedLists" PROVE LinkInv'
    BY <2>1, <2>4, LinkStutter DEF PartsInv
  <2>5. ASSUME part = "HashMap" PROVE HashInv'
    BY <2>1, <2>5, HashStutter DEF PartsInv
  <2>6. ASSUME part = "StringBuffer" PROVE StringInv'
    BY <2>1, <2>6, StringStutter DEF PartsInv
  <2>7. ASSUME part = "Dates" PROVE DatesInv'
    BY <2>1, <2>7, DatesStutter DEF PartsInv
  <2>8. ASSUME part = "RAFile" PROVE RAFileInv'
    BY <2>1, <2>8, RAFileStutter DEF PartsInv
  <2>9. ASSUME part = "Streams" PROVE StreamsInv'
    BY <2>1, <2>9, StreamStutter DEF PartsInv
  <2>10. ASSUME part = "Sockets" PROVE SocketsInv'
    BY <2>1, <2>10, SocketsStutter DEF PartsInv
  <2>11. ASSUME part \in Functions PROVE InputInv'
    BY <2>1, <2>11 DEF PartsInv, InputInv
  <2> QED BY <2>1, <2>2, <2>3, <2>4, <2>5, <2>6, <2>7, <2>8, <2>9, <2>10, <2>11 DEF PartsInv
<1> QED BY <1>1, <1>2

(* In every behaviour the part a program uses keeps its invariant: nodes   *)
(* are reached once, the ring, the table and the text are where the code   *)
(* looks for them, positions are in the file, days in the calendar.        *)
THEOREM PartsInvariance == Spec => []PartsInv
<1>1. Init => PartsInv
  BY PartsInit
<1>2. PartsInv /\ [Next]_vars => PartsInv'
  BY PartsStep
<1> QED BY <1>1, <1>2, PTL DEF Spec

\* The state of the part that is used has its type.
THEOREM LibraryTypeOK == Spec => []TypeOK
<1>1. ASSUME PartsInv PROVE TypeOK
  <2>1. ASSUME part = "List" PROVE TypeOK
    <3>1. L!TypeOK
      BY <1>1, <2>1, ListTyped DEF PartsInv
    <3> QED BY <2>1, <3>1 DEF TypeOK
  <2>2. ASSUME part = "Deque" PROVE TypeOK
    <3>1. D!TypeOK
      BY <1>1, <2>2, DequeTyped DEF PartsInv
    <3> QED BY <2>2, <3>1 DEF TypeOK
  <2>3. ASSUME part = "LinkedLists" PROVE TypeOK
    <3>1. K!TypeOK
      BY <1>1, <2>3, LinkTyped DEF PartsInv
    <3> QED BY <2>3, <3>1 DEF TypeOK
  <2>4. ASSUME part = "HashMap" PROVE TypeOK
    <3>1. H!TypeOK
      BY <1>1, <2>4, HashTyped DEF PartsInv
    <3> QED BY <2>4, <3>1 DEF TypeOK
  <2>5. ASSUME part = "StringBuffer" PROVE TypeOK
    <3>1. B!TypeOK
      BY <1>1, <2>5, StringTyped DEF PartsInv
    <3> QED BY <2>5, <3>1 DEF TypeOK
  <2>6. ASSUME part = "Dates" PROVE TypeOK
    <3>1. T!TypeOK
      BY <1>1, <2>6, DatesTyped DEF PartsInv
    <3> QED BY <2>6, <3>1 DEF TypeOK
  <2>7. ASSUME part = "RAFile" PROVE TypeOK
    <3>1. R!TypeOK
      BY <1>1, <2>7, RAFileTyped DEF PartsInv
    <3> QED BY <2>7, <3>1 DEF TypeOK
  <2>8. ASSUME part = "Streams" PROVE TypeOK
    <3>1. F!TypeOK
      BY <1>1, <2>8, StreamTyped DEF PartsInv
    <3> QED BY <2>8, <3>1 DEF TypeOK
  <2>9. ASSUME part = "Sockets" PROVE TypeOK
    <3>1. S!TypeOK
      BY <1>1, <2>9, SocketsTyped DEF PartsInv
    <3> QED BY <2>9, <3>1 DEF TypeOK
  <2>10. ASSUME part \in Functions PROVE TypeOK
    <3>1. InputInv
      BY <1>1, <2>10 DEF PartsInv
    <3> QED BY <2>10, <3>1 DEF TypeOK, InputInv, Functions
  <2> QED BY <1>1, <2>1, <2>2, <2>3, <2>4, <2>5, <2>6, <2>7, <2>8, <2>9, <2>10 DEF PartsInv, Parts
<1> QED BY <1>1, PartsInvariance, PTL

(* Until one of the calls that spoil it, in every order of calls: a list,  *)
(* a deque and both linked lists read as the elements put in, but for a    *)
(* copy that List(const List&) made and that says it is empty; a hash map  *)
(* holds every key's value and no other key, and a look at it comes back   *)
(* unless a chain begins with another key; a string is its text, a file    *)
(* is its bytes read and written at the position that counts, a stream     *)
(* gives the file's bytes and lines, a socket owns the descriptor it       *)
(* opened and no other object does, a date is the day it was moved to: the *)
(* code of src/inc/ge/data, String.cpp, RAFile.cpp, the streams,           *)
(* Socket.cpp and Date.cpp.                                                *)
THEOREM LibraryHeld == Spec => []Held
<1>1. ASSUME PartsInv PROVE Held
  <2>1. ASSUME part = "List" PROVE Held
    <3>1. L!Held
      BY <1>1, <2>1, ListHeld DEF PartsInv
    <3> QED BY <2>1, <3>1 DEF Held
  <2>2. ASSUME part = "Deque" PROVE Held
    <3>1. D!Held
      BY <1>1, <2>2, DequeHeld DEF PartsInv
    <3> QED BY <2>2, <3>1 DEF Held
  <2>3. ASSUME part = "LinkedLists" PROVE Held
    <3>1. K!Held
      BY <1>1, <2>3, LinkHeld DEF PartsInv
    <3> QED BY <2>3, <3>1 DEF Held
  <2>4. ASSUME part = "HashMap" PROVE Held
    <3>1. H!Held
      BY <1>1, <2>4, HashHeld DEF PartsInv
    <3> QED BY <2>4, <3>1 DEF Held
  <2>5. ASSUME part = "StringBuffer" PROVE Held
    <3>1. B!Held
      BY <1>1, <2>5, StringHeld DEF PartsInv
    <3> QED BY <2>5, <3>1 DEF Held
  <2>6. ASSUME part = "Dates" PROVE Held
    <3>1. T!Held
      BY <1>1, <2>6, DatesHeld DEF PartsInv
    <3> QED BY <2>6, <3>1 DEF Held
  <2>7. ASSUME part = "RAFile" PROVE Held
    <3>1. R!Held
      BY <1>1, <2>7, RAFileHeld DEF PartsInv
    <3> QED BY <2>7, <3>1 DEF Held
  <2>8. ASSUME part = "Streams" PROVE Held
    <3>1. F!Held
      BY <1>1, <2>8, StreamHeld DEF PartsInv
    <3> QED BY <2>8, <3>1 DEF Held
  <2>9. ASSUME part = "Sockets" PROVE Held
    <3>1. S!Held
      BY <1>1, <2>9, SocketsHeld DEF PartsInv
    <3> QED BY <2>9, <3>1 DEF Held
  <2>10. ASSUME part \in Functions PROVE Held
    BY <2>10 DEF Held, Functions
  <2> QED BY <1>1, <2>1, <2>2, <2>3, <2>4, <2>5, <2>6, <2>7, <2>8, <2>9, <2>10 DEF PartsInv, Parts
<1> QED BY <1>1, PartsInvariance, PTL
=============================================================================
