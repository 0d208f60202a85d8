-------------------------- MODULE CollectionsProofs --------------------------
(***************************************************************************)
(* Proofs about the containers for every value of the constants: for each  *)
(* of them an invariant that says more than its Held, and that each of its *)
(* calls keeps it.                                                         *)
(***************************************************************************)
EXTENDS Collections, FiniteSetTheorems, WellFoundedInduction, SequenceTheorems, TLAPS

-----------------------------------------------------------------------------
(* List.                                                                    *)

Cells == Elements \cup {Raw}

\* Held, said slot by slot: the counted slots hold what was put in, and the
\* others nothing.
ListWhole ==
  /\ Len(want) = iter
  /\ \A i \in 1..Len(slots) : slots[i] = IF i <= iter THEN want[i] ELSE Raw
ListPrefix ==
  /\ Len(want) <= iter
  /\ \A i \in 1..Len(want) : slots[i] = want[i]

ListInv ==
  /\ L!TypeOK
  /\ spoilt = {} => ListWhole
  /\ ListPrefix \/ "forgotten" \in spoilt \/ "aliased" \in spoilt

\* A function of the first n numbers is a sequence of length n.
LEMMA FirstPlaces ==
  ASSUME NEW T0, NEW n \in Nat, NEW f \in [1..n -> T0]
  PROVE  f \in Seq(T0) /\ Len(f) = n /\ DOMAIN f = 1..n
OBVIOUS

\* The list reads as its elements.
LEMMA ListHeld ==
  ASSUME ListInv  PROVE L!Held
<1>1. /\ slots \in Seq(Cells) /\ want \in Seq(Elements)
      /\ iter \in 0..Len(slots) /\ Raw \notin Elements
  BY CollectionsAssumption DEF ListInv, L!TypeOK, Cells
<1>2. Len(slots) \in Nat /\ Len(want) \in Nat /\ DOMAIN slots = 1..Len(slots)
  BY <1>1, LenProperties
<1>3. \A i \in 1..Len(want) : want[i] \in Elements
  BY <1>1, ElementOfSeq
<1>4. /\ L!Contents \in Seq(Cells) /\ Len(L!Contents) = iter
      /\ \A i \in 1..iter : L!Contents[i] = slots[i]
  <2>1. \A i \in 1..iter : slots[i] \in Cells
    BY <1>1, <1>2, ElementOfSeq
  <2> QED BY <1>1, <1>2, <2>1, SubSeqProperties DEF L!Contents
<1>5. ASSUME spoilt = {} PROVE L!Contents = want /\ L!Live = 1..iter
  <2>1. ListWhole
    BY <1>5 DEF ListInv
  <2>2. want \in Seq(Cells)
    BY <1>1, SeqMonotonic DEF Cells
  <2>3. L!Contents = want
    BY <1>1, <1>2, <1>4, <2>1, <2>2, SeqEqual DEF ListWhole
  <2>4. L!Live = 1..iter
    BY <1>1, <1>2, <1>3, <2>1 DEF ListWhole, L!Live
  <2> QED BY <2>3, <2>4
<1>6. ASSUME ListPrefix PROVE L!IsPrefix(want, L!Contents)
  <2>1. /\ SubSeq(want, 1, Len(want)) \in Seq(Cells)
        /\ Len(SubSeq(want, 1, Len(want))) = Len(want)
        /\ \A i \in 1..Len(want) : SubSeq(want, 1, Len(want))[i] = want[i]
    BY <1>2, <1>3, SubSeqProperties DEF Cells
  <2>2. \A i \in 1..Len(want) : L!Contents[i] \in Cells
    BY <1>3, <1>4, <1>6, <1>2 DEF ListPrefix, Cells
  <2>3. /\ SubSeq(L!Contents, 1, Len(want)) \in Seq(Cells)
        /\ Len(SubSeq(L!Contents, 1, Len(want))) = Len(want)
        /\ \A i \in 1..Len(want) : SubSeq(L!Contents, 1, Len(want))[i] = L!Contents[i]
    BY <1>2, <2>2, SubSeqProperties
  <2>4. \A i \in 1..Len(want) : L!Contents[i] = want[i]
    BY <1>1, <1>2, <1>4, <1>6 DEF ListPrefix
  <2>5. SubSeq(want, 1, Len(want)) = SubSeq(L!Contents, 1, Len(want))
    BY <2>1, <2>3, <2>4, SeqEqual
  <2> QED BY <1>4, <1>6, <2>5 DEF L!IsPrefix, ListPrefix
<1> QED BY <1>5, <1>6 DEF ListInv, L!Held

\* What is to be said of a step: the buffer has n slots then, and if it is not
\* spoilt the counted ones hold what the callers want.
LEMMA ListBecomes ==
  ASSUME short' \in BOOLEAN, inner' \in BOOLEAN, alive' \in BOOLEAN,
         NEW n \in Nat, slots' \in [1..n -> Cells], iter' \in 0..n,
         want' \in Seq(Elements), Len(want') <= MaxElements,
         \/ "aliased" \in spoilt' \/ "forgotten" \in spoilt'
         \/ /\ Len(want') <= iter' /\ \A i \in 1..Len(want') : slots'[i] = want'[i]
            /\ spoilt' = {} => /\ Len(want') = iter'
                               /\ \A i \in 1..n : i > iter' => slots'[i] = Raw
  PROVE  ListInv'
<1>1. slots' \in Seq(Cells) /\ Len(slots') = n /\ Len(want') \in Nat
  BY FirstPlaces, LenProperties
<1> QED BY <1>1 DEF ListInv, ListWhole, ListPrefix, L!TypeOK, Cells

\* A new list has the invariant, whichever buffer it starts with.
LEMMA ListInit ==
  ASSUME L!Init  PROVE ListInv
<1>1. PICK n \in 0..MaxElements :
        /\ inner = (short /\ n <= ShortCount)
        /\ slots = [i \in 1..(IF inner THEN ShortCount ELSE n) |-> Raw]
  BY DEF L!Init
<1> DEFINE cells == IF inner THEN ShortCount ELSE n
<1>2. cells \in Nat /\ slots \in [1..cells -> Cells]
  BY <1>1, CollectionsAssumption DEF Cells
<1>3. slots \in Seq(Cells) /\ Len(slots) = cells
  BY <1>2, FirstPlaces
<1>4. want = <<>> /\ iter = 0 /\ spoilt = {} /\ alive = TRUE /\ short \in BOOLEAN /\ inner \in BOOLEAN
  BY <1>1 DEF L!Init
<1>5. want \in Seq(Elements) /\ Len(want) = 0
  BY <1>4, EmptySeq
<1>6. \A i \in 1..cells : slots[i] = Raw
  BY <1>1
<1> HIDE DEF cells
<1> QED BY <1>2, <1>3, <1>4, <1>5, <1>6, CollectionsAssumption DEF ListInv, ListWhole, ListPrefix, L!TypeOK, Cells

\* What is known where a step begins.
LEMMA ListHere ==
  ASSUME ListInv, spoilt = {}
  PROVE  /\ Len(slots) \in Nat /\ DOMAIN slots = 1..Len(slots) /\ slots \in [1..Len(slots) -> Cells]
         /\ iter \in 0..Len(slots) /\ iter <= MaxElements
         /\ want \in Seq(Elements) /\ want \in [1..iter -> Elements] /\ Len(want) = iter
         /\ short \in BOOLEAN /\ inner \in BOOLEAN /\ alive \in BOOLEAN
         /\ \A i \in 1..iter : slots[i] = want[i]
         /\ \A i \in 1..Len(slots) : i > iter => slots[i] = Raw
         /\ ListWhole
<1>1. slots \in Seq(Cells) /\ want \in Seq(Elements) /\ ListWhole
  BY DEF ListInv, L!TypeOK, Cells
<1>2. /\ Len(slots) \in Nat /\ DOMAIN slots = 1..Len(slots) /\ slots \in [1..Len(slots) -> Cells]
      /\ want \in [1..Len(want) -> Elements] /\ Len(want) \in Nat
  BY <1>1, LenProperties
<1> QED BY <1>1, <1>2 DEF ListInv, ListWhole, L!TypeOK

RoomLen(n) == IF n <= Len(slots) THEN Len(slots) ELSE n

\* The buffer after reserve(n) has room for n, holds the same, and nothing
\* behind it -- unless the elements were copied onto themselves.
LEMMA ListRoom ==
  ASSUME ListInv, spoilt = {}, NEW n \in Nat
  PROVE  /\ L!Reserved(n) \in [1..RoomLen(n) -> Cells]
         /\ Len(L!Reserved(n)) = RoomLen(n) /\ DOMAIN L!Reserved(n) = 1..RoomLen(n)
         /\ RoomLen(n) \in Nat /\ iter <= RoomLen(n) /\ n <= RoomLen(n)
         /\ \A i \in 1..RoomLen(n) : i > iter => L!Reserved(n)[i] = Raw
         /\ "aliased" \in L!Harm(n) \/ \A i \in 1..iter : L!Reserved(n)[i] = want[i]
<1>1. RoomLen(n) \in Nat /\ iter <= RoomLen(n) /\ n <= RoomLen(n)
  BY ListHere DEF RoomLen
<1>2. L!Reserved(n) \in [1..RoomLen(n) -> Cells]
  <2>1. CASE n <= Len(slots)
    BY <2>1, ListHere DEF RoomLen, L!Reserved
  <2>2. CASE ~ (n <= Len(slots))
    <3>1. \A i \in 1..n : (IF i <= iter /\ ~ L!Aliased(n) THEN slots[i] ELSE Raw) \in Cells
      BY <2>2, ListHere DEF Cells
    <3> QED BY <2>2, <3>1 DEF RoomLen, L!Reserved
  <2> QED BY <2>1, <2>2
<1>3. Len(L!Reserved(n)) = RoomLen(n) /\ DOMAIN L!Reserved(n) = 1..RoomLen(n)
  BY <1>1, <1>2, FirstPlaces
<1>4. \A i \in 1..RoomLen(n) : i > iter => L!Reserved(n)[i] = Raw
  BY ListHere DEF RoomLen, L!Reserved
<1>5. CASE L!Aliased(n) /\ iter > 0
  BY <1>1, <1>2, <1>3, <1>4, <1>5 DEF L!Harm
<1>6. CASE ~ (L!Aliased(n) /\ iter > 0)
  <2>1. \A i \in 1..iter : L!Reserved(n)[i] = want[i]
    BY <1>1, <1>6, ListHere DEF RoomLen, L!Reserved
  <2> QED BY <1>1, <1>2, <1>3, <1>4, <2>1
<1> QED BY <1>5, <1>6

\* Which buffer an element is placed in is known.
LEMMA ListPlaced ==
  ASSUME ListInv, spoilt = {}, NEW n, L!Placed(n)
  PROVE  short' \in BOOLEAN /\ inner' \in BOOLEAN /\ alive' \in BOOLEAN
BY ListHere DEF L!Placed, L!InnerFor

\* One more element always has room behind the last one.
LEMMA ListGrows ==
  ASSUME ListInv, spoilt = {}
  PROVE  /\ L!Doubled \in Nat /\ L!Doubled > Len(slots) /\ L!ForOneMore \in Nat
         /\ iter < RoomLen(L!ForOneMore)
BY ListHere, CollectionsAssumption DEF L!ForOneMore, L!Doubled, L!Larger, RoomLen

\* addBack() keeps the invariant.
LEMMA ListAddBack ==
  ASSUME ListInv, spoilt = {}, NEW v \in Elements, L!Fits(1), L!addBack(v)
  PROVE  ListInv'
<1>1. PICK n \in Nat : n = L!ForOneMore /\ iter < RoomLen(n)
  BY ListGrows
<1>2. PICK cells \in Nat : cells = RoomLen(n)
  BY <1>1, ListRoom
<1>3. PICK room \in [1..cells -> Cells] : room = L!Reserved(n)
  BY <1>2, ListRoom
<1>4. /\ iter < cells
      /\ \A i \in 1..cells : i > iter => room[i] = Raw
      /\ "aliased" \in L!Harm(n) \/ \A i \in 1..iter : room[i] = want[i]
  BY <1>1, <1>2, <1>3, ListRoom
<1>5. /\ slots' = [room EXCEPT ![iter + 1] = v] /\ iter' = iter + 1
      /\ want' = Append(want, v) /\ L!Placed(n) /\ L!Harm(n) \subseteq spoilt'
  BY <1>1, <1>3 DEF L!addBack
<1>6. /\ want' \in Seq(Elements) /\ Len(want') = iter + 1
      /\ \A i \in 1..iter : want'[i] = want[i]
      /\ want'[iter + 1] = v
  BY <1>5, ListHere, AppendProperties
<1>7. iter + 1 <= MaxElements
  BY ListHere DEF L!Fits
<1>8. slots' \in [1..cells -> Cells] /\ iter' \in 0..cells
  BY <1>4, <1>5, ListHere DEF Cells
<1>9. \A i \in 1..cells : slots'[i] = IF i = iter + 1 THEN v ELSE room[i]
  BY <1>5
<1>10. short' \in BOOLEAN /\ inner' \in BOOLEAN /\ alive' \in BOOLEAN
  BY <1>5, ListPlaced
<1>11. \A i \in 1..cells : i > iter' => slots'[i] = Raw
  BY <1>4, <1>5, <1>9, ListHere
<1>12. "aliased" \in spoilt' \/ \A i \in 1..Len(want') : slots'[i] = want'[i]
  BY <1>4, <1>5, <1>6, <1>9, ListHere
<1> QED BY <1>5, <1>6, <1>7, <1>8, <1>10, <1>11, <1>12, ListBecomes

\* A sequence with one element more.
LEMMA Inserted ==
  ASSUME NEW T0, NEW s0 \in Seq(T0), NEW k \in 1..Len(s0), NEW e \in T0
  PROVE  /\ L!InsertAt(s0, k, e) \in Seq(T0) /\ Len(L!InsertAt(s0, k, e)) = Len(s0) + 1
         /\ \A i \in 1..(Len(s0) + 1) :
              L!InsertAt(s0, k, e)[i] = IF i < k THEN s0[i] ELSE IF i = k THEN e ELSE s0[i - 1]
<1>1. Len(s0) \in Nat /\ \A i \in 1..Len(s0) : s0[i] \in T0
  BY LenProperties, ElementOfSeq
<1>2. PICK a : a = SubSeq(s0, 1, k - 1)
  OBVIOUS
<1>3. PICK b : b = SubSeq(s0, k, Len(s0))
  OBVIOUS
<1>4. PICK one : one = <<e>>
  OBVIOUS
<1>5. PICK ab : ab = a \o one
  OBVIOUS
<1>6. a \in Seq(T0) /\ Len(a) = k - 1 /\ \A i \in 1..(k - 1) : a[i] = s0[i]
  BY <1>1, <1>2, SubSeqProperties
<1>7. b \in Seq(T0) /\ Len(b) = Len(s0) - k + 1 /\ \A i \in 1..(Len(s0) - k + 1) : b[i] = s0[k + i - 1]
  BY <1>1, <1>3, SubSeqProperties
<1>8. one \in Seq(T0) /\ Len(one) = 1 /\ one[1] = e
  BY <1>4
<1>9. ab \in Seq(T0) /\ Len(ab) = k /\ \A i \in 1..k : ab[i] = IF i < k THEN s0[i] ELSE e
  <2>1. /\ a \o one \in Seq(T0) /\ Len(a \o one) = Len(a) + Len(one)
        /\ \A i \in 1..(Len(a) + Len(one)) : (a \o one)[i] = IF i <= Len(a) THEN a[i] ELSE one[i - Len(a)]
    BY <1>6, <1>8, ConcatProperties
  <2> QED BY <1>1, <1>5, <1>6, <1>8, <2>1
<1>10. L!InsertAt(s0, k, e) = ab \o b
  BY <1>2, <1>3, <1>4, <1>5 DEF L!InsertAt
<1>11. PICK n \in Nat : n = Len(s0) - k + 1
  BY <1>1
<1>12. /\ ab \o b \in Seq(T0) /\ Len(ab \o b) = k + n
       /\ \A i \in 1..(k + n) : (ab \o b)[i] = IF i <= k THEN ab[i] ELSE b[i - k]
  <2>1. /\ ab \o b \in Seq(T0) /\ Len(ab \o b) = Len(ab) + Len(b)
        /\ \A i \in 1..(Len(ab) + Len(b)) : (ab \o b)[i] = IF i <= Len(ab) THEN ab[i] ELSE b[i - Len(ab)]
    BY <1>7, <1>9, ConcatProperties
  <2> QED BY <1>7, <1>9, <1>11, <2>1
<1>13. k + n = Len(s0) + 1
  BY <1>1, <1>11
<1>14. ASSUME NEW i \in 1..(Len(s0) + 1)
       PROVE  (ab \o b)[i] = IF i < k THEN s0[i] ELSE IF i = k THEN e ELSE s0[i - 1]
  <2>1. CASE i <= k
    BY <1>9, <1>12, <1>13, <2>1
  <2>2. CASE ~ (i <= k)
    <3>1. (ab \o b)[i] = b[i - k] /\ i - k \in 1..n
      BY <1>1, <1>12, <1>13, <2>2
    <3>2. b[i - k] = s0[k + (i - k) - 1]
      BY <1>7, <1>11, <3>1
    <3> QED BY <1>1, <2>2, <3>1, <3>2
  <2> QED BY <1>1, <2>1, <2>2
<1> QED BY <1>10, <1>12, <1>13, <1>14

\* insert() keeps the invariant.
LEMMA ListInsert ==
  ASSUME ListInv, spoilt = {}, NEW v \in Elements, NEW index \in 1..iter, L!Fits(1), L!insert(index, v)
  PROVE  ListInv'
<1>1. PICK n \in Nat : n = L!ForOneMore /\ iter < RoomLen(n)
  BY ListGrows
<1>2. PICK cells \in Nat : cells = RoomLen(n)
  BY <1>1, ListRoom
<1>3. PICK room \in [1..cells -> Cells] : room = L!Reserved(n)
  BY <1>2, ListRoom
<1>4. /\ iter < cells
      /\ \A i \in 1..cells : i > iter => room[i] = Raw
      /\ "aliased" \in L!Harm(n) \/ \A i \in 1..iter : room[i] = want[i]
  BY <1>1, <1>2, <1>3, ListRoom
<1> DEFINE more == [room EXCEPT ![iter + 1] = v]
<1>5. /\ slots' = [i \in DOMAIN more |-> IF i = index THEN v
                      ELSE IF i > index /\ i <= iter + 1 THEN more[i - 1] ELSE more[i]]
      /\ iter' = iter + 1
      /\ want' = L!InsertAt(want, index, v) /\ L!Placed(n) /\ L!Harm(n) \subseteq spoilt'
  BY <1>1, <1>3 DEF L!insert
<1>6. /\ want' \in Seq(Elements) /\ Len(want') = iter + 1
      /\ \A i \in 1..(iter + 1) : want'[i] = IF i < index THEN want[i] ELSE IF i = index THEN v ELSE want[i - 1]
  <2>1. index \in 1..Len(want) /\ want \in Seq(Elements)
    BY ListHere
  <2>2. /\ L!InsertAt(want, index, v) \in Seq(Elements) /\ Len(L!InsertAt(want, index, v)) = Len(want) + 1
        /\ \A i \in 1..(Len(want) + 1) : L!InsertAt(want, index, v)[i] =
             IF i < index THEN want[i] ELSE IF i = index THEN v ELSE want[i - 1]
    BY <2>1, Inserted
  <2>3. Len(want) = iter /\ want' = L!InsertAt(want, index, v)
    BY <1>5, ListHere
  <2> QED BY <2>2, <2>3
<1>7. iter + 1 <= MaxElements
  BY ListHere DEF L!Fits
<1>8. more \in [1..cells -> Cells] /\ \A i \in 1..cells : more[i] = IF i = iter + 1 THEN v ELSE room[i]
  BY ListHere DEF Cells
<1> HIDE DEF more
<1>9. \A i \in 1..cells : slots'[i] = IF i = index THEN v
                      ELSE IF i > index /\ i <= iter + 1 THEN more[i - 1] ELSE more[i]
  BY <1>5, <1>8
<1>10. slots' \in [1..cells -> Cells] /\ iter' \in 0..cells
  <2>1. ASSUME NEW i \in 1..cells
        PROVE  (IF i = index THEN v
                ELSE IF i > index /\ i <= iter + 1 THEN more[i - 1] ELSE more[i]) \in Cells
    <3>1. i > index => i - 1 \in 1..cells
      BY ListHere
    <3> QED BY <1>8, <3>1 DEF Cells
  <2> QED BY <1>4, <1>5, <1>8, <2>1, ListHere
<1>11. short' \in BOOLEAN /\ inner' \in BOOLEAN /\ alive' \in BOOLEAN
  BY <1>5, ListPlaced
<1>12. \A i \in 1..cells : i > iter' => slots'[i] = Raw
  <2>1. ASSUME NEW i \in 1..cells, i > iter + 1 PROVE slots'[i] = Raw
    <3>1. i > iter /\ i # index /\ ~ (i <= iter + 1) /\ i # iter + 1
      BY <2>1, ListHere
    <3>2. slots'[i] = room[i]
      BY <1>8, <1>9, <3>1
    <3> QED BY <1>4, <3>1, <3>2
  <2> QED BY <1>5, <2>1
<1>13. "aliased" \in spoilt' \/ \A i \in 1..Len(want') : slots'[i] = want'[i]
  <2>1. CASE "aliased" \in L!Harm(n)
    BY <1>5, <2>1
  <2>2. CASE \A i \in 1..iter : room[i] = want[i]
    <3>1. ASSUME NEW i \in 1..(iter + 1) PROVE slots'[i] = want'[i]
      <4>1. i \in 1..cells /\ (i > index => i - 1 \in 1..cells /\ i - 1 \in 1..iter) /\ iter \in Nat
        BY <1>4, ListHere
      <4>2. slots'[i] = IF i = index THEN v ELSE IF i > index THEN room[i - 1] ELSE room[i]
        BY <1>8, <1>9, <4>1
      <4>3. i < index => i \in 1..iter
        BY <4>1
      <4>4. want'[i] = IF i < index THEN want[i] ELSE IF i = index THEN v ELSE want[i - 1]
        BY <1>6
      <4>5. CASE i < index
        BY <2>2, <4>2, <4>3, <4>4, <4>5
      <4>6. CASE i > index
        BY <2>2, <4>1, <4>2, <4>4, <4>6
      <4> QED BY <4>1, <4>2, <4>4, <4>5, <4>6
    <3> QED BY <1>6, <3>1
  <2> QED BY <1>4, <2>1, <2>2
<1>14. want' \in Seq(Elements) /\ Len(want') <= MaxElements /\ Len(want') = iter'
  BY <1>5, <1>6, <1>7
<1> QED BY <1>10, <1>11, <1>12, <1>13, <1>14, ListBecomes

\* addBlockBack() keeps the invariant.
LEMMA ListAddBlock ==
  ASSUME ListInv, spoilt = {}, NEW block \in Seq(Elements), L!Fits(Len(block)), L!addBlockBack(block)
  PROVE  ListInv'
<1>1. PICK more \in Nat : more = Len(block)
  BY LenProperties
<1>2. PICK n \in Nat : /\ n = IF iter + more > Len(slots) THEN L!Larger(L!Doubled, iter + more) ELSE 0
                       /\ iter + more <= RoomLen(n)
  BY ListGrows, ListHere DEF L!Larger, RoomLen
<1>3. PICK cells \in Nat : cells = RoomLen(n)
  BY <1>2, ListRoom
<1>4. PICK room \in [1..cells -> Cells] : room = L!Reserved(n) /\ DOMAIN room = 1..cells
  BY <1>3, ListRoom
<1>5. /\ iter + more <= cells
      /\ \A i \in 1..cells : i > iter => room[i] = Raw
      /\ "aliased" \in L!Harm(n) \/ \A i \in 1..iter : room[i] = want[i]
  BY <1>2, <1>3, <1>4, ListRoom
<1>6. /\ slots' = [i \in 1..cells |-> IF i > iter /\ i <= iter + more THEN block[i - iter] ELSE room[i]]
      /\ iter' = iter + more
      /\ want' = want \o block /\ L!Placed(n) /\ L!Harm(n) \subseteq spoilt'
  BY <1>1, <1>2, <1>4 DEF L!addBlockBack
<1>7. /\ want' \in Seq(Elements) /\ Len(want') = iter + more
      /\ \A i \in 1..(iter + more) : want'[i] = IF i <= iter THEN want[i] ELSE block[i - iter]
  <2>1. /\ want \o block \in Seq(Elements) /\ Len(want \o block) = Len(want) + Len(block)
        /\ \A i \in 1..(Len(want) + Len(block)) : (want \o block)[i] = IF i <= Len(want) THEN want[i] ELSE block[i - Len(want)]
    BY ListHere, ConcatProperties
  <2>2. Len(want) = iter /\ want' = want \o block
    BY <1>6, ListHere
  <2> QED BY <1>1, <2>1, <2>2
<1>8. iter + more <= MaxElements
  BY <1>1, ListHere DEF L!Fits
<1>9. slots' \in [1..cells -> Cells] /\ iter' \in 0..cells
  <2>1. ASSUME NEW i \in 1..cells
        PROVE  (IF i > iter /\ i <= iter + more THEN block[i - iter] ELSE room[i]) \in Cells
    <3>1. i > iter /\ i <= iter + more => i - iter \in 1..Len(block)
      BY <1>1, ListHere
    <3>2. i > iter /\ i <= iter + more => block[i - iter] \in Elements
      BY <3>1, ElementOfSeq
    <3> QED BY <3>2 DEF Cells
  <2> QED BY <1>5, <1>6, <2>1, ListHere
<1>10. short' \in BOOLEAN /\ inner' \in BOOLEAN /\ alive' \in BOOLEAN
  BY <1>6, ListPlaced
<1>11. \A i \in 1..cells : i > iter' => slots'[i] = Raw
  <2>1. ASSUME NEW i \in 1..cells, i > iter + more PROVE slots'[i] = Raw
    <3>1. i > iter
      BY <2>1, ListHere
    <3>2. slots'[i] = room[i]
      BY <1>6, <2>1
    <3> QED BY <1>5, <3>1, <3>2
  <2> QED BY <1>6, <2>1
<1>12. "aliased" \in spoilt' \/ \A i \in 1..Len(want') : slots'[i] = want'[i]
  <2>1. CASE "aliased" \in L!Harm(n)
    BY <1>6, <2>1
  <2>2. CASE \A i \in 1..iter : room[i] = want[i]
    BY <1>5, <1>6, <1>7, <2>2, ListHere
  <2> QED BY <1>5, <2>1, <2>2
<1>13. want' \in Seq(Elements) /\ Len(want') <= MaxElements /\ Len(want') = iter'
  BY <1>6, <1>7, <1>8
<1>14. iter' \in 0..cells /\ Len(want') <= iter'
  BY <1>9, <1>13
<1> QED BY <1>9, <1>10, <1>11, <1>12, <1>13, <1>14, ListBecomes

\* A step that leaves buffer, contents and size alone.
LEMMA ListSame ==
  ASSUME ListInv, spoilt = {}, UNCHANGED <<slots, iter, want>>,
         short' \in BOOLEAN, inner' \in BOOLEAN, alive' \in BOOLEAN
  PROVE  ListInv'
BY DEF ListInv, ListWhole, ListPrefix, L!TypeOK

\* remove() leaves what is wanted at the front.
LEMMA ListRemove ==
  ASSUME ListInv, spoilt = {}, NEW index \in 1..iter, L!remove(index)
  PROVE  ListInv'
<1>1. PICK cells \in Nat : cells = Len(slots) /\ DOMAIN slots = 1..cells /\ iter \in 0..cells
  BY ListHere
<1>2. /\ slots' = [i \in 1..cells |-> IF i = iter THEN slots[index]
                      ELSE IF i >= index /\ i < iter THEN slots[i + 1] ELSE slots[i]]
      /\ want' = L!RemoveAt(want, index) /\ spoilt' # {}
      /\ UNCHANGED <<short, inner, iter, alive>>
  BY <1>1 DEF L!remove
<1>3. /\ want' \in Seq(Elements) /\ Len(want') = iter - 1
      /\ \A i \in 1..(iter - 1) : want'[i] = IF i < index THEN want[i] ELSE want[i + 1]
  <2>1. PICK a : a = SubSeq(want, 1, index - 1)
    OBVIOUS
  <2>2. PICK b : b = SubSeq(want, index + 1, iter)
    OBVIOUS
  <2>3. a \in Seq(Elements) /\ Len(a) = index - 1 /\ \A i \in 1..(index - 1) : a[i] = want[i]
    <3>1. \A i \in 1..(index - 1) : want[i] \in Elements
      BY ListHere
    <3> QED BY <2>1, <3>1, <1>1, SubSeqProperties
  <2>4. b \in Seq(Elements) /\ Len(b) = iter - index /\ \A i \in 1..(iter - index) : b[i] = want[index + i]
    <3>1. \A i \in (index + 1)..iter : want[i] \in Elements
      BY ListHere
    <3>2. PICK first \in Int : first = index + 1
      BY <1>1
    <3>3. iter \in Int /\ iter - first + 1 = iter - index /\ ~ (iter < index)
      BY <1>1, <3>2
    <3>4. CASE first <= iter
      <4>1. /\ SubSeq(want, first, iter) \in Seq(Elements)
            /\ Len(SubSeq(want, first, iter)) = iter - first + 1
            /\ \A i \in 1..(iter - first + 1) : SubSeq(want, first, iter)[i] = want[first + i - 1]
        <5>1. \A i \in first..iter : want[i] \in Elements
          BY <3>1, <3>2
        <5> QED BY <3>2, <3>3, <3>4, <5>1, SubSeqProperties
      <4>2. \A i \in 1..(iter - index) : first + i - 1 = index + i
        BY <1>1, <3>2
      <4> QED BY <2>2, <3>2, <3>3, <4>1, <4>2
    <3>5. CASE ~ (first <= iter)
      <4>1. iter = index /\ iter < first
        BY <1>1, <3>2, <3>3, <3>5
      <4>2. SubSeq(want, first, iter) = <<>>
        BY <3>2, <3>3, <4>1, SubSeqProperties
      <4> QED BY <1>1, <2>2, <3>2, <4>1, <4>2, EmptySeq
    <3> QED BY <3>4, <3>5
  <2>5. /\ a \o b \in Seq(Elements) /\ Len(a \o b) = Len(a) + Len(b)
        /\ \A i \in 1..(Len(a) + Len(b)) : (a \o b)[i] = IF i <= Len(a) THEN a[i] ELSE b[i - Len(a)]
    BY <2>3, <2>4, ConcatProperties
  <2>6. want' = a \o b
    BY <1>2, <2>1, <2>2, ListHere DEF L!RemoveAt
  <2>7. Len(want') = iter - 1
    <3>1. (index - 1) + (iter - index) = iter - 1
      BY <1>1
    <3> QED BY <2>3, <2>4, <2>5, <2>6, <3>1
  <2>8. ASSUME NEW i \in 1..(iter - 1)
        PROVE  want'[i] = IF i < index THEN want[i] ELSE want[i + 1]
    <3>1. (a \o b)[i] = IF i <= index - 1 THEN a[i] ELSE b[i - (index - 1)]
      BY <1>1, <2>3, <2>4, <2>5
    <3>2. CASE i < index
      BY <1>1, <2>3, <2>6, <3>1, <3>2
    <3>3. CASE ~ (i < index)
      <4>1. i - (index - 1) \in 1..(iter - index) /\ index + (i - (index - 1)) = i + 1
        BY <1>1, <3>3
      <4>2. b[i - (index - 1)] = want[i + 1]
        BY <2>4, <4>1
      <4> QED BY <1>1, <2>6, <3>1, <3>3, <4>2
    <3> QED BY <3>2, <3>3
  <2> QED BY <2>5, <2>6, <2>7, <2>8
<1>4. slots' \in [1..cells -> Cells]
  <2>1. ASSUME NEW i \in 1..cells
        PROVE  (IF i = iter THEN slots[index]
                ELSE IF i >= index /\ i < iter THEN slots[i + 1] ELSE slots[i]) \in Cells
    <3>1. slots \in [1..cells -> Cells] /\ index \in 1..cells /\ (i < iter => i + 1 \in 1..cells)
      BY <1>1, ListHere
    <3> QED BY <3>1
  <2> QED BY <1>2, <2>1
<1>5. ASSUME NEW i \in 1..(iter - 1) PROVE slots'[i] = want'[i]
  <2>1. i \in 1..cells /\ i # iter /\ i < iter /\ i \in 1..iter /\ i + 1 \in 1..iter
    BY <1>1
  <2>2. slots[i] = want[i] /\ slots[i + 1] = want[i + 1]
    BY <2>1, ListHere
  <2>3. slots'[i] = IF i >= index THEN slots[i + 1] ELSE slots[i]
    BY <1>2, <2>1
  <2> QED BY <1>1, <1>3, <2>2, <2>3
<1>6. Len(want') <= iter' /\ iter' \in 0..cells /\ Len(want') <= MaxElements
  BY <1>1, <1>2, <1>3, ListHere, CollectionsAssumption
<1>7. \A i \in 1..Len(want') : slots'[i] = want'[i]
  BY <1>3, <1>5
<1>8. short' \in BOOLEAN /\ inner' \in BOOLEAN /\ alive' \in BOOLEAN
  BY <1>2, ListHere
<1> QED BY <1>2, <1>3, <1>4, <1>6, <1>7, <1>8, ListBecomes

\* set() keeps the invariant.
LEMMA ListSet ==
  ASSUME ListInv, spoilt = {}, NEW v \in Elements, NEW index \in 1..iter, L!set(index, v)
  PROVE  ListInv'
<1>1. PICK cells \in Nat : cells = Len(slots)
  BY ListHere
<1>2. /\ slots' = [slots EXCEPT ![index] = v] /\ want' = [want EXCEPT ![index] = v]
      /\ UNCHANGED <<short, inner, iter, spoilt, alive>>
  BY DEF L!set
<1>3. /\ want' \in [1..iter -> Elements] /\ iter \in Nat
      /\ \A i \in 1..iter : want'[i] = IF i = index THEN v ELSE want[i]
  BY <1>2, ListHere
<1>4. want' \in Seq(Elements) /\ Len(want') = iter
  BY <1>3, FirstPlaces
<1>5. /\ slots' \in [1..cells -> Cells]
      /\ \A i \in 1..cells : slots'[i] = IF i = index THEN v ELSE slots[i]
  BY <1>1, <1>2, ListHere DEF Cells
<1>6. /\ iter' \in 0..cells /\ Len(want') <= MaxElements /\ Len(want') = iter'
      /\ short' \in BOOLEAN /\ inner' \in BOOLEAN /\ alive' \in BOOLEAN
  BY <1>1, <1>2, <1>4, ListHere
<1>7. \A i \in 1..iter : slots'[i] = want'[i]
  BY <1>1, <1>3, <1>5, ListHere
<1>8. \A i \in 1..cells : i > iter' => slots'[i] = Raw
  BY <1>1, <1>2, <1>5, ListHere
<1> QED BY <1>4, <1>5, <1>6, <1>7, <1>8, ListBecomes

\* popBack() keeps the invariant.
LEMMA ListPopBack ==
  ASSUME ListInv, spoilt = {}, L!popBack
  PROVE  ListInv'
<1>1. PICK cells \in Nat : cells = Len(slots)
  BY ListHere
<1>2. /\ slots' = [slots EXCEPT ![iter] = Raw] /\ want' = L!Front(want)
      /\ UNCHANGED <<short, inner, spoilt, alive>> /\ iter' = iter - 1 /\ iter > 0
  BY DEF L!popBack
<1>3. /\ want' \in Seq(Elements) /\ Len(want') = iter - 1
      /\ \A i \in 1..(iter - 1) : want'[i] = want[i]
  <2>1. \A i \in 1..(iter - 1) : want[i] \in Elements
    BY ListHere
  <2>2. want' = SubSeq(want, 1, iter - 1)
    BY <1>2, ListHere DEF L!Front
  <2> QED BY <1>2, <2>1, <2>2, ListHere, SubSeqProperties
<1>4. /\ slots' \in [1..cells -> Cells]
      /\ \A i \in 1..cells : slots'[i] = IF i = iter THEN Raw ELSE slots[i]
  BY <1>1, <1>2, ListHere DEF Cells
<1>5. /\ iter' \in 0..cells /\ Len(want') <= MaxElements /\ Len(want') = iter'
      /\ short' \in BOOLEAN /\ inner' \in BOOLEAN /\ alive' \in BOOLEAN
  <2>1. iter \in 1..cells /\ iter <= MaxElements /\ MaxElements \in Nat
    BY <1>1, <1>2, ListHere, CollectionsAssumption
  <2>2. short \in BOOLEAN /\ inner \in BOOLEAN /\ alive \in BOOLEAN
    BY ListHere
  <2> QED BY <1>2, <1>3, <2>1, <2>2
<1>6. \A i \in 1..(iter - 1) : slots'[i] = want'[i]
  BY <1>1, <1>3, <1>4, ListHere
<1>7. \A i \in 1..cells : i > iter' => slots'[i] = Raw
  BY <1>1, <1>2, <1>4, ListHere
<1> QED BY <1>2, <1>3, <1>4, <1>5, <1>6, <1>7, ListBecomes

\* reserve() and uninitializedResize() keep the invariant.
LEMMA ListReserve ==
  ASSUME ListInv, spoilt = {}, NEW n \in Nat, L!reserve(n) \/ L!uninitializedResize(n)
  PROVE  ListInv'
<1>1. PICK cells \in Nat : cells = RoomLen(n)
  BY ListRoom
<1>2. /\ slots' = L!Reserved(n) /\ want' = want /\ L!Placed(n) /\ L!Harm(n) \subseteq spoilt'
      /\ iter' = iter \/ (iter' = cells /\ (cells > iter => spoilt' # {}))
  <2>1. Len(L!Reserved(n)) = cells
    BY <1>1, ListRoom
  <2> QED BY <2>1 DEF L!reserve, L!uninitializedResize
<1>3. /\ slots' \in [1..cells -> Cells]
      /\ \A i \in 1..cells : i > iter => slots'[i] = Raw
      /\ "aliased" \in spoilt' \/ \A i \in 1..iter : slots'[i] = want'[i]
  BY <1>1, <1>2, ListRoom
<1>4. /\ iter <= iter' /\ iter' \in 0..cells /\ iter \in Nat
      /\ spoilt' = {} => iter' = iter
  <2>1. iter \in Nat /\ iter <= cells /\ cells \in Nat
    BY <1>1, ListRoom, ListHere
  <2>2. spoilt' = {} => iter' = iter
    BY <1>2, <2>1
  <2> QED BY <1>2, <2>1, <2>2
<1>5. want' \in Seq(Elements) /\ Len(want') = iter /\ iter <= MaxElements
  BY <1>2, ListHere
<1>6. short' \in BOOLEAN /\ inner' \in BOOLEAN /\ alive' \in BOOLEAN
  BY <1>2, ListPlaced
<1> QED BY <1>3, <1>4, <1>5, <1>6, ListBecomes

\* The buffer as it is at a step's end, for the steps that keep contents and
\* counted size: no slot behind the counted ones is filled.
LEMMA ListResize ==
  ASSUME ListInv, spoilt = {}, NEW n \in 0..MaxElements, NEW fill \in Elements, L!resize(n, fill)
  PROVE  ListInv'
<1>0. n \in Nat
  BY CollectionsAssumption
<1>1. PICK cells \in Nat : cells = RoomLen(n) /\ n <= cells /\ iter <= cells
  BY <1>0, ListRoom
<1>2. PICK room \in [1..cells -> Cells] : room = L!Reserved(n) /\ DOMAIN room = 1..cells
  BY <1>0, <1>1, ListRoom
<1>3. /\ \A i \in 1..cells : i > iter => room[i] = Raw
      /\ "aliased" \in L!Harm(n) \/ \A i \in 1..iter : room[i] = want[i]
  BY <1>0, <1>1, <1>2, ListRoom
<1>4. /\ iter' = n /\ L!Placed(n) /\ L!Harm(n) \subseteq spoilt'
      /\ n < iter => /\ slots' = [i \in DOMAIN slots |-> IF i > n /\ i <= iter THEN Raw ELSE slots[i]]
                     /\ want' = SubSeq(want, 1, n)
      /\ ~ (n < iter) => /\ slots' = [i \in 1..cells |-> IF i > iter THEN fill ELSE room[i]]
                         /\ want' = want \o [i \in 1..(n - iter) |-> fill]
                         /\ (n >= iter /\ n < Len(slots')) => spoilt' # {}
  BY <1>2 DEF L!resize
<1>5. short' \in BOOLEAN /\ inner' \in BOOLEAN /\ alive' \in BOOLEAN
  BY <1>4, ListPlaced
<1>6. n \in Nat /\ iter \in Nat /\ n <= MaxElements
  BY ListHere, CollectionsAssumption
<1>7. CASE n < iter
  <2>1. \A i \in 1..n : want[i] \in Elements
    BY <1>6, <1>7, ListHere
  <2>2. want' \in Seq(Elements) /\ Len(want') = n /\ \A i \in 1..n : want'[i] = want[i]
    <3>1. /\ SubSeq(want, 1, n) \in Seq(Elements) /\ Len(SubSeq(want, 1, n)) = n
          /\ \A i \in 1..n : SubSeq(want, 1, n)[i] = want[i]
      BY <1>0, <2>1, SubSeqProperties
    <3> QED BY <1>4, <1>7, <3>1
  <2>3. PICK len \in Nat : len = Len(slots) /\ DOMAIN slots = 1..len /\ iter <= len
    <3>1. Len(slots) \in Nat /\ DOMAIN slots = 1..Len(slots) /\ iter <= Len(slots)
      BY ListHere
    <3> QED BY <3>1
  <2>4. \A i \in 1..len : slots'[i] = IF i > n /\ i <= iter THEN Raw ELSE slots[i]
    BY <1>4, <1>7, <2>3
  <2>5. slots' \in [1..len -> Cells] /\ n \in 0..len
    <3>1. slots \in [1..len -> Cells]
      BY <2>3, ListHere
    <3>2. slots' = [i \in 1..len |-> IF i > n /\ i <= iter THEN Raw ELSE slots[i]]
      BY <1>4, <1>7, <2>3
    <3>3. n <= len
      BY <1>6, <1>7, <2>3
    <3> QED BY <1>6, <3>1, <3>2, <3>3 DEF Cells
  <2>6. \A i \in 1..n : slots'[i] = want'[i]
    <3>0. \A i \in 1..iter : slots[i] = want[i]
      BY ListHere
    <3>1. ASSUME NEW i \in 1..n  PROVE slots'[i] = want'[i]
      <4>1. i \in 1..iter /\ i \in 1..len /\ ~ (i > n)
        BY <1>6, <1>7, <2>3
      <4>2. slots'[i] = slots[i]
        BY <2>4, <4>1
      <4> QED BY <2>2, <3>0, <4>1, <4>2
    <3> QED BY <3>1
  <2>7. \A i \in 1..len : i > n => slots'[i] = Raw
    <3>0. \A i \in 1..len : i > iter => slots[i] = Raw
      BY <2>3, ListHere
    <3> QED BY <1>6, <2>3, <2>4, <3>0
  <2>8. iter' \in 0..len /\ Len(want') = iter' /\ Len(want') <= iter' /\ Len(want') <= MaxElements
    BY <1>4, <1>6, <2>2, <2>5
  <2>9. /\ \A i \in 1..Len(want') : slots'[i] = want'[i]
        /\ \A i \in 1..len : i > iter' => slots'[i] = Raw
    BY <2>2, <2>6, <2>7, <2>8
  <2> QED BY <1>5, <2>2, <2>5, <2>8, <2>9, ListBecomes
<1>8. CASE ~ (n < iter)
  <2>1. PICK more \in Nat : more = n - iter
    BY <1>6, <1>8
  <2>2. PICK fills : fills = [i \in 1..more |-> fill]
    OBVIOUS
  <2>3. fills \in Seq(Elements) /\ Len(fills) = more /\ \A i \in 1..more : fills[i] = fill
    <3>1. fills \in [1..more -> Elements]
      BY <2>2
    <3> QED BY <2>2, <3>1, FirstPlaces
  <2>4. want' = want \o fills /\ slots' = [i \in 1..cells |-> IF i > iter THEN fill ELSE room[i]]
    BY <1>4, <1>8, <2>1, <2>2
  <2>5. /\ want' \in Seq(Elements) /\ Len(want') = iter + more
        /\ \A i \in 1..(iter + more) : want'[i] = IF i <= iter THEN want[i] ELSE fills[i - iter]
    <3>1. /\ want \o fills \in Seq(Elements) /\ Len(want \o fills) = Len(want) + Len(fills)
          /\ \A i \in 1..(Len(want) + Len(fills)) : (want \o fills)[i] = IF i <= Len(want) THEN want[i] ELSE fills[i - Len(want)]
      <4>1. want \in Seq(Elements)
        BY ListHere
      <4> QED BY <2>3, <4>1, ConcatProperties
    <3>2. Len(want) = iter
      BY ListHere
    <3> QED BY <2>3, <2>4, <3>1, <3>2
  <2>6. Len(want') = n /\ \A i \in 1..n : want'[i] = IF i <= iter THEN want[i] ELSE fill
    <3>1. iter + more = n
      BY <1>6, <2>1
    <3>2. ASSUME NEW i \in 1..n, ~ (i <= iter) PROVE fills[i - iter] = fill
      <4>1. i - iter \in 1..more
        BY <1>6, <2>1, <3>2
      <4> QED BY <2>3, <4>1
    <3> QED BY <2>5, <3>1, <3>2
  <2>7. slots' \in [1..cells -> Cells] /\ n \in 0..cells
    BY <1>1, <1>6, <2>4 DEF Cells
  <2>8. \A i \in 1..cells : slots'[i] = IF i > iter THEN fill ELSE room[i]
    BY <2>4
  <2>9. "aliased" \in spoilt' \/ \A i \in 1..n : slots'[i] = want'[i]
    <3>1. CASE "aliased" \in L!Harm(n)
      BY <1>4, <3>1
    <3>2. CASE \A i \in 1..iter : room[i] = want[i]
      <4>1. ASSUME NEW i \in 1..n PROVE slots'[i] = want'[i]
        <5>1. i \in 1..cells /\ (~ (i > iter) => i \in 1..iter /\ i <= iter)
          BY <1>1, <1>6
        <5>2. i > iter => ~ (i <= iter)
          BY <1>6
        <5> QED BY <2>6, <2>8, <3>2, <5>1, <5>2
      <4> QED BY <4>1
    <3> QED BY <1>3, <3>1, <3>2
  <2>10. Len(slots') = cells
    BY <2>7, FirstPlaces
  <2>11. spoilt' = {} => \A i \in 1..cells : i > n => slots'[i] = Raw
    <3>1. spoilt' = {} => ~ (n < cells)
      BY <1>4, <1>6, <1>8, <2>10
    <3> QED BY <1>6, <3>1
  <2>12. iter' \in 0..cells /\ Len(want') = iter' /\ Len(want') <= iter' /\ Len(want') <= MaxElements
    BY <1>4, <1>6, <2>6, <2>7
  <2>13. /\ "aliased" \in spoilt' \/ \A i \in 1..Len(want') : slots'[i] = want'[i]
         /\ spoilt' = {} => \A i \in 1..cells : i > iter' => slots'[i] = Raw
    BY <1>4, <2>6, <2>9, <2>11
  <2> QED BY <1>5, <2>5, <2>7, <2>12, <2>13, ListBecomes
<1> QED BY <1>7, <1>8

\* resize() whose copy throws keeps it, or has spoilt the list.
LEMMA ListResizeThrows ==
  ASSUME ListInv, spoilt = {}, NEW n \in 0..MaxElements, NEW done \in 0..MaxElements,
         NEW fill \in Elements, L!ResizeThrows(n, fill, done)
  PROVE  ListInv'
<1>0. n \in Nat /\ done \in Nat /\ iter \in Nat
  BY ListHere, CollectionsAssumption
<1>1. PICK cells \in Nat : cells = RoomLen(n) /\ n <= cells /\ iter <= cells
  BY <1>0, ListRoom
<1>2. PICK room \in [1..cells -> Cells] : room = L!Reserved(n) /\ DOMAIN room = 1..cells /\ Len(room) = cells
  BY <1>0, <1>1, ListRoom
<1>3. /\ \A i \in 1..cells : i > iter => room[i] = Raw
      /\ "aliased" \in L!Harm(n) \/ \A i \in 1..iter : room[i] = want[i]
  BY <1>0, <1>1, <1>2, ListRoom
<1>4. /\ slots' = [i \in 1..cells |-> IF done > 0 /\ i = iter + 1 THEN fill ELSE room[i]]
      /\ inner' = IF n <= Len(slots) THEN inner ELSE L!InnerFor(n)
      /\ alive' = (done > 0) /\ L!Harm(n) \subseteq spoilt' /\ (done > 0 => spoilt' # {})
      /\ UNCHANGED <<short, iter, want>>
  BY <1>2 DEF L!ResizeThrows
<1>5. short' \in BOOLEAN /\ inner' \in BOOLEAN /\ alive' \in BOOLEAN
  <2>1. short \in BOOLEAN /\ inner \in BOOLEAN
    BY ListHere
  <2>2. L!InnerFor(n) \in BOOLEAN
    BY <2>1 DEF L!InnerFor
  <2> QED BY <1>4, <2>1, <2>2
<1>6. slots' \in [1..cells -> Cells] /\ iter' \in 0..cells
  BY <1>0, <1>1, <1>4 DEF Cells
<1>7. \A i \in 1..cells : slots'[i] = IF done > 0 /\ i = iter + 1 THEN fill ELSE room[i]
  BY <1>4
<1>8. "aliased" \in spoilt' \/ \A i \in 1..iter : slots'[i] = want[i]
  <2>1. \A i \in 1..iter : i \in 1..cells /\ i # iter + 1
    BY <1>0, <1>1
  <2> QED BY <1>3, <1>4, <1>7, <2>1
<1>9. spoilt' = {} => \A i \in 1..cells : i > iter => slots'[i] = Raw
  BY <1>3, <1>4, <1>7
<1>10. want' \in Seq(Elements) /\ Len(want') = iter /\ iter <= MaxElements /\ want' = want /\ iter' = iter
  BY <1>4, ListHere
<1> QED BY <1>0, <1>5, <1>6, <1>8, <1>9, <1>10, ListBecomes

\* clear() keeps the invariant.
LEMMA ListClear ==
  ASSUME ListInv, L!clear  PROVE ListInv'
<1>1. /\ inner' = FALSE /\ slots' = <<>> /\ iter' = 0 /\ want' = <<>>
      /\ short' = short /\ alive' = alive /\ short \in BOOLEAN /\ alive \in BOOLEAN
  BY DEF L!clear, ListInv, L!TypeOK
<1>2. /\ slots' \in Seq(Cells) /\ Len(slots') = 0 /\ want' \in Seq(Elements) /\ Len(want') = 0
      /\ 0 <= MaxElements
  BY <1>1, CollectionsAssumption, EmptySeq
<1>3. slots' \in [1..0 -> Cells] /\ iter' \in 0..0 /\ Len(want') <= iter' /\ Len(want') = iter'
  BY <1>1, <1>2
<1>4. Len(want') <= MaxElements /\ \A i \in 1..Len(want') : slots'[i] = want'[i]
  BY <1>2
<1>5. \A i \in 1..0 : i > iter' => slots'[i] = Raw
  OBVIOUS
<1>6. short' \in BOOLEAN /\ inner' \in BOOLEAN /\ alive' \in BOOLEAN
  BY <1>1
<1> QED BY <1>2, <1>3, <1>4, <1>5, <1>6, ListBecomes

\* A copy has the invariant: it says it is empty, and was, or forgot.
LEMMA ListCopy ==
  ASSUME ListInv, spoilt = {}, L!copy  PROVE ListInv'
<1>1. /\ short' = FALSE /\ inner' = FALSE /\ slots' = SubSeq(slots, 1, iter)
      /\ iter' = 0 /\ UNCHANGED <<want, alive>>
      /\ iter > 0 => "forgotten" \in spoilt'
  BY DEF L!copy, L!Contents
<1>2. \A i \in 1..iter : slots[i] \in Cells
  BY ListHere
<1>3. iter \in Nat /\ iter <= MaxElements
  BY ListHere
<1>4. slots' \in Seq(Cells) /\ Len(slots') = iter /\ \A i \in 1..iter : slots'[i] = slots[i]
  BY <1>1, <1>2, <1>3, SubSeqProperties
<1>5. slots' \in [1..iter -> Cells]
  BY <1>3, <1>4
<1>6. want' \in Seq(Elements) /\ Len(want') = iter /\ alive' \in BOOLEAN
  BY <1>1, ListHere
<1>7. short' \in BOOLEAN /\ inner' \in BOOLEAN /\ iter' \in 0..iter
  <2>1. short' \in BOOLEAN /\ inner' \in BOOLEAN
    BY <1>1
  <2>2. iter' \in 0..iter
    BY <1>1, <1>3
  <2> QED BY <2>1, <2>2
<1>8. CASE iter > 0
  BY <1>1, <1>3, <1>5, <1>6, <1>7, <1>8, ListBecomes
<1>9. CASE iter = 0
  <2>1. Len(want') <= iter' /\ Len(want') = iter'
    BY <1>1, <1>6, <1>9
  <2>2. \A i \in 1..Len(want') : slots'[i] = want'[i]
    BY <1>6, <1>9
  <2>3. \A i \in 1..iter : i > iter' => slots'[i] = Raw
    BY <1>9
  <2> QED BY <1>3, <1>5, <1>6, <1>7, <2>1, <2>2, <2>3, ListBecomes
<1> QED BY <1>3, <1>8, <1>9

\* A short list made of a list has the invariant: it is empty, or forgot.
LEMMA ListCopyShort ==
  ASSUME ListInv, spoilt = {}, L!copyShort  PROVE ListInv'
<1> DEFINE cells == IF iter <= ShortCount THEN ShortCount ELSE iter
<1>1. /\ short' = TRUE /\ inner' = (iter <= ShortCount) /\ iter' = 0 /\ want' = want /\ alive' = alive
      /\ slots' = [i \in 1..cells |-> IF i <= Len(slots) THEN slots[i] ELSE Raw]
      /\ iter > 0 => "forgotten" \in spoilt'
  BY DEF L!copyShort
<1>2. cells \in Nat
  BY ListHere, CollectionsAssumption
<1> HIDE DEF cells
<1>3. slots' \in [1..cells -> Cells]
  <2>1. \A i \in 1..cells : (IF i <= Len(slots) THEN slots[i] ELSE Raw) \in Cells
    BY <1>2, ListHere DEF Cells
  <2> QED BY <1>1, <2>1
<1>4. /\ want' \in Seq(Elements) /\ Len(want') = iter /\ iter \in Nat /\ iter <= MaxElements
      /\ iter' = 0 /\ alive' \in BOOLEAN /\ short' \in BOOLEAN /\ inner' \in BOOLEAN
  BY <1>1, ListHere
<1>5. iter = 0 => \A i \in 1..cells : slots'[i] = Raw
  <2>1. ASSUME iter = 0, NEW i \in 1..cells PROVE slots'[i] = Raw
    <3>1. slots'[i] = IF i <= Len(slots) THEN slots[i] ELSE Raw
      BY <1>1
    <3>2. i <= Len(slots) => i \in 1..Len(slots) /\ i > iter
      BY <1>2, <2>1, ListHere
    <3> QED BY <3>1, <3>2, ListHere
  <2> QED BY <2>1
<1>6. CASE iter > 0
  BY <1>1, <1>2, <1>3, <1>4, <1>6, ListBecomes
<1>7. CASE ~ (iter > 0)
  <2>1. iter = 0 /\ Len(want') = 0 /\ 0 \in 0..cells
    BY <1>2, <1>4, <1>7
  <2>2. \A i \in 1..Len(want') : slots'[i] = want'[i]
    BY <2>1
  <2> QED BY <1>2, <1>3, <1>4, <1>5, <2>1, <2>2, ListBecomes
<1> QED BY <1>6, <1>7

\* Assignment keeps the invariant.
LEMMA ListAssign ==
  ASSUME ListInv, spoilt = {}, NEW n \in 0..MaxElements, L!assign(n)  PROVE ListInv'
<1>1. PICK cells \in Nat : cells = L!Larger(n, Len(slots)) /\ Len(slots) <= cells
  <2>1. Len(slots) \in Nat /\ n \in Nat
    BY ListHere, CollectionsAssumption
  <2>2. L!Larger(n, Len(slots)) \in Nat /\ Len(slots) <= L!Larger(n, Len(slots))
    BY <2>1 DEF L!Larger
  <2> QED BY <2>2
<1>2. /\ short' = FALSE /\ inner' = FALSE
      /\ slots' = [i \in 1..cells |-> IF i <= iter THEN slots[i] ELSE Raw]
      /\ UNCHANGED <<iter, want, spoilt, alive>>
  BY <1>1 DEF L!assign
<1>3. slots' \in [1..cells -> Cells]
  <2>1. \A i \in 1..cells : (IF i <= iter THEN slots[i] ELSE Raw) \in Cells
    BY <1>1, ListHere DEF Cells
  <2> QED BY <1>2, <2>1
<1>4. /\ iter \in 0..cells /\ want' \in Seq(Elements) /\ Len(want') = iter /\ iter <= MaxElements
      /\ iter' = iter /\ want' = want
      /\ alive' \in BOOLEAN /\ short' \in BOOLEAN /\ inner' \in BOOLEAN
  <2>1. /\ iter \in 0..Len(slots) /\ Len(slots) \in Nat /\ want \in Seq(Elements) /\ Len(want) = iter
        /\ iter <= MaxElements /\ alive \in BOOLEAN
    BY ListHere
  <2>2. iter \in 0..cells
    BY <1>1, <2>1
  <2>3. iter' = iter /\ want' = want /\ alive' = alive /\ short' = FALSE /\ inner' = FALSE
    BY <1>2
  <2> QED BY <2>1, <2>2, <2>3
<1>5. \A i \in 1..iter : slots'[i] = want[i]
  BY <1>1, <1>2, ListHere
<1>6. \A i \in 1..cells : i > iter => slots'[i] = Raw
  BY <1>1, <1>2, ListHere
<1>7. iter \in Nat
  BY <1>4
<1> QED BY <1>3, <1>4, <1>5, <1>6, <1>7, ListBecomes

\* Every step of a list keeps the invariant.
LEMMA ListStep ==
  ASSUME ListInv, L!Next  PROVE ListInv'
<1>1. spoilt = {}
  BY DEF L!Next
<1>2. ASSUME NEW v \in Elements, L!Fits(1), L!addBack(v) PROVE ListInv'
  BY <1>1, <1>2, ListAddBack
<1>3. ASSUME NEW v \in Elements, NEW i \in 1..iter, L!Fits(1), L!insert(i, v) PROVE ListInv'
  BY <1>1, <1>3, ListInsert
<1>4. ASSUME NEW a \in Elements, NEW b \in Elements, L!Fits(2), L!addBlockBack(<<a, b>>) PROVE ListInv'
  <2>1. PICK block : block = <<a, b>>
    OBVIOUS
  <2>2. block \in Seq(Elements) /\ Len(block) = 2
    BY <2>1
  <2>3. L!Fits(Len(block)) /\ L!addBlockBack(block)
    BY <1>4, <2>1, <2>2
  <2> QED BY <1>1, <2>2, <2>3, ListAddBlock
<1>5. ASSUME NEW i \in 1..iter, L!remove(i) PROVE ListInv'
  BY <1>1, <1>5, ListRemove
<1>6. ASSUME NEW v \in Elements, NEW i \in 1..iter, L!set(i, v) PROVE ListInv'
  BY <1>1, <1>6, ListSet
<1>7. ASSUME NEW n \in 0..MaxElements, L!reserve(n) \/ L!uninitializedResize(n) PROVE ListInv'
  <2>1. n \in Nat
    BY CollectionsAssumption
  <2> QED BY <1>1, <1>7, <2>1, ListReserve
<1>8. ASSUME NEW v \in Elements, NEW n \in 0..MaxElements, L!resize(n, v) PROVE ListInv'
  BY <1>1, <1>8, ListResize
<1>9. ASSUME NEW v \in Elements, NEW n \in 0..MaxElements, NEW done \in 0..MaxElements, L!ResizeThrows(n, v, done)
      PROVE  ListInv'
  BY <1>1, <1>9, ListResizeThrows
<1>10. ASSUME NEW n \in 0..MaxElements, L!assign(n) PROVE ListInv'
  BY <1>1, <1>10, ListAssign
<1>11. ASSUME L!CopyThrows \/ L!assignSelf \/ L!move PROVE ListInv'
  <2>1. short \in BOOLEAN /\ inner \in BOOLEAN /\ alive \in BOOLEAN
    BY DEF ListInv, L!TypeOK
  <2>2. /\ UNCHANGED <<slots, iter, want>>
        /\ short' \in BOOLEAN /\ inner' \in BOOLEAN /\ alive' \in BOOLEAN
    BY <1>11, <2>1 DEF L!CopyThrows, L!assignSelf, L!move
  <2> QED BY <1>1, <2>2, ListSame
<1>12. CASE L!popBack
  BY <1>1, <1>12, ListPopBack
<1>13. CASE L!clear
  BY <1>13, ListClear
<1>14. CASE L!copy
  BY <1>1, <1>14, ListCopy
<1>15. CASE L!copyShort
  BY <1>1, <1>15, ListCopyShort
<1> QED BY <1>2, <1>3, <1>4, <1>5, <1>6, <1>7, <1>8, <1>9, <1>10, <1>11, <1>12, <1>13, <1>14, <1>15 DEF L!Next

\* The type is part of the invariant.
LEMMA ListTyped ==
  ASSUME ListInv  PROVE L!TypeOK
BY DEF ListInv

\* What else changes does not concern the list.
LEMMA ListStutter ==
  ASSUME ListInv, UNCHANGED <<short, inner, slots, iter, want, spoilt, alive>>
  PROVE  ListInv'
BY DEF ListInv, ListWhole, ListPrefix, L!TypeOK, L!Live

-----------------------------------------------------------------------------
(* Deque.                                                                   *)

\* The place of the i-th element behind the tail, and how far behind it a
\* place is, in a ring of n.
At(i, t, n) == IF t + i < n THEN t + i ELSE t + i - n
Off(q, t, n) == IF q >= t THEN q - t ELSE q + n - t

\* A ring r of n slots with c elements w, said slot by slot: from the tail t on
\* the elements, everywhere else nothing.  The head h is behind the last one,
\* or past the last slot, where only reserve(size()) puts it.
RingHolds(r, n, h, t, s, w, c) ==
  /\ c <= s /\ s <= n
  /\ h \in 0..n /\ t \in 0..n
  /\ n > 0 => t < n
  /\ IF h = n THEN s = n /\ (t + c = n \/ (t = 0 /\ c = 0)) ELSE h = At(c, t, n)
  /\ \A q \in 0..(n - 1) :
       r[q + 1] = IF Off(q, t, n) < c THEN w[Off(q, t, n) + 1] ELSE Raw

DequeInv ==
  /\ D!TypeOK
  /\ spoilt = {} => RingHolds(ring, Len(ring), head, tail, size, want, Len(want))

\* The two ways to count are each other's inverse.
LEMMA AtOff ==
  ASSUME NEW n \in Nat, NEW t \in 0..(n - 1), NEW i \in 0..(n - 1)
  PROVE  /\ At(i, t, n) \in 0..(n - 1) /\ Off(At(i, t, n), t, n) = i
         /\ Off(i, t, n) \in 0..(n - 1) /\ At(Off(i, t, n), t, n) = i
BY DEF At, Off

\* Going round by one.
LEMMA OnceRound ==
  ASSUME NEW n \in Nat \ {0}, NEW x \in 0..(2 * n - 1)
  PROVE  D!Around(x, n) = IF x < n THEN x ELSE x - n
<1>1. CASE x < n
  BY <1>1 DEF D!Around
<1>2. CASE x >= n
  <2>1. PICK y \in 0..(n - 1) : y = x - n
    BY <1>2
  <2>2. (1 * n + y) % n = y
    OBVIOUS
  <2> QED BY <1>2, <2>1, <2>2 DEF D!Around
<1> QED BY <1>1, <1>2

\* What can be said of every unspoilt Deque.
LEMMA DequeHere ==
  ASSUME DequeInv, spoilt = {}
  PROVE  \E n, c \in Nat :
           /\ n = Len(ring) /\ n = D!Slots /\ ring \in [1..n -> Cells] /\ DOMAIN ring = 1..n
           /\ c = Len(want) /\ want \in Seq(Elements) /\ want \in [1..c -> Elements]
           /\ size \in Nat /\ head \in 0..n /\ tail \in 0..n
           /\ RingHolds(ring, n, head, tail, size, want, c)
<1>1. ring \in Seq(Cells) /\ want \in Seq(Elements) /\ size \in Nat
  BY DEF DequeInv, D!TypeOK, Cells
<1>2. PICK n, c \in Nat : n = Len(ring) /\ c = Len(want)
  BY <1>1, LenProperties
<1>3. ring \in [1..n -> Cells] /\ want \in [1..c -> Elements]
  BY <1>1, <1>2, LenProperties
<1>4. RingHolds(ring, n, head, tail, size, want, c)
  BY <1>2 DEF DequeInv
<1> QED BY <1>1, <1>2, <1>3, <1>4 DEF D!Slots, RingHolds

\* What is to be said of a step.
LEMMA DequeBecomes ==
  ASSUME NEW n \in Nat, ring' \in [1..n -> Cells], head' \in 0..n, tail' \in 0..n,
         size' \in Nat, want' \in Seq(Elements), spoilt' \subseteq {"rawMoved", "leaked"},
         spoilt' = {} => RingHolds(ring', n, head', tail', size', want', Len(want'))
  PROVE  DequeInv'
<1>1. ring' \in Seq(Cells) /\ Len(ring') = n
  BY FirstPlaces
<1> QED BY <1>1 DEF DequeInv, D!TypeOK, D!Slots, Cells

\* A new deque has the invariant.
LEMMA DequeInit ==
  ASSUME D!Init  PROVE DequeInv
<1>1. ring = <<>> /\ head = 0 /\ tail = 0 /\ size = 0 /\ want = <<>> /\ spoilt = {}
  BY DEF D!Init
<1>2. ring \in Seq(Cells) /\ want \in Seq(Elements) /\ Len(ring) = 0 /\ Len(want) = 0
  BY <1>1, EmptySeq
<1> QED BY <1>1, <1>2 DEF DequeInv, D!TypeOK, D!Slots, Cells, RingHolds

\* The head of a ring that is not full is where the next element goes, and the
\* place before it holds the last one.
LEMMA BeforeHead ==
  ASSUME NEW n \in Nat, NEW c \in Nat, NEW r, NEW w, NEW h \in 0..n, NEW t \in 0..n, NEW s \in Nat,
         RingHolds(r, n, h, t, s, w, c), c > 0
  PROVE  (IF h = 0 THEN n - 1 ELSE h - 1) = At(c - 1, t, n)
BY DEF RingHolds, At

\* An element of the ring is where indexPtr() looks.
LEMMA InRing ==
  ASSUME NEW n \in Nat, NEW c \in Nat, NEW r, NEW w, NEW h \in 0..n, NEW t \in 0..n, NEW s \in Nat,
         RingHolds(r, n, h, t, s, w, c), NEW i \in 0..(c - 1)
  PROVE  At(i, t, n) \in 0..(n - 1) /\ r[At(i, t, n) + 1] = w[i + 1]
<1>1. n > 0 /\ t \in 0..(n - 1) /\ i \in 0..(n - 1) /\ i < c
  BY DEF RingHolds
<1>2. At(i, t, n) \in 0..(n - 1) /\ Off(At(i, t, n), t, n) = i
  BY <1>1, AtOff
<1> QED BY <1>1, <1>2 DEF RingHolds

\* The deque reads as its elements, front to back.
LEMMA DequeHeld ==
  ASSUME DequeInv  PROVE D!Held
<1>0. SUFFICES ASSUME spoilt = {}
      PROVE  /\ [i \in 1..Len(want) |-> D!get(i - 1)] = want
             /\ {p \in 1..D!Slots : ring[p] # Raw} = {D!indexPtr(i - 1) + 1 : i \in DOMAIN want}
             /\ want # <<>> => D!front = Head(want) /\ D!back = D!Last(want)
             /\ IF D!Endless THEN size = D!Slots
                ELSE D!Iterated = IF Len(want) = D!Slots THEN <<>> ELSE want
             /\ size >= Len(want)
  BY DEF D!Held
<1>1. PICK n, c \in Nat :
           /\ n = Len(ring) /\ n = D!Slots /\ ring \in [1..n -> Cells] /\ DOMAIN ring = 1..n
           /\ c = Len(want) /\ want \in Seq(Elements) /\ want \in [1..c -> Elements]
           /\ size \in Nat /\ head \in 0..n /\ tail \in 0..n
           /\ RingHolds(ring, n, head, tail, size, want, c)
  BY <1>0, DequeHere
<1>9. /\ n \in Nat /\ c \in Nat /\ head \in 0..n /\ tail \in 0..n /\ size \in Nat
      /\ RingHolds(ring, n, head, tail, size, want, c)
  BY <1>1
<1>2. \A i \in 0..(c - 1) : /\ D!indexPtr(i) = At(i, tail, n) /\ At(i, tail, n) \in 0..(n - 1)
                            /\ D!get(i) = want[i + 1]
  <2>1. ASSUME NEW i \in 0..(c - 1)
        PROVE  At(i, tail, n) \in 0..(n - 1) /\ ring[At(i, tail, n) + 1] = want[i + 1]
    BY <1>9, <2>1, InRing
  <2>2. ASSUME NEW i \in 0..(c - 1) PROVE D!indexPtr(i) = At(i, tail, n)
    BY <1>1 DEF D!indexPtr, At
  <2> QED BY <2>1, <2>2 DEF D!get
<1>3. [i \in 1..c |-> D!get(i - 1)] = want
  BY <1>1, <1>2
<1>4. {p \in 1..n : ring[p] # Raw} = {D!indexPtr(i - 1) + 1 : i \in 1..c}
  <2>1. ASSUME NEW p \in 1..n, ring[p] # Raw PROVE \E i \in 1..c : p = D!indexPtr(i - 1) + 1
    <3>1. PICK q \in 0..(n - 1) : p = q + 1
      OBVIOUS
    <3>2. PICK i \in 0..(n - 1) : i = Off(q, tail, n) /\ q = At(i, tail, n)
      <4>1. n > 0 /\ tail \in 0..(n - 1)
        BY <1>9, <3>1 DEF RingHolds
      <4> QED BY <1>9, <3>1, <4>1, AtOff
    <3>3. i < c
      BY <1>1, <2>1, <3>1, <3>2 DEF RingHolds
    <3>4. i + 1 \in 1..c /\ p = D!indexPtr((i + 1) - 1) + 1
      BY <1>2, <3>1, <3>2, <3>3
    <3> QED BY <3>4
  <2>2. ASSUME NEW i \in 1..c
        PROVE  D!indexPtr(i - 1) + 1 \in 1..n /\ ring[D!indexPtr(i - 1) + 1] # Raw
    <3>1. i - 1 \in 0..(c - 1) /\ (i - 1) + 1 = i
      BY <1>9, <2>2
    <3>2. /\ D!indexPtr(i - 1) \in 0..(n - 1) /\ ring[D!indexPtr(i - 1) + 1] = want[(i - 1) + 1]
      BY <1>2, <3>1 DEF D!get
    <3>3. want[i] \in Elements
      BY <1>1, <2>2
    <3>4. D!indexPtr(i - 1) + 1 \in 1..n
      BY <1>9, <3>2
    <3>5. want[i] # Raw
      BY <3>3, CollectionsAssumption
    <3> QED BY <3>1, <3>2, <3>4, <3>5
  <2> QED BY <2>1, <2>2
<1>5. ASSUME want # <<>> PROVE D!front = Head(want) /\ D!back = D!Last(want)
  <2>1. c > 0
    BY <1>1, <1>5, EmptySeq
  <2>2. D!get(0) = want[1] /\ D!indexPtr(0) = tail
    BY <1>1, <1>2, <2>1 DEF RingHolds, D!indexPtr
  <2>3. D!front = Head(want)
    BY <2>2 DEF D!front, D!get
  <2>4. D!prev(head) = At(c - 1, tail, n)
    BY <1>1, <2>1, BeforeHead DEF D!prev
  <2>5. ring[At(c - 1, tail, n) + 1] = want[c]
    <3>1. c - 1 \in 0..(c - 1) /\ (c - 1) + 1 = c
      BY <1>9, <2>1
    <3> QED BY <1>2, <3>1 DEF D!get
  <2>6. D!back = D!Last(want)
    BY <1>1, <2>4, <2>5 DEF D!back, D!Last
  <2> QED BY <2>3, <2>6
<1>6. ASSUME ~ D!Endless PROVE D!Iterated = IF c = n THEN <<>> ELSE want
  <2> DEFINE met == IF head >= tail THEN head - tail ELSE head + n - tail
  <2>1. met = IF c = n THEN 0 ELSE c
    <3>1. ~ (n > 0 /\ head = n)
      BY <1>1, <1>6 DEF D!Endless
    <3>2. c <= n /\ head <= n /\ tail <= n
      BY <1>9 DEF RingHolds
    <3>3. CASE n = 0
      BY <1>9, <3>2, <3>3
    <3>4. CASE n > 0 /\ head = At(c, tail, n) /\ tail < n
      BY <1>9, <3>2, <3>4 DEF At
    <3>5. n > 0 => head = At(c, tail, n) /\ tail < n
      BY <1>9, <3>1 DEF RingHolds
    <3> QED BY <1>9, <3>3, <3>4, <3>5
  <2>2. D!Iterated = [i \in 1..met |-> D!get(i - 1)]
    BY <1>1 DEF D!Iterated
  <2>3. [i \in 1..0 |-> D!get(i - 1)] = <<>>
    OBVIOUS
  <2> QED BY <1>3, <2>1, <2>2, <2>3
<1>7. D!Endless => size = n
  BY <1>1 DEF D!Endless, RingHolds
<1>8. size >= c
  BY <1>1 DEF RingHolds
<1> QED BY <1>1, <1>3, <1>4, <1>5, <1>6, <1>7, <1>8

\* The type is part of the invariant.
LEMMA DequeTyped ==
  ASSUME DequeInv  PROVE D!TypeOK
BY DEF DequeInv

\* The buffer a growing Deque moves to is unspoilt only when no element was
\* taken, and then it holds the same elements from its first slot on.
LEMMA MovedHolds ==
  ASSUME DequeInv, spoilt = {}, NEW m \in Nat, m >= Len(ring)
  PROVE  \E N \in Nat :
           /\ N = IF m < MinSize THEN MinSize ELSE m
           /\ D!Moved(m) \in [1..N -> Cells] /\ Len(D!Moved(m)) = N
           /\ size <= N /\ size \in Nat /\ N > 0 /\ Len(ring) <= N
           /\ D!RawMoved(m) \subseteq {"rawMoved"}
           /\ D!RawMoved(m) = {} => RingHolds(D!Moved(m), N, size, 0, size, want, Len(want))
<1>1. PICK n, c \in Nat :
           /\ n = Len(ring) /\ n = D!Slots /\ ring \in [1..n -> Cells] /\ DOMAIN ring = 1..n
           /\ c = Len(want) /\ want \in Seq(Elements) /\ want \in [1..c -> Elements]
           /\ size \in Nat /\ head \in 0..n /\ tail \in 0..n
           /\ RingHolds(ring, n, head, tail, size, want, c)
  BY DequeHere
<1>2. PICK N \in Nat : N = IF m < MinSize THEN MinSize ELSE m
  BY CollectionsAssumption
<1>9. /\ n \in Nat /\ c \in Nat /\ head \in 0..n /\ tail \in 0..n /\ size \in Nat
      /\ RingHolds(ring, n, head, tail, size, want, c)
  BY <1>1
<1>3. N > 0 /\ n <= N /\ size <= n /\ c <= size /\ (n > 0 => tail \in 0..(n - 1))
  BY <1>1, <1>2, CollectionsAssumption DEF RingHolds
<1>4. \A i \in 0..(size - 1) : D!indexPtr(i) = At(i, tail, n) /\ At(i, tail, n) \in 0..(n - 1)
  <2>1. ASSUME NEW i \in 0..(size - 1) PROVE D!indexPtr(i) = At(i, tail, n)
    BY <1>1 DEF D!indexPtr, At
  <2>2. ASSUME NEW i \in 0..(size - 1) PROVE At(i, tail, n) \in 0..(n - 1)
    <3>1. n > 0 /\ i \in 0..(n - 1)
      BY <1>9, <1>3, <2>2
    <3> QED BY <1>3, <1>9, <3>1, AtOff
  <2> QED BY <2>1, <2>2
<1>5. D!Moved(m) = [i \in 1..N |-> IF i <= size THEN ring[D!indexPtr(i - 1) + 1] ELSE Raw]
  BY <1>2 DEF D!Moved
<1>6. \A i \in 1..size : ring[D!indexPtr(i - 1) + 1] \in Cells
  BY <1>1, <1>4
<1>7. D!Moved(m) \in [1..N -> Cells] /\ Len(D!Moved(m)) = N
  <2>1. D!Moved(m) \in [1..N -> Cells]
    BY <1>5, <1>6 DEF Cells
  <2> QED BY <2>1, FirstPlaces
<1>8. ASSUME D!RawMoved(m) = {} PROVE RingHolds(D!Moved(m), N, size, 0, size, want, c)
  <2>1. \A i \in 1..size : ring[D!indexPtr(i - 1) + 1] # Raw
    <3>1. ~ D!Kept(m)
      BY <1>1 DEF D!Kept
    <3>2. \A i \in 1..size : D!Moved(m)[i] # Raw
      BY <1>8, <3>1 DEF D!RawMoved
    <3>3. \A i \in 1..size : D!Moved(m)[i] = ring[D!indexPtr(i - 1) + 1]
      <4>1. \A i \in 1..size : i \in 1..N /\ i <= size
        BY <1>2, <1>3, <1>9
      <4> QED BY <1>5, <4>1
    <3> QED BY <3>2, <3>3
  <2>2. c = size
    <3>1. SUFFICES ASSUME c < size PROVE FALSE
      BY <1>9, <1>3
    <3>2. n > 0 /\ c \in 0..(n - 1) /\ c + 1 \in 1..size /\ tail \in 0..(n - 1)
      BY <1>1, <1>3, <3>1
    <3>3. At(c, tail, n) \in 0..(n - 1) /\ Off(At(c, tail, n), tail, n) = c
      BY <3>2, AtOff
    <3>4. ring[At(c, tail, n) + 1] = Raw
      BY <1>1, <3>3 DEF RingHolds
    <3>5. D!indexPtr((c + 1) - 1) = At(c, tail, n)
      BY <1>4, <3>1, <1>1
    <3> QED BY <2>1, <3>2, <3>4, <3>5
  <2>3. \A i \in 1..size : D!Moved(m)[i] = want[i]
    <3>1. ASSUME NEW i \in 1..size PROVE D!Moved(m)[i] = want[i]
      <4>1. PICK k \in 0..(c - 1) : k = i - 1
        BY <2>2
      <4>2. ring[At(k, tail, n) + 1] = want[k + 1]
        BY <1>9, <4>1, InRing
      <4>3. D!indexPtr(k) = At(k, tail, n) /\ i = k + 1
        BY <1>4, <1>9, <2>2, <4>1, <3>1
      <4>4. D!Moved(m)[i] = ring[D!indexPtr(k) + 1]
        <5>1. i \in 1..N /\ i <= size /\ i - 1 = k
          BY <1>2, <1>3, <1>9, <4>1, <3>1
        <5> QED BY <1>5, <5>1
      <4> QED BY <4>2, <4>3, <4>4
    <3> QED BY <3>1
  <2>4. \A i \in 1..N : i > size => D!Moved(m)[i] = Raw
    <3>1. \A i \in 1..N : i > size => ~ (i <= size)
      BY <1>2, <1>9
    <3> QED BY <1>5, <3>1
  <2>5. \A q \in 0..(N - 1) :
          D!Moved(m)[q + 1] = IF Off(q, 0, N) < c THEN want[Off(q, 0, N) + 1] ELSE Raw
    BY <1>1, <1>3, <2>2, <2>3, <2>4 DEF Off
  <2> QED BY <1>1, <1>3, <2>2, <2>5 DEF RingHolds, At
<1> QED BY <1>1, <1>2, <1>3, <1>7, <1>8 DEF D!RawMoved

\* Seen from one place further on, every other place is one nearer.
LEMMA OffNext ==
  ASSUME NEW n \in Nat, NEW t \in 0..(n - 1), NEW q \in 0..(n - 1), q # t,
         NEW g, g = (IF t + 1 = n THEN 0 ELSE t + 1)
  PROVE  Off(q, t, n) = Off(q, g, n) + 1 /\ Off(q, g, n) \in Nat
<1>1. CASE t + 1 = n
  BY <1>1 DEF Off
<1>2. CASE t + 1 # n
  BY <1>2 DEF Off
<1> QED BY <1>1, <1>2

\* A tail that goes back by one is further from every other place.
LEMMA TailBack ==
  ASSUME NEW n \in Nat, NEW t \in 0..(n - 1), NEW p \in 0..(n - 1), t = 0 => p = n - 1, t # 0 => p = t - 1,
         NEW q \in 0..(n - 1), q # p
  PROVE  Off(q, p, n) = Off(q, t, n) + 1 /\ Off(q, t, n) \in Nat
<1>1. CASE t = 0
  BY <1>1 DEF Off
<1>2. CASE t # 0
  BY <1>2 DEF Off
<1> QED BY <1>1, <1>2

\* One element more before the tail.
LEMMA RingAddFront ==
  ASSUME NEW n \in Nat, NEW c \in Nat, NEW r \in [1..n -> Cells], NEW w, NEW h \in 0..n,
         NEW t \in 0..n, NEW s \in Nat, RingHolds(r, n, h, t, s, w, c), s < n, NEW v \in Elements,
         NEW p, t = 0 => p = n - 1, t # 0 => p = t - 1,
         NEW u, u[1] = v, \A i \in 1..c : u[i + 1] = w[i]
  PROVE  p \in 0..(n - 1) /\ RingHolds([r EXCEPT ![p + 1] = v], n, h, p, s + 1, u, c + 1)
<1>1. /\ c <= s /\ t < n /\ n > 0 /\ h # n /\ h = At(c, t, n) /\ p \in 0..(n - 1)
      /\ \A q \in 0..(n - 1) : r[q + 1] = IF Off(q, t, n) < c THEN w[Off(q, t, n) + 1] ELSE Raw
  BY DEF RingHolds
<1>2. h = At(c + 1, p, n)
  BY <1>1 DEF At
<1>3. ASSUME NEW q \in 0..(n - 1)
      PROVE  [r EXCEPT ![p + 1] = v][q + 1] =
               IF Off(q, p, n) < c + 1 THEN u[Off(q, p, n) + 1] ELSE Raw
  <2>1. [r EXCEPT ![p + 1] = v][q + 1] = IF q = p THEN v ELSE r[q + 1]
    BY <1>1
  <2>2. CASE q = p
    <3>1. Off(q, p, n) = 0
      BY <1>1, <2>2 DEF Off
    <3> QED BY <2>1, <2>2, <3>1
  <2>3. CASE q # p
    <3>0. n \in Nat /\ t \in 0..(n - 1) /\ p \in 0..(n - 1) /\ q \in 0..(n - 1)
      BY <1>1, <1>3
    <3>1. Off(q, p, n) = Off(q, t, n) + 1 /\ Off(q, t, n) \in Nat
      BY <2>3, <3>0, TailBack
    <3>2. CASE Off(q, t, n) < c
      <4>1. Off(q, t, n) + 1 \in 1..c
        BY <3>1, <3>2
      <4>2. u[(Off(q, t, n) + 1) + 1] = w[Off(q, t, n) + 1] /\ Off(q, p, n) < c + 1
        BY <3>1, <3>2, <4>1
      <4> QED BY <1>1, <2>1, <2>3, <3>1, <3>2, <4>2
    <3>3. CASE ~ (Off(q, t, n) < c)
      <4>1. ~ (Off(q, p, n) < c + 1)
        BY <3>1, <3>3
      <4> QED BY <1>1, <2>1, <2>3, <3>3, <4>1
    <3> QED BY <3>2, <3>3
  <2> QED BY <2>2, <2>3
<1> QED BY <1>1, <1>2, <1>3 DEF RingHolds

\* One element more at the head.
LEMMA RingAddBack ==
  ASSUME NEW n \in Nat, NEW c \in Nat, NEW r \in [1..n -> Cells], NEW w, NEW h \in 0..n,
         NEW t \in 0..n, NEW s \in Nat, RingHolds(r, n, h, t, s, w, c), s < n, NEW v \in Elements,
         NEW g, g = (IF h + 1 = n THEN 0 ELSE h + 1),
         NEW u, u[c + 1] = v, \A i \in 1..c : u[i] = w[i]
  PROVE  g \in 0..(n - 1) /\ RingHolds([r EXCEPT ![h + 1] = v], n, g, t, s + 1, u, c + 1)
<1>1. /\ c <= s /\ t < n /\ n > 0 /\ h # n /\ h = At(c, t, n) /\ g \in 0..(n - 1) /\ h \in 0..(n - 1)
      /\ \A q \in 0..(n - 1) : r[q + 1] = IF Off(q, t, n) < c THEN w[Off(q, t, n) + 1] ELSE Raw
  BY DEF RingHolds
<1>2. g = At(c + 1, t, n)
  BY <1>1 DEF At
<1>3. ASSUME NEW q \in 0..(n - 1)
      PROVE  [r EXCEPT ![h + 1] = v][q + 1] =
               IF Off(q, t, n) < c + 1 THEN u[Off(q, t, n) + 1] ELSE Raw
  <2>1. [r EXCEPT ![h + 1] = v][q + 1] = IF q = h THEN v ELSE r[q + 1]
    BY <1>1
  <2>2. CASE q = h
    <3>1. Off(q, t, n) = c
      BY <1>1, <2>2 DEF Off, At
    <3>2. c < c + 1
      OBVIOUS
    <3> QED BY <2>1, <2>2, <3>1, <3>2
  <2>3. CASE q # h
    <3>1. Off(q, t, n) # c /\ Off(q, t, n) \in Nat
      <4>1. t \in 0..(n - 1)
        BY <1>1
      <4>2. At(Off(q, t, n), t, n) = q /\ Off(q, t, n) \in 0..(n - 1)
        BY <4>1, AtOff
      <4> QED BY <1>1, <2>3, <4>2
    <3>2. CASE Off(q, t, n) < c
      <4>1. Off(q, t, n) + 1 \in 1..c /\ Off(q, t, n) < c + 1
        BY <3>1, <3>2
      <4> QED BY <1>1, <2>1, <2>3, <3>2, <4>1
    <3>3. CASE ~ (Off(q, t, n) < c)
      <4>1. ~ (Off(q, t, n) < c + 1)
        BY <3>1, <3>3
      <4> QED BY <1>1, <2>1, <2>3, <3>3, <4>1
    <3> QED BY <3>2, <3>3
  <2> QED BY <2>2, <2>3
<1> QED BY <1>1, <1>2, <1>3 DEF RingHolds

\* The first element goes.
LEMMA RingPopFront ==
  ASSUME NEW n \in Nat, NEW c \in Nat, NEW r \in [1..n -> Cells], NEW w, NEW h \in 0..n,
         NEW t \in 0..n, NEW s \in Nat, RingHolds(r, n, h, t, s, w, c), c > 0,
         NEW g, t + 1 = n => g = 0, t + 1 # n => g = t + 1,
         NEW u, \A i \in 1..(c - 1) : u[i] = w[i + 1]
  PROVE  g \in 0..(n - 1) /\ RingHolds([r EXCEPT ![t + 1] = Raw], n, h, g, s, u, c - 1)
<1>1. /\ c <= s /\ s <= n /\ t < n /\ n > 0 /\ g \in 0..(n - 1) /\ t \in 0..(n - 1)
      /\ \A q \in 0..(n - 1) : r[q + 1] = IF Off(q, t, n) < c THEN w[Off(q, t, n) + 1] ELSE Raw
  BY DEF RingHolds
<1>2. IF h = n THEN s = n /\ (g + (c - 1) = n \/ (g = 0 /\ c - 1 = 0)) ELSE h = At(c - 1, g, n)
  BY <1>1 DEF RingHolds, At
<1>3. ASSUME NEW q \in 0..(n - 1)
      PROVE  [r EXCEPT ![t + 1] = Raw][q + 1] =
               IF Off(q, g, n) < c - 1 THEN u[Off(q, g, n) + 1] ELSE Raw
  <2>1. [r EXCEPT ![t + 1] = Raw][q + 1] = IF q = t THEN Raw ELSE r[q + 1]
    BY <1>1
  <2>2. CASE q = t
    <3>1. ~ (Off(q, g, n) < c - 1)
      BY <1>1, <2>2 DEF Off
    <3> QED BY <2>1, <2>2, <3>1
  <2>3. CASE q # t
    <3>1. Off(q, t, n) = Off(q, g, n) + 1 /\ Off(q, g, n) \in Nat
      BY <1>1, <2>3, OffNext
    <3>2. CASE Off(q, g, n) < c - 1
      <4>1. Off(q, g, n) + 1 \in 1..(c - 1) /\ Off(q, t, n) < c
        BY <3>1, <3>2
      <4>2. u[Off(q, g, n) + 1] = w[Off(q, t, n) + 1]
        BY <3>1, <4>1
      <4> QED BY <1>1, <2>1, <2>3, <3>2, <4>1, <4>2
    <3>3. CASE ~ (Off(q, g, n) < c - 1)
      <4>1. ~ (Off(q, t, n) < c)
        BY <3>1, <3>3
      <4> QED BY <1>1, <2>1, <2>3, <3>3, <4>1
    <3> QED BY <3>2, <3>3
  <2> QED BY <2>2, <2>3
<1> QED BY <1>1, <1>2, <1>3 DEF RingHolds

\* The last element goes.
LEMMA RingPopBack ==
  ASSUME NEW n \in Nat, NEW c \in Nat, NEW r \in [1..n -> Cells], NEW w, NEW h \in 0..n,
         NEW t \in 0..n, NEW s \in Nat, RingHolds(r, n, h, t, s, w, c), c > 0,
         NEW g, g = (IF h = 0 THEN n - 1 ELSE h - 1),
         NEW u, \A i \in 1..(c - 1) : u[i] = w[i]
  PROVE  g \in 0..(n - 1) /\ RingHolds([r EXCEPT ![g + 1] = Raw], n, g, t, s, u, c - 1)
<1>1. /\ c <= s /\ s <= n /\ t < n /\ n > 0 /\ t \in 0..(n - 1)
      /\ \A q \in 0..(n - 1) : r[q + 1] = IF Off(q, t, n) < c THEN w[Off(q, t, n) + 1] ELSE Raw
  BY DEF RingHolds
<1>2. g = At(c - 1, t, n) /\ g \in 0..(n - 1)
  <2>1. g = At(c - 1, t, n)
    BY BeforeHead
  <2> QED BY <1>1, <2>1 DEF At
<1>3. ASSUME NEW q \in 0..(n - 1)
      PROVE  [r EXCEPT ![g + 1] = Raw][q + 1] =
               IF Off(q, t, n) < c - 1 THEN u[Off(q, t, n) + 1] ELSE Raw
  <2>1. [r EXCEPT ![g + 1] = Raw][q + 1] = IF q = g THEN Raw ELSE r[q + 1]
    BY <1>1, <1>2
  <2>2. CASE q = g
    <3>1. ~ (Off(q, t, n) < c - 1)
      BY <1>1, <1>2, <2>2 DEF Off, At
    <3> QED BY <2>1, <2>2, <3>1
  <2>3. CASE q # g
    <3>1. Off(q, t, n) # c - 1 /\ Off(q, t, n) \in Nat
      <4>1. At(Off(q, t, n), t, n) = q /\ Off(q, t, n) \in 0..(n - 1)
        BY <1>1, AtOff
      <4> QED BY <1>2, <2>3, <4>1
    <3>2. CASE Off(q, t, n) < c - 1
      <4>1. Off(q, t, n) + 1 \in 1..(c - 1) /\ Off(q, t, n) < c
        BY <3>1, <3>2
      <4> QED BY <1>1, <2>1, <2>3, <3>2, <4>1
    <3>3. CASE ~ (Off(q, t, n) < c - 1)
      <4>1. ~ (Off(q, t, n) < c)
        BY <3>1, <3>3
      <4> QED BY <1>1, <2>1, <2>3, <3>3, <4>1
    <3> QED BY <3>2, <3>3
  <2> QED BY <2>2, <2>3
<1> QED BY <1>1, <1>2, <1>3 DEF RingHolds

\* One element changes.
LEMMA RingSet ==
  ASSUME NEW n \in Nat, NEW c \in Nat, NEW r \in [1..n -> Cells], NEW w, NEW h \in 0..n,
         NEW t \in 0..n, NEW s \in Nat, RingHolds(r, n, h, t, s, w, c), NEW i \in 0..(c - 1),
         NEW v \in Elements, NEW g, g = At(i, t, n),
         NEW u, u[i + 1] = v, \A j \in 1..c : j # i + 1 => u[j] = w[j]
  PROVE  g \in 0..(n - 1) /\ RingHolds([r EXCEPT ![g + 1] = v], n, h, t, s, u, c)
<1>1. /\ c <= s /\ s <= n /\ t < n /\ n > 0 /\ t \in 0..(n - 1) /\ i \in 0..(n - 1)
      /\ \A q \in 0..(n - 1) : r[q + 1] = IF Off(q, t, n) < c THEN w[Off(q, t, n) + 1] ELSE Raw
  BY DEF RingHolds
<1>2. g \in 0..(n - 1) /\ Off(g, t, n) = i /\ i < c
  BY <1>1, AtOff
<1>3. ASSUME NEW q \in 0..(n - 1)
      PROVE  [r EXCEPT ![g + 1] = v][q + 1] =
               IF Off(q, t, n) < c THEN u[Off(q, t, n) + 1] ELSE Raw
  <2>1. [r EXCEPT ![g + 1] = v][q + 1] = IF q = g THEN v ELSE r[q + 1]
    BY <1>1, <1>2
  <2>2. CASE q = g
    BY <1>2, <2>1, <2>2
  <2>3. CASE q # g
    <3>1. Off(q, t, n) # i /\ Off(q, t, n) \in Nat
      BY <1>1, <1>2, <2>3 DEF Off, At
    <3>2. CASE Off(q, t, n) < c
      <4>1. Off(q, t, n) + 1 \in 1..c /\ Off(q, t, n) + 1 # i + 1
        BY <3>1, <3>2
      <4> QED BY <1>1, <2>1, <2>3, <3>2, <4>1
    <3>3. CASE ~ (Off(q, t, n) < c)
      BY <1>1, <2>1, <2>3, <3>3
    <3> QED BY <3>2, <3>3
  <2> QED BY <2>2, <2>3
<1>4. IF h = n THEN s = n /\ (t + c = n \/ (t = 0 /\ c = 0)) ELSE h = At(c, t, n)
  BY DEF RingHolds
<1> QED BY <1>1, <1>2, <1>3, <1>4 DEF RingHolds

\* The ring an added element meets has a free slot, and unless an element was
\* taken before it grew it holds the same elements.
LEMMA GrownHolds ==
  ASSUME DequeInv, spoilt = {}
  PROVE  \E n \in Nat :
           /\ n = Len(D!Grown.ring) /\ D!Grown.ring \in [1..n -> Cells]
           /\ n > 0 /\ size \in Nat /\ size < n
           /\ D!Grown.head \in 0..n /\ D!Grown.tail \in 0..(n - 1)
           /\ D!GrowthHarm \subseteq {"rawMoved"}
           /\ D!GrowthHarm = {} =>
                RingHolds(D!Grown.ring, n, D!Grown.head, D!Grown.tail, size, want, Len(want))
<1>1. PICK n, c \in Nat :
           /\ n = Len(ring) /\ n = D!Slots /\ ring \in [1..n -> Cells] /\ DOMAIN ring = 1..n
           /\ c = Len(want) /\ want \in Seq(Elements) /\ want \in [1..c -> Elements]
           /\ size \in Nat /\ head \in 0..n /\ tail \in 0..n
           /\ RingHolds(ring, n, head, tail, size, want, c)
  BY DequeHere
<1>2. CASE size = n
  <2>1. PICK m \in Nat : m = 2 * size /\ m >= Len(ring)
    BY <1>1, <1>2
  <2>2. PICK N \in Nat :
           /\ N = IF m < MinSize THEN MinSize ELSE m
           /\ D!Moved(m) \in [1..N -> Cells] /\ Len(D!Moved(m)) = N
           /\ size <= N /\ size \in Nat /\ N > 0 /\ Len(ring) <= N
           /\ D!RawMoved(m) \subseteq {"rawMoved"}
           /\ D!RawMoved(m) = {} => RingHolds(D!Moved(m), N, size, 0, size, want, Len(want))
    BY <2>1, MovedHolds
  <2>3. size < N
    BY <2>1, <2>2, CollectionsAssumption
  <2>4. /\ D!Grown.ring = D!Moved(m) /\ D!Grown.head = size /\ D!Grown.tail = 0
        /\ D!GrowthHarm = D!RawMoved(m)
    BY <1>1, <1>2, <2>1 DEF D!Grown, D!GrowthHarm
  <2> QED BY <2>2, <2>3, <2>4
<1>3. CASE size # n
  <2>1. /\ D!Grown.ring = ring /\ D!Grown.head = head /\ D!Grown.tail = tail
        /\ D!GrowthHarm = {}
    BY <1>1, <1>3 DEF D!Grown, D!GrowthHarm
  <2>2. size < n /\ n > 0 /\ tail \in 0..(n - 1)
    BY <1>1, <1>3 DEF RingHolds
  <2> QED BY <1>1, <2>1, <2>2
<1> QED BY <1>2, <1>3

\* addFront() keeps the invariant, across the ring's seam.
LEMMA DequeAddFront ==
  ASSUME DequeInv, spoilt = {}, NEW v \in Elements, D!addFront(v)
  PROVE  DequeInv'
<1>1. PICK n \in Nat :
           /\ n = Len(D!Grown.ring) /\ D!Grown.ring \in [1..n -> Cells]
           /\ n > 0 /\ size \in Nat /\ size < n
           /\ D!Grown.head \in 0..n /\ D!Grown.tail \in 0..(n - 1)
           /\ D!GrowthHarm \subseteq {"rawMoved"}
           /\ D!GrowthHarm = {} =>
                RingHolds(D!Grown.ring, n, D!Grown.head, D!Grown.tail, size, want, Len(want))
  BY GrownHolds
<1>2. PICK r \in [1..n -> Cells], h \in 0..n, t \in 0..(n - 1) :
           r = D!Grown.ring /\ h = D!Grown.head /\ t = D!Grown.tail
  BY <1>1
<1>3. PICK p \in 0..(n - 1) : p = (IF t = 0 THEN n - 1 ELSE t - 1) /\ p = D!Around(t + n - 1, n)
  <2>1. PICK x \in 0..(2 * n - 1) : x = t + n - 1
    BY <1>1, <1>2
  <2>2. D!Around(x, n) = IF x < n THEN x ELSE x - n
    BY <1>1, <2>1, OnceRound
  <2>3. (IF x < n THEN x ELSE x - n) = (IF t = 0 THEN n - 1 ELSE t - 1)
    BY <1>1, <1>2, <2>1
  <2>4. (IF t = 0 THEN n - 1 ELSE t - 1) \in 0..(n - 1)
    BY <1>1, <1>2
  <2> QED BY <2>1, <2>2, <2>3, <2>4
<1>4. /\ ring' = [r EXCEPT ![p + 1] = v] /\ tail' = p /\ head' = h /\ size' = size + 1
      /\ want' = <<v>> \o want /\ spoilt' = spoilt \cup D!GrowthHarm
  BY <1>1, <1>2, <1>3 DEF D!addFront
<1>5. PICK c \in Nat : c = Len(want) /\ want \in Seq(Elements)
  BY DequeHere
<1>6. /\ want' \in Seq(Elements) /\ Len(want') = c + 1 /\ want'[1] = v
      /\ \A i \in 1..c : want'[i + 1] = want[i]
  <2>1. <<v>> \in Seq(Elements) /\ Len(<<v>>) = 1 /\ <<v>>[1] = v
    OBVIOUS
  <2>2. /\ <<v>> \o want \in Seq(Elements) /\ Len(<<v>> \o want) = 1 + c
        /\ \A i \in 1..(1 + c) : (<<v>> \o want)[i] = IF i <= 1 THEN v ELSE want[i - 1]
    BY <1>5, <2>1, ConcatProperties
  <2>3. \A i \in 1..c : i + 1 \in 1..(1 + c) /\ ~ (i + 1 <= 1) /\ (i + 1) - 1 = i
    BY <1>5
  <2> QED BY <1>4, <1>5, <2>2, <2>3
<1>7. ring' \in [1..n -> Cells]
  BY <1>1, <1>2, <1>3, <1>4 DEF Cells
<1>8. ASSUME spoilt' = {} PROVE RingHolds(ring', n, head', tail', size', want', Len(want'))
  <2>1. RingHolds(r, n, h, t, size, want, c)
    BY <1>1, <1>2, <1>4, <1>5, <1>8
  <2>2. t \in 0..n
    BY <1>2
  <2>3. RingHolds([r EXCEPT ![p + 1] = v], n, h, p, size + 1, want', c + 1)
    <3>1. size \in Nat /\ size < n /\ h \in 0..n /\ (t = 0 => p = n - 1) /\ (t # 0 => p = t - 1)
      BY <1>1, <1>2, <1>3
    <3>2. want'[1] = v /\ \A i \in 1..c : want'[i + 1] = want[i]
      BY <1>6
    <3>3. r \in [1..n -> Cells] /\ c \in Nat /\ n \in Nat
      BY <1>1, <1>2, <1>5
    <3> QED BY ZenonT(30), <2>1, <2>2, <3>1, <3>2, <3>3, RingAddFront
  <2> QED BY <1>4, <1>6, <2>3
<1>9. head' \in 0..n /\ tail' \in 0..n /\ size' \in Nat /\ spoilt' \subseteq {"rawMoved", "leaked"}
  <2>1. head' \in 0..n
    BY <1>4
  <2>2. tail' \in 0..n
    BY <1>3, <1>4
  <2>3. size' \in Nat
    BY <1>1, <1>4
  <2>4. spoilt' \subseteq {"rawMoved", "leaked"}
    BY <1>1, <1>4
  <2> QED BY <2>1, <2>2, <2>3, <2>4
<1> QED BY <1>6, <1>7, <1>8, <1>9, DequeBecomes

\* addBack() keeps the invariant, across the ring's seam.
LEMMA DequeAddBack ==
  ASSUME DequeInv, spoilt = {}, NEW v \in Elements, D!addBack(v)
  PROVE  DequeInv'
<1>1. PICK n \in Nat :
           /\ n = Len(D!Grown.ring) /\ D!Grown.ring \in [1..n -> Cells]
           /\ n > 0 /\ size \in Nat /\ size < n
           /\ D!Grown.head \in 0..n /\ D!Grown.tail \in 0..(n - 1)
           /\ D!GrowthHarm \subseteq {"rawMoved"}
           /\ D!GrowthHarm = {} =>
                RingHolds(D!Grown.ring, n, D!Grown.head, D!Grown.tail, size, want, Len(want))
  BY GrownHolds
<1>2. PICK r \in [1..n -> Cells], h \in 0..n, t \in 0..(n - 1) :
           r = D!Grown.ring /\ h = D!Grown.head /\ t = D!Grown.tail
  BY <1>1
<1>3. PICK g : g = D!Around(h + 1, n)
  OBVIOUS
<1>4. /\ ring' = [r EXCEPT ![h + 1] = v] /\ tail' = t /\ head' = g /\ size' = size + 1
      /\ want' = Append(want, v) /\ spoilt' = spoilt \cup D!GrowthHarm
  BY <1>1, <1>2, <1>3 DEF D!addBack
<1>5. PICK c \in Nat : c = Len(want) /\ want \in Seq(Elements)
  BY DequeHere
<1>6. /\ want' \in Seq(Elements) /\ Len(want') = c + 1 /\ want'[c + 1] = v
      /\ \A i \in 1..c : want'[i] = want[i]
  BY <1>4, <1>5, AppendProperties
<1>7. ring' \in [1..n -> Cells]
  BY <1>1, <1>2, <1>4 DEF Cells
<1>8. g \in 0..n
  <2>1. g \in 0..(n - 1)
    BY <1>1, <1>2, <1>3 DEF D!Around
  <2> QED BY <2>1
<1>9. ASSUME spoilt' = {} PROVE RingHolds(ring', n, head', tail', size', want', Len(want'))
  <2>1. RingHolds(r, n, h, t, size, want, c)
    BY <1>1, <1>2, <1>4, <1>5, <1>9
  <2>2. t \in 0..n /\ h + 1 \in 0..(2 * n - 1) /\ n \in Nat \ {0} /\ h + 1 <= n
    <3>1. h # n
      BY <1>1, <1>2, <2>1 DEF RingHolds
    <3> QED BY <1>1, <1>2, <3>1
  <2>3. g = IF h + 1 = n THEN 0 ELSE h + 1
    <3>1. g = IF h + 1 < n THEN h + 1 ELSE h + 1 - n
      BY <1>3, <2>2, OnceRound
    <3> QED BY <1>2, <2>2, <3>1
  <2>4. RingHolds([r EXCEPT ![h + 1] = v], n, g, t, size + 1, want', c + 1)
    <3>1. size \in Nat /\ size < n /\ h \in 0..n
      BY <1>1, <1>2
    <3>2. want'[c + 1] = v /\ \A i \in 1..c : want'[i] = want[i]
      BY <1>6
    <3>3. r \in [1..n -> Cells] /\ c \in Nat /\ n \in Nat
      BY <1>1, <1>2, <1>5
    <3> QED BY <2>1, <2>2, <2>3, <3>1, <3>2, <3>3, RingAddBack
  <2> QED BY <1>4, <1>6, <2>4
<1>10. head' \in 0..n /\ tail' \in 0..n /\ size' \in Nat /\ spoilt' \subseteq {"rawMoved", "leaked"}
  BY <1>1, <1>2, <1>4, <1>8
<1> QED BY <1>6, <1>7, <1>9, <1>10, DequeBecomes

\* popFront() keeps the invariant.
LEMMA DequePopFront ==
  ASSUME DequeInv, spoilt = {}, D!popFront
  PROVE  DequeInv'
<1>1. PICK n, c \in Nat :
           /\ n = Len(ring) /\ n = D!Slots /\ ring \in [1..n -> Cells] /\ DOMAIN ring = 1..n
           /\ c = Len(want) /\ want \in Seq(Elements) /\ want \in [1..c -> Elements]
           /\ size \in Nat /\ head \in 0..n /\ tail \in 0..n
           /\ RingHolds(ring, n, head, tail, size, want, c)
  BY DequeHere
<1>2. /\ want # <<>> /\ ring' = [ring EXCEPT ![tail + 1] = Raw] /\ tail' = D!next(tail)
      /\ want' = Tail(want) /\ head' = head /\ size' = size /\ spoilt' = {}
  BY DEF D!popFront
<1>3. c > 0
  BY <1>1, <1>2, EmptySeq
<1>4. /\ want' \in Seq(Elements) /\ Len(want') = c - 1
      /\ \A i \in 1..(c - 1) : want'[i] = want[i + 1]
  BY <1>1, <1>2, HeadTailProperties
<1>5. (tail + 1 = n => tail' = 0) /\ (tail + 1 # n => tail' = tail + 1)
  BY <1>1, <1>2 DEF D!next
<1>6. tail' \in 0..(n - 1) /\ RingHolds(ring', n, head', tail', size', want', c - 1)
  <2>1. /\ n \in Nat /\ c \in Nat /\ ring \in [1..n -> Cells] /\ head \in 0..n /\ tail \in 0..n
        /\ size \in Nat /\ RingHolds(ring, n, head, tail, size, want, c)
    BY <1>1
  <2>2. /\ tail' \in 0..(n - 1)
        /\ RingHolds([ring EXCEPT ![tail + 1] = Raw], n, head, tail', size, want', c - 1)
    BY <1>3, <1>4, <1>5, <2>1, RingPopFront
  <2> QED BY <1>2, <2>2
<1>7. ring' \in [1..n -> Cells]
  BY <1>1, <1>2 DEF Cells
<1>8. head' \in 0..n /\ tail' \in 0..n /\ size' \in Nat
  BY <1>1, <1>2, <1>6
<1> QED BY <1>1, <1>2, <1>4, <1>6, <1>7, <1>8, DequeBecomes

\* popBack() keeps the invariant.
LEMMA DequePopBack ==
  ASSUME DequeInv, spoilt = {}, D!popBack
  PROVE  DequeInv'
<1>1. PICK n, c \in Nat :
           /\ n = Len(ring) /\ n = D!Slots /\ ring \in [1..n -> Cells] /\ DOMAIN ring = 1..n
           /\ c = Len(want) /\ want \in Seq(Elements) /\ want \in [1..c -> Elements]
           /\ size \in Nat /\ head \in 0..n /\ tail \in 0..n
           /\ RingHolds(ring, n, head, tail, size, want, c)
  BY DequeHere
<1>2. /\ want # <<>> /\ ring' = [ring EXCEPT ![D!prev(head) + 1] = Raw] /\ head' = D!prev(head)
      /\ want' = D!Front(want) /\ tail' = tail /\ size' = size /\ spoilt' = {}
  BY DEF D!popBack
<1>3. c > 0
  BY <1>1, <1>2, EmptySeq
<1>4. /\ want' \in Seq(Elements) /\ Len(want') = c - 1
      /\ \A i \in 1..(c - 1) : want'[i] = want[i]
  <2>1. \A i \in 1..(c - 1) : want[i] \in Elements
    BY <1>1
  <2>2. want' = SubSeq(want, 1, c - 1)
    BY <1>1, <1>2 DEF D!Front
  <2> QED BY <1>1, <1>3, <2>1, <2>2, SubSeqProperties
<1>5. PICK g : g = (IF head = 0 THEN n - 1 ELSE head - 1) /\ g = D!prev(head)
  BY <1>1 DEF D!prev
<1>6. g \in 0..(n - 1) /\ RingHolds(ring', n, head', tail', size', want', c - 1)
  <2>1. /\ n \in Nat /\ c \in Nat /\ ring \in [1..n -> Cells] /\ head \in 0..n /\ tail \in 0..n
        /\ size \in Nat /\ RingHolds(ring, n, head, tail, size, want, c)
    BY <1>1
  <2>2. /\ g \in 0..(n - 1)
        /\ RingHolds([ring EXCEPT ![g + 1] = Raw], n, g, tail, size, want', c - 1)
    BY <1>3, <1>4, <1>5, <2>1, RingPopBack
  <2> QED BY <1>2, <1>5, <2>2
<1>7. ring' \in [1..n -> Cells]
  BY <1>1, <1>2 DEF Cells
<1>8. head' \in 0..n /\ tail' \in 0..n /\ size' \in Nat
  BY <1>1, <1>2, <1>5, <1>6
<1> QED BY <1>1, <1>2, <1>4, <1>6, <1>7, <1>8, DequeBecomes

\* set() keeps the invariant.
LEMMA DequeSet ==
  ASSUME DequeInv, spoilt = {}, NEW v \in Elements, NEW i \in 0..(Len(want) - 1), D!set(i, v)
  PROVE  DequeInv'
<1>1. PICK n, c \in Nat :
           /\ n = Len(ring) /\ n = D!Slots /\ ring \in [1..n -> Cells] /\ DOMAIN ring = 1..n
           /\ c = Len(want) /\ want \in Seq(Elements) /\ want \in [1..c -> Elements]
           /\ size \in Nat /\ head \in 0..n /\ tail \in 0..n
           /\ RingHolds(ring, n, head, tail, size, want, c)
  BY DequeHere
<1>2. PICK g : g = At(i, tail, n) /\ g = D!indexPtr(i)
  BY <1>1 DEF D!indexPtr, At
<1>3. /\ ring' = [ring EXCEPT ![g + 1] = v] /\ want' = [want EXCEPT ![i + 1] = v]
      /\ head' = head /\ tail' = tail /\ size' = size /\ spoilt' = {}
  BY <1>2 DEF D!set
<1>4. i \in 0..(c - 1) /\ i + 1 \in 1..c
  BY <1>1
<1>5. /\ want' \in Seq(Elements) /\ Len(want') = c /\ want'[i + 1] = v
      /\ \A j \in 1..c : j # i + 1 => want'[j] = want[j]
  BY <1>1, <1>3, <1>4, ExceptSeq
<1>6. RingHolds(ring', n, head', tail', size', want', c)
  <2>1. /\ n \in Nat /\ c \in Nat /\ ring \in [1..n -> Cells] /\ head \in 0..n /\ tail \in 0..n
        /\ size \in Nat /\ RingHolds(ring, n, head, tail, size, want, c)
    BY <1>1
  <2>2. RingHolds([ring EXCEPT ![g + 1] = v], n, head, tail, size, want', c)
    BY <1>2, <1>4, <1>5, <2>1, RingSet
  <2> QED BY <1>3, <2>2
<1>7. ring' \in [1..n -> Cells]
  BY <1>1, <1>3 DEF Cells
<1>8. head' \in 0..n /\ tail' \in 0..n /\ size' \in Nat
  BY <1>1, <1>3
<1> QED BY <1>1, <1>3, <1>5, <1>6, <1>7, <1>8, DequeBecomes

\* reserve() keeps the invariant: the ring is laid out anew.
LEMMA DequeReserve ==
  ASSUME DequeInv, spoilt = {}, NEW m \in Nat, D!reserve(m)
  PROVE  DequeInv'
<1>1. PICK n, c \in Nat :
           /\ n = Len(ring) /\ n = D!Slots /\ ring \in [1..n -> Cells] /\ DOMAIN ring = 1..n
           /\ c = Len(want) /\ want \in Seq(Elements) /\ want \in [1..c -> Elements]
           /\ size \in Nat /\ head \in 0..n /\ tail \in 0..n
           /\ RingHolds(ring, n, head, tail, size, want, c)
  BY DequeHere
<1>2. spoilt' = D!RawMoved(m) \cup D!Leaked(m) /\ size' = size /\ want' = want
  BY DEF D!reserve
<1>3. spoilt' \subseteq {"rawMoved", "leaked"}
  BY <1>2 DEF D!RawMoved, D!Leaked
<1>4. CASE m < n
  <2>1. ring' = ring /\ head' = head /\ tail' = tail
    BY <1>1, <1>4 DEF D!reserve, D!Kept
  <2> QED BY <1>1, <1>2, <1>3, <2>1, DequeBecomes
<1>5. CASE ~ (m < n)
  <2>1. ring' = D!Moved(m) /\ head' = size /\ tail' = 0
    BY <1>1, <1>5 DEF D!reserve, D!Kept
  <2>2. m >= Len(ring)
    BY <1>1, <1>5
  <2>3. PICK N \in Nat :
           /\ N = IF m < MinSize THEN MinSize ELSE m
           /\ D!Moved(m) \in [1..N -> Cells] /\ Len(D!Moved(m)) = N
           /\ size <= N /\ size \in Nat /\ N > 0 /\ Len(ring) <= N
           /\ D!RawMoved(m) \subseteq {"rawMoved"}
           /\ D!RawMoved(m) = {} => RingHolds(D!Moved(m), N, size, 0, size, want, Len(want))
    BY <2>2, MovedHolds
  <2>4. ring' \in [1..N -> Cells] /\ head' \in 0..N /\ tail' \in 0..N /\ size' \in Nat
    BY <1>2, <2>1, <2>3
  <2>5. spoilt' = {} => RingHolds(ring', N, head', tail', size', want', Len(want'))
    BY <1>2, <2>1, <2>3
  <2> QED BY <1>1, <1>2, <1>3, <2>3, <2>4, <2>5, DequeBecomes
<1> QED BY <1>1, <1>4, <1>5

\* Every call keeps the invariant.
LEMMA DequeStep ==
  ASSUME DequeInv, D!Next  PROVE DequeInv'
<1>1. spoilt = {}
  BY DEF D!Next
<1>2. ASSUME NEW v \in Elements, D!addFront(v) PROVE DequeInv'
  BY <1>1, <1>2, DequeAddFront
<1>3. ASSUME NEW v \in Elements, D!addBack(v) PROVE DequeInv'
  BY <1>1, <1>3, DequeAddBack
<1>4. CASE D!popFront
  BY <1>1, <1>4, DequePopFront
<1>5. CASE D!popBack
  BY <1>1, <1>5, DequePopBack
<1>6. ASSUME NEW v \in Elements, NEW i \in 0..(Len(want) - 1), D!set(i, v) PROVE DequeInv'
  BY <1>1, <1>6, DequeSet
<1>7. ASSUME NEW m \in 0..MaxElements, D!reserve(m) PROVE DequeInv'
  <2>1. m \in Nat
    BY CollectionsAssumption
  <2> QED BY <1>1, <1>7, <2>1, DequeReserve
<1> QED BY <1>2, <1>3, <1>4, <1>5, <1>6, <1>7 DEF D!Next

\* What else changes does not concern the deque.
LEMMA DequeStutter ==
  ASSUME DequeInv, UNCHANGED <<ring, head, tail, size, want, spoilt>>
  PROVE  DequeInv'
BY DEF DequeInv, D!TypeOK, D!Slots, RingHolds

-----------------------------------------------------------------------------
(* LinkedLists.                                                             *)

LinkNodes == [data : Elements, prev : K!Addresses \cup {K!Null}, next : K!Addresses \cup {K!Null}]

\* The n addresses p are where the pointers of the nodes f lead from h on: no
\* address twice, and no node elsewhere.
Path(p, n, f, h) ==
  /\ p \in [1..n -> K!Addresses]
  /\ \A i, j \in 1..n : p[i] = p[j] => i = j
  /\ \A i \in 1..n : p[i] \in DOMAIN f
  /\ \A q \in DOMAIN f : \E i \in 1..n : q = p[i]
  /\ n = 0 => h = K!Null
  /\ n > 0 => h = p[1]
  /\ \A i \in 1..n : f[p[i]] \in LinkNodes
  /\ \A i \in 1..(n - 1) : f[p[i]].next = p[i + 1]
  /\ n > 0 => f[p[n]].next = K!Null

\* The place of the i-th node's element among n that the callers asked for.
Place(i, n, d) == IF d THEN i ELSE n + 1 - i

\* A list with the nodes f at the addresses p and the elements w.
LinkHolds(p, n, f, h, t, d, w) ==
  /\ Path(p, n, f, h)
  /\ \A i \in 1..n : f[p[i]].data = w[Place(i, n, d)]
  /\ d /\ n > 0 => t = p[n]

LinkInv ==
  /\ K!TypeOK
  /\ spoilt = {} /\ alive =>
       /\ size = Len(want)
       /\ \E p : LinkHolds(p, size, nodes, head, tail, double, want)

\* The count of the module's instance is the library's.
LEMMA Counted == \A S0 : K!Cardinality(S0) = Cardinality(S0)
BY DEF K!Cardinality, Cardinality

\* There is an address for every element and one more.
LEMMA HowMany == /\ IsFiniteSet(K!Addresses) /\ Cardinality(K!Addresses) = MaxElements + 1
                 /\ MaxElements \in Nat
BY FS_Interval, CollectionsAssumption DEF K!Addresses

\* A list that is not full has a free address.
LEMMA FreshIsFree ==
  ASSUME NEW n \in Nat, n <= MaxElements, NEW p \in [1..n -> K!Addresses],
         \A q \in DOMAIN nodes : \E i \in 1..n : q = p[i]
  PROVE  K!fresh \in K!Addresses /\ K!fresh \notin DOMAIN nodes
<1> DEFINE A == K!Addresses \ DOMAIN nodes
<1>1. A # {}
  <2>1. SUFFICES ASSUME K!Addresses \subseteq DOMAIN nodes PROVE FALSE
    OBVIOUS
  <2>2. p \in Surjection(1..n, K!Addresses)
    <3>1. \A q \in K!Addresses : \E i \in 1..n : p[i] = q
      BY <2>1
    <3> QED BY <3>1 DEF Surjection
  <2>3. ExistsSurjection(1..n, K!Addresses)
    BY <2>2 DEF ExistsSurjection
  <2>4. Cardinality(K!Addresses) <= n
    BY <2>3, FS_SurjCardinalityBound
  <2> QED BY <2>4, HowMany
<1>2. A \subseteq Nat
  BY HowMany DEF K!Addresses
<1>3. PICK x \in A : \A y \in A : ~ (<<y, x>> \in OpToRel(<, Nat))
  BY <1>1, <1>2, WFMin, NatLessThanWellFounded, Zenon
<1>4. \A y \in A : ~ (y < x)
  BY <1>2, <1>3, Zenon DEF OpToRel
<1>5. \A y \in A : x <= y
  BY <1>2, <1>4
<1> QED BY <1>5 DEF K!fresh

\* The addresses an iterator meets are the path's.
LEMMA ChainIsPath ==
  ASSUME NEW n \in Nat, n <= MaxElements, NEW p, Path(p, n, nodes, head)
  PROVE  K!Chain = p
<1> DEFINE N == K!Cardinality(K!Addresses)
           Step(f, k) == IF k = 0 THEN head
                         ELSE IF f[k - 1] \in DOMAIN nodes THEN nodes[f[k - 1]].next ELSE K!Null
           g == [k \in 0..N |-> IF k < n THEN p[k + 1] ELSE K!Null]
           at == CHOOSE at : at = [k \in 0..N |->
                                     IF k = 0 THEN head
                                     ELSE IF at[k - 1] \in DOMAIN nodes
                                          THEN nodes[at[k - 1]].next ELSE K!Null]
<1>1. N \in Nat /\ N = MaxElements + 1 /\ n < N
  BY Counted, HowMany
<1>2. /\ p \in [1..n -> K!Addresses] /\ K!Null \notin K!Addresses
      /\ \A i \in 1..n : p[i] \in DOMAIN nodes
      /\ K!Null \notin DOMAIN nodes
      /\ n = 0 => head = K!Null
      /\ n > 0 => head = p[1]
      /\ \A i \in 1..(n - 1) : nodes[p[i]].next = p[i + 1]
      /\ n > 0 => nodes[p[n]].next = K!Null
  BY HowMany DEF Path, K!Addresses, K!Null
<1>3. \A k \in 0..N : g[k] = Step(g, k)
  <2>1. ASSUME NEW k \in 0..N, k = 0 PROVE g[k] = Step(g, k)
    BY <1>1, <1>2, <2>1
  <2>2. ASSUME NEW k \in 0..N, k > 0, k - 1 < n PROVE g[k] = Step(g, k)
    <3>1. k \in 1..n /\ k - 1 \in 0..N /\ g[k - 1] = p[k] /\ k # 0
      BY <1>1, <2>2
    <3>2. Step(g, k) = nodes[p[k]].next
      BY <1>2, <3>1
    <3>3. CASE k = n
      BY <1>2, <2>2, <3>1, <3>2, <3>3
    <3>4. CASE k # n
      <4>1. k \in 1..(n - 1) /\ k < n
        BY <3>1, <3>4
      <4> QED BY <1>2, <2>2, <3>2, <4>1
    <3> QED BY <3>3, <3>4
  <2>3. ASSUME NEW k \in 0..N, k > 0, ~ (k - 1 < n) PROVE g[k] = Step(g, k)
    <3>1. k - 1 \in 0..N /\ g[k - 1] = K!Null /\ g[k] = K!Null /\ k # 0
      BY <1>1, <2>3
    <3> QED BY <1>2, <3>1
  <2> QED BY <1>1, <2>1, <2>2, <2>3
<1>4. g = [k \in 0..N |-> Step(g, k)]
  <2>1. g = [k \in 0..N |-> g[k]]
    OBVIOUS
  <2> HIDE DEF g, N
  <2> QED BY <1>3, <2>1
<1>5. ASSUME NEW f, f = [k \in 0..N |-> Step(f, k)] PROVE f = g
  <2> DEFINE Bad == {k \in 0..N : f[k] # g[k]}
  <2>1. SUFFICES ASSUME Bad # {} PROVE FALSE
    <3>1. f = [k \in 0..N |-> f[k]] /\ g = [k \in 0..N |-> g[k]]
      BY <1>5
    <3> HIDE DEF g, N
    <3> QED BY <3>1
  <2>2. Bad \subseteq Nat
    BY <1>1
  <2> HIDE DEF Bad
  <2>3. PICK x \in Bad : \A y \in Bad : ~ (<<y, x>> \in OpToRel(<, Nat))
    BY <2>1, <2>2, WFMin, NatLessThanWellFounded, Zenon
  <2>4. \A y \in Bad : ~ (y < x)
    BY <2>2, <2>3, Zenon DEF OpToRel
  <2>5. x \in 0..N /\ f[x] # g[x]
    BY <2>3, Zenon DEF Bad
  <2>6. f[x] = Step(f, x) /\ g[x] = Step(g, x)
    <3> HIDE DEF g, N
    <3> QED BY <1>3, <1>5, <2>5
  <2>7. x # 0
    <3> HIDE DEF g
    <3> QED BY <2>5, <2>6
  <2>8. x - 1 \in 0..N /\ x - 1 < x
    BY <1>1, <2>5, <2>7
  <2>9. f[x - 1] = g[x - 1]
    <3> HIDE DEF g, N
    <3> QED BY <2>4, <2>8 DEF Bad
  <2>10. Step(f, x) = Step(g, x)
    <3> HIDE DEF g, N
    <3> QED BY <2>7, <2>9
  <2> QED BY <2>5, <2>6, <2>10
<1>6. at = g
  <2>1. \E f : f = [k \in 0..N |-> Step(f, k)]
    BY <1>4
  <2>2. at = [k \in 0..N |-> Step(at, k)]
    BY <2>1
  <2> HIDE DEF at
  <2> QED BY <1>5, <2>2
<1>7. K!Chain = [k \in 1..K!Cardinality({k \in DOMAIN at : at[k] # K!Null}) |-> at[k - 1]]
  BY DEF K!Chain
<1> HIDE DEF at
<1>8. K!Cardinality({k \in DOMAIN g : g[k] # K!Null}) = n
  <2>1. {k \in DOMAIN g : g[k] # K!Null} = 0..(n - 1)
    <3>1. \A k \in 0..N : g[k] # K!Null <=> k < n
      <4>1. \A k \in 0..N : k < n => p[k + 1] \in K!Addresses
        BY <1>1, <1>2
      <4> QED BY <1>2, <4>1
    <3>2. DOMAIN g = 0..N
      OBVIOUS
    <3> HIDE DEF g, N
    <3> QED BY <1>1, <3>1, <3>2
  <2>2. Cardinality(0..(n - 1)) = n
    BY FS_Interval
  <2> QED BY <2>1, <2>2, Counted
<1>9. K!Chain = [k \in 1..n |-> g[k - 1]]
  BY <1>6, <1>7, <1>8
<1>10. \A k \in 1..n : g[k - 1] = p[k]
  BY <1>1
<1> HIDE DEF g
<1> QED BY <1>2, <1>9, <1>10

\* What can be said of every list whose pointers can be trusted.
LEMMA LinkHere ==
  ASSUME LinkInv, spoilt = {}, alive
  PROVE  \E n \in Nat, p \in Seq(K!Addresses) :
           /\ n = size /\ n = Len(want) /\ n <= MaxElements
           /\ want \in Seq(Elements) /\ want \in [1..n -> Elements]
           /\ LinkHolds(p, n, nodes, head, tail, double, want)
           /\ Path(p, n, nodes, head) /\ p \in [1..n -> K!Addresses]
           /\ K!Chain = p /\ DOMAIN K!Chain = 1..n
<1>1. want \in Seq(Elements) /\ size \in 0..MaxElements /\ size = Len(want)
  BY DEF LinkInv, K!TypeOK
<1>2. PICK n \in Nat : n = size /\ n <= MaxElements
  BY <1>1, HowMany
<1>3. PICK p : LinkHolds(p, n, nodes, head, tail, double, want)
  BY <1>2 DEF LinkInv
<1>4. Path(p, n, nodes, head)
  BY <1>3 DEF LinkHolds
<1>5. p \in [1..n -> K!Addresses]
  BY <1>4 DEF Path
<1>6. K!Chain = p
  BY <1>2, <1>4, ChainIsPath
<1>7. want \in [1..n -> Elements]
  BY <1>1, <1>2, LenProperties
<1>8. p \in Seq(K!Addresses)
  BY <1>2, <1>5, FirstPlaces
<1> QED BY <1>1, <1>2, <1>3, <1>4, <1>5, <1>6, <1>7, <1>8

\* A new list, singly or doubly linked, has the invariant.
LEMMA LinkInit ==
  ASSUME K!Init  PROVE LinkInv
<1>1. /\ double \in BOOLEAN /\ nodes = <<>> /\ head = K!Null /\ tail = K!Null /\ size = 0
      /\ want = <<>> /\ spoilt = {} /\ alive = TRUE
  BY DEF K!Init
<1>2. want \in Seq(Elements) /\ Len(want) = 0 /\ DOMAIN nodes = {}
  BY <1>1, EmptySeq
<1>3. K!TypeOK
  BY <1>1, <1>2, HowMany DEF K!TypeOK
<1>4. LinkHolds(<<>>, 0, nodes, head, tail, double, want)
  <2>1. <<>> \in [1..0 -> K!Addresses] /\ 1..0 = {}
    BY EmptySeq, LenProperties
  <2> QED BY <1>1, <1>2, <2>1 DEF LinkHolds, Path
<1> QED BY <1>1, <1>2, <1>3, <1>4 DEF LinkInv

\* The walks over the nodes give the elements, from both ends.
LEMMA LinkHeld ==
  ASSUME LinkInv  PROVE K!Held
<1>0. SUFFICES ASSUME spoilt = {}, alive
      PROVE  /\ K!Forward = IF double THEN want ELSE K!Reverse(want)
             /\ size = Len(want)
             /\ K!Range(K!Chain) = DOMAIN nodes
             /\ double /\ want # <<>> => tail = K!Last(K!Chain)
  BY DEF K!Held
<1>2. PICK n \in Nat, p \in Seq(K!Addresses) :
        /\ n = size /\ n = Len(want) /\ n <= MaxElements
        /\ want \in Seq(Elements) /\ want \in [1..n -> Elements]
        /\ LinkHolds(p, n, nodes, head, tail, double, want)
        /\ Path(p, n, nodes, head) /\ p \in [1..n -> K!Addresses]
        /\ K!Chain = p /\ DOMAIN K!Chain = 1..n
  BY <1>0, LinkHere
<1>3. /\ \A i \in 1..n : p[i] \in DOMAIN nodes
      /\ \A q \in DOMAIN nodes : \E i \in 1..n : q = p[i]
  BY <1>2 DEF Path
<1>4. K!Forward = [k \in 1..n |-> want[Place(k, n, double)]]
  <2>1. K!Forward = [k \in 1..n |-> IF p[k] \in DOMAIN nodes THEN nodes[p[k]].data ELSE "freed"]
    BY <1>2 DEF K!Forward
  <2>2. \A k \in 1..n : nodes[p[k]].data = want[Place(k, n, double)]
    BY <1>2 DEF LinkHolds
  <2> QED BY <1>3, <2>1, <2>2
<1>5. K!Forward = IF double THEN want ELSE K!Reverse(want)
  <2>1. double \in BOOLEAN
    BY DEF LinkInv, K!TypeOK
  <2>2. CASE double
    BY <1>2, <1>4, <2>2 DEF Place
  <2>3. CASE ~ double
    <3>1. K!Reverse(want) = [i \in 1..n |-> want[(n - i) + 1]]
      BY <1>2 DEF K!Reverse
    <3>2. \A k \in 1..n : Place(k, n, double) = (n - k) + 1
      BY <2>3 DEF Place
    <3> QED BY <1>4, <2>3, <3>1, <3>2
  <2> QED BY <2>1, <2>2, <2>3
<1>6. K!Range(K!Chain) = DOMAIN nodes
  <2>1. K!Range(K!Chain) = {p[i] : i \in 1..n}
    BY <1>2 DEF K!Range
  <2> QED BY <1>3, <2>1
<1>7. ASSUME double, want # <<>> PROVE tail = K!Last(K!Chain)
  <2>1. n > 0
    BY <1>2, <1>7, EmptySeq
  <2>2. Len(p) = n
    BY <1>2, FirstPlaces
  <2> QED BY <1>2, <1>7, <2>1, <2>2 DEF LinkHolds, K!Last
<1> QED BY <1>2, <1>5, <1>6, <1>7

\* The type is part of the invariant.
LEMMA LinkTyped == ASSUME LinkInv PROVE K!TypeOK
BY DEF LinkInv

\* What else changes does not concern the list.
LEMMA LinkStutter ==
  ASSUME LinkInv, UNCHANGED <<double, nodes, head, tail, size, want, spoilt, alive>>
  PROVE  LinkInv'
BY DEF LinkInv, K!TypeOK, LinkHolds

\* A node in front of a path.
LEMMA PathFront ==
  ASSUME NEW n \in Nat, NEW p, NEW f, NEW h, Path(p, n, f, h),
         NEW q \in K!Addresses, q \notin DOMAIN f,
         NEW g, DOMAIN g = DOMAIN f \cup {q}, \A a \in DOMAIN f : g[a] = f[a],
         g[q] \in LinkNodes, n = 0 => g[q].next = K!Null, n > 0 => g[q].next = h,
         NEW u \in [1..(n + 1) -> K!Addresses], u[1] = q, \A i \in 2..(n + 1) : u[i] = p[i - 1]
  PROVE  Path(u, n + 1, g, q)
<1>1. /\ p \in [1..n -> K!Addresses]
      /\ \A i, j \in 1..n : p[i] = p[j] => i = j
      /\ \A i \in 1..n : p[i] \in DOMAIN f
      /\ \A a \in DOMAIN f : \E i \in 1..n : a = p[i]
      /\ n > 0 => h = p[1]
      /\ \A i \in 1..n : f[p[i]] \in LinkNodes
      /\ \A i \in 1..(n - 1) : f[p[i]].next = p[i + 1]
      /\ n > 0 => f[p[n]].next = K!Null
  BY DEF Path
<1>2. \A i \in 2..(n + 1) : i - 1 \in 1..n /\ u[i] = p[i - 1] /\ u[i] \in DOMAIN f /\ u[i] # q
  BY <1>1
<1>3. \A i, j \in 1..(n + 1) : u[i] = u[j] => i = j
  <2>1. ASSUME NEW i \in 2..(n + 1), NEW j \in 2..(n + 1), u[i] = u[j] PROVE i = j
    <3>1. i - 1 = j - 1
      BY <1>1, <1>2, <2>1
    <3> QED BY <3>1
  <2>2. \A i \in 1..(n + 1) : i = 1 \/ i \in 2..(n + 1)
    OBVIOUS
  <2> QED BY <1>2, <2>1, <2>2
<1>4. \A i \in 1..(n + 1) : u[i] \in DOMAIN g /\ g[u[i]] \in LinkNodes
  <2>1. \A i \in 1..(n + 1) : i = 1 \/ i \in 2..(n + 1)
    OBVIOUS
  <2> QED BY <1>1, <1>2, <2>1
<1>5. \A a \in DOMAIN g : \E i \in 1..(n + 1) : a = u[i]
  <2>1. ASSUME NEW a \in DOMAIN f PROVE \E i \in 1..(n + 1) : a = u[i]
    <3>1. PICK i \in 1..n : a = p[i]
      BY <1>1
    <3>2. i + 1 \in 2..(n + 1) /\ i + 1 \in 1..(n + 1) /\ (i + 1) - 1 = i
      OBVIOUS
    <3>3. u[i + 1] = p[i]
      BY <3>2
    <3> QED BY <3>1, <3>2, <3>3
  <2> QED BY <2>1
<1>6. \A i \in 1..n : g[u[i]].next = u[i + 1]
  <2>1. ASSUME NEW i \in 1..n, i = 1 PROVE g[u[i]].next = u[i + 1]
    <3>1. n > 0 /\ 2 \in 2..(n + 1) /\ u[2] = p[1]
      BY <2>1
    <3> QED BY <1>1, <2>1, <3>1
  <2>2. ASSUME NEW i \in 1..n, i # 1 PROVE g[u[i]].next = u[i + 1]
    <3>1. i \in 2..(n + 1) /\ i - 1 \in 1..(n - 1) /\ i + 1 \in 2..(n + 1) /\ (i + 1) - 1 = (i - 1) + 1
      BY <2>2
    <3>2. u[i] = p[i - 1] /\ u[i] \in DOMAIN f /\ u[i + 1] = p[(i - 1) + 1]
      BY <1>2, <3>1
    <3> QED BY <1>1, <3>1, <3>2
  <2> QED BY <2>1, <2>2
<1>7. g[u[n + 1]].next = K!Null
  <2>1. CASE n = 0
    BY <2>1
  <2>2. CASE n # 0
    <3>1. n + 1 \in 2..(n + 1) /\ (n + 1) - 1 = n
      BY <2>2
    <3>2. u[n + 1] = p[n] /\ u[n + 1] \in DOMAIN f
      BY <1>2, <3>1
    <3> QED BY <1>1, <2>2, <3>2
  <2> QED BY <2>1, <2>2
<1> QED BY <1>3, <1>4, <1>5, <1>6, <1>7 DEF Path

\* A node behind a path; the last one learns of it.
LEMMA PathBack ==
  ASSUME NEW n \in Nat, NEW p, NEW f, NEW h, Path(p, n, f, h),
         NEW q \in K!Addresses, q \notin DOMAIN f,
         NEW g, DOMAIN g = DOMAIN f \cup {q}, \A a \in DOMAIN f : n = 0 \/ a # p[n] => g[a] = f[a],
         g[q] \in LinkNodes, g[q].next = K!Null,
         n > 0 => g[p[n]] \in LinkNodes /\ g[p[n]].next = q,
         NEW u \in [1..(n + 1) -> K!Addresses], u[n + 1] = q, \A i \in 1..n : u[i] = p[i],
         NEW k, n = 0 => k = q, n > 0 => k = h
  PROVE  Path(u, n + 1, g, k)
<1>1. /\ p \in [1..n -> K!Addresses]
      /\ \A i, j \in 1..n : p[i] = p[j] => i = j
      /\ \A i \in 1..n : p[i] \in DOMAIN f
      /\ \A a \in DOMAIN f : \E i \in 1..n : a = p[i]
      /\ n > 0 => h = p[1]
      /\ \A i \in 1..n : f[p[i]] \in LinkNodes
      /\ \A i \in 1..(n - 1) : f[p[i]].next = p[i + 1]
      /\ n > 0 => f[p[n]].next = K!Null
  BY DEF Path
<1>2. \A i \in 1..(n + 1) : i = n + 1 \/ i \in 1..n
  OBVIOUS
<1>3. \A i, j \in 1..(n + 1) : u[i] = u[j] => i = j
  BY <1>1, <1>2
<1>4. \A i \in 1..(n - 1) : i \in 1..n /\ n \in 1..n /\ i # n /\ i + 1 \in 1..n
  OBVIOUS
<1>5. \A i \in 1..(n - 1) : g[p[i]] = f[p[i]]
  BY <1>1, <1>4
<1>6. \A i \in 1..n : i = n \/ i \in 1..(n - 1)
  OBVIOUS
<1>7. \A i \in 1..(n + 1) : u[i] \in DOMAIN g /\ g[u[i]] \in LinkNodes
  BY <1>1, <1>2, <1>5, <1>6
<1>8. \A a \in DOMAIN g : \E i \in 1..(n + 1) : a = u[i]
  BY <1>1
<1>9. \A i \in 1..n : g[u[i]].next = u[i + 1]
  BY <1>1, <1>4, <1>5, <1>6
<1>10. n + 1 > 0 /\ k = u[1]
  <2>1. CASE n = 0
    BY <2>1
  <2>2. CASE n # 0
    BY <1>1, <2>2
  <2> QED BY <2>1, <2>2
<1>11. (n + 1) - 1 = n
  OBVIOUS
<1> QED BY <1>3, <1>7, <1>8, <1>9, <1>10, <1>11 DEF Path

\* Without the node in front.
LEMMA PathRest ==
  ASSUME NEW n \in Nat, NEW p, NEW f, NEW h, Path(p, n, f, h), n > 0,
         NEW g, DOMAIN g = DOMAIN f \ {h}, \A a \in DOMAIN g : g[a] = f[a],
         NEW u \in [1..(n - 1) -> K!Addresses], \A i \in 1..(n - 1) : u[i] = p[i + 1]
  PROVE  /\ h \in DOMAIN f /\ f[h] \in LinkNodes
         /\ Path(u, n - 1, g, f[h].next)
<1>1. /\ p \in [1..n -> K!Addresses]
      /\ \A i, j \in 1..n : p[i] = p[j] => i = j
      /\ \A i \in 1..n : p[i] \in DOMAIN f
      /\ \A a \in DOMAIN f : \E i \in 1..n : a = p[i]
      /\ h = p[1] /\ 1 \in 1..n
      /\ \A i \in 1..n : f[p[i]] \in LinkNodes
      /\ \A i \in 1..(n - 1) : f[p[i]].next = p[i + 1]
      /\ f[p[n]].next = K!Null
  BY DEF Path
<1>2. \A i \in 1..(n - 1) : i \in 1..n /\ i + 1 \in 1..n /\ i + 1 # 1
  OBVIOUS
<1>3. \A i \in 1..(n - 1) : u[i] = p[i + 1] /\ u[i] \in DOMAIN g /\ g[u[i]] = f[p[i + 1]]
  BY <1>1, <1>2
<1>4. \A i, j \in 1..(n - 1) : u[i] = u[j] => i = j
  <2>1. ASSUME NEW i \in 1..(n - 1), NEW j \in 1..(n - 1), u[i] = u[j] PROVE i = j
    <3>1. i + 1 = j + 1
      BY <1>1, <1>2, <1>3, <2>1
    <3> QED BY <3>1
  <2> QED BY <2>1
<1>5. \A a \in DOMAIN g : \E i \in 1..(n - 1) : a = u[i]
  <2>1. ASSUME NEW a \in DOMAIN g PROVE \E i \in 1..(n - 1) : a = u[i]
    <3>1. PICK j \in 1..n : a = p[j]
      BY <1>1
    <3>2. j # 1
      BY <1>1, <3>1
    <3>3. j - 1 \in 1..(n - 1) /\ (j - 1) + 1 = j
      BY <3>2
    <3>4. u[j - 1] = p[j]
      BY <1>3, <3>3
    <3> QED BY <3>1, <3>3, <3>4
  <2> QED BY <2>1
<1>6. \A i \in 1..(n - 1) : g[u[i]] \in LinkNodes
  BY <1>1, <1>2, <1>3
<1>7. \A i \in 1..((n - 1) - 1) : g[u[i]].next = u[i + 1]
  <2>1. ASSUME NEW i \in 1..((n - 1) - 1) PROVE g[u[i]].next = u[i + 1]
    <3>1. i \in 1..(n - 1) /\ i + 1 \in 1..(n - 1)
      OBVIOUS
    <3> QED BY <1>1, <1>3, <3>1
  <2> QED BY <2>1
<1>8. n - 1 > 0 => g[u[n - 1]].next = K!Null
  <2>1. ASSUME n - 1 > 0 PROVE g[u[n - 1]].next = K!Null
    <3>1. n - 1 \in 1..(n - 1) /\ (n - 1) + 1 = n
      BY <2>1
    <3>2. g[u[n - 1]] = f[p[n]]
      BY <1>3, <3>1
    <3> QED BY <1>1, <3>2
  <2> QED BY <2>1
<1>9. n - 1 = 0 => f[h].next = K!Null
  BY <1>1
<1>10. n - 1 > 0 => f[h].next = u[1]
  BY <1>1
<1> QED BY <1>1, <1>3, <1>4, <1>5, <1>6, <1>7, <1>8, <1>9, <1>10 DEF Path

\* The elements x are w and v, in front or, of a stack, at the end.
Joined(w, x, v, n, d) ==
  /\ d \in BOOLEAN
  /\ d => x[1] = v /\ \A i \in 1..n : x[i + 1] = w[i]
  /\ ~ d => x[n + 1] = v /\ \A i \in 1..n : x[i] = w[i]

\* The nodes g are f and a node for v at q, which leads to h.
Noded(f, g, q, v, h, n) ==
  /\ q \in K!Addresses /\ q \notin DOMAIN f
  /\ DOMAIN g = DOMAIN f \cup {q} /\ \A a \in DOMAIN f : g[a] = f[a]
  /\ g[q] \in LinkNodes /\ g[q].data = v
  /\ n = 0 => g[q].next = K!Null
  /\ n > 0 => g[q].next = h

\* The tail, which only the first node moves.
Tailed(z, t, q, n, d) ==
  /\ d /\ n = 0 => z = q
  /\ n > 0 => z = t

\* A node in front of a list makes a list.
LEMMA HoldsFront ==
  ASSUME NEW n \in Nat, NEW p, NEW f, NEW h, NEW t, NEW d, NEW w,
         LinkHolds(p, n, f, h, t, d, w),
         NEW q, NEW v, NEW g, Noded(f, g, q, v, h, n), NEW x, Joined(w, x, v, n, d),
         NEW z, Tailed(z, t, q, n, d),
         NEW m \in Nat, n < m, m <= n + 1
  PROVE  \E u : LinkHolds(u, m, g, q, z, d, x)
<1>1. Path(p, n, f, h) /\ p \in [1..n -> K!Addresses]
  BY DEF LinkHolds, Path
<1>9. /\ q \in K!Addresses /\ q \notin DOMAIN f
      /\ DOMAIN g = DOMAIN f \cup {q} /\ \A a \in DOMAIN f : g[a] = f[a]
      /\ g[q] \in LinkNodes /\ g[q].data = v
      /\ n = 0 => g[q].next = K!Null
      /\ n > 0 => g[q].next = h
  BY DEF Noded
<1>10. /\ d \in BOOLEAN
       /\ d => x[1] = v /\ \A i \in 1..n : x[i + 1] = w[i]
       /\ ~ d => x[n + 1] = v /\ \A i \in 1..n : x[i] = w[i]
  BY DEF Joined
<1>11. /\ d /\ n = 0 => z = q
       /\ n > 0 => z = t
  BY DEF Tailed
<1>2. PICK u : u = [i \in 1..(n + 1) |-> IF i = 1 THEN q ELSE p[i - 1]]
  OBVIOUS
<1>3. u \in [1..(n + 1) -> K!Addresses] /\ u[1] = q /\ \A i \in 2..(n + 1) : u[i] = p[i - 1]
  <2>1. \A i \in 1..(n + 1) : i # 1 => i - 1 \in 1..n
    OBVIOUS
  <2> QED BY <1>1, <1>2, <1>9, <2>1
<1>4. Path(u, n + 1, g, q)
  BY <1>1, <1>3, <1>9, PathFront
<1>5. /\ \A i \in 1..n : p[i] \in DOMAIN f /\ f[p[i]].data = w[Place(i, n, d)]
      /\ d /\ n > 0 => t = p[n]
  BY DEF LinkHolds, Path
<1>6. \A i \in 1..(n + 1) : g[u[i]].data = x[Place(i, n + 1, d)]
  <2>1. g[u[1]].data = x[Place(1, n + 1, d)]
    <3>1. Place(1, n + 1, d) = IF d THEN 1 ELSE n + 1
      BY DEF Place
    <3> QED BY <1>3, <1>9, <1>10, <3>1
  <2>2. ASSUME NEW i \in 2..(n + 1) PROVE g[u[i]].data = x[Place(i, n + 1, d)]
    <3>1. i - 1 \in 1..n /\ u[i] = p[i - 1]
      BY <1>3, <2>2
    <3>2. g[u[i]].data = w[Place(i - 1, n, d)]
      BY <1>5, <1>9, <3>1
    <3>3. CASE d
      <4>1. Place(i - 1, n, d) = i - 1 /\ Place(i, n + 1, d) = (i - 1) + 1
        BY <2>2, <3>3 DEF Place
      <4> QED BY <1>10, <3>1, <3>2, <3>3, <4>1
    <3>4. CASE ~ d
      <4>1. Place(i - 1, n, d) = n + 2 - i /\ Place(i, n + 1, d) = n + 2 - i /\ n + 2 - i \in 1..n
        BY <2>2, <3>4 DEF Place
      <4> QED BY <1>10, <3>2, <3>4, <4>1
    <3> QED BY <1>10, <3>3, <3>4
  <2>3. \A i \in 1..(n + 1) : i = 1 \/ i \in 2..(n + 1)
    OBVIOUS
  <2> QED BY <2>1, <2>2, <2>3
<1>7. d => z = u[n + 1]
  <2>1. CASE n = 0
    BY <1>3, <1>11, <2>1
  <2>2. CASE n # 0
    <3>1. n + 1 \in 2..(n + 1) /\ (n + 1) - 1 = n
      BY <2>2
    <3> QED BY <1>3, <1>5, <1>11, <2>2, <3>1
  <2> QED BY <2>1, <2>2
<1>8. m = n + 1
  OBVIOUS
<1> QED BY <1>4, <1>6, <1>7, <1>8, <1>10 DEF LinkHolds

\* What is to be said of a step: either the pointers are no longer to be
\* trusted, or there is a path again.
LEMMA LinkBecomes ==
  ASSUME K!TypeOK', NEW n \in Nat, size' = n, Len(want') = n,
         NEW p, LinkHolds(p, n, nodes', head', tail', double', want')
  PROVE  LinkInv'
BY DEF LinkInv

\* A step that spoils the list only has to keep its type.
LEMMA LinkSpoilt ==
  ASSUME K!TypeOK', spoilt' # {} \/ ~ alive'
  PROVE  LinkInv'
BY DEF LinkInv

\* A new head, wherever the caller asked for the element.
LEMMA LinkAtHead ==
  ASSUME LinkInv, spoilt = {}, alive, NEW v \in Elements, Len(want) < MaxElements, K!AtHead(v),
         want' \in Seq(Elements), Len(want') = Len(want) + 1,
         Joined(want, want', v, Len(want), double)
  PROVE  LinkInv'
<1>1. PICK n \in Nat, p \in Seq(K!Addresses) :
        /\ n = size /\ n = Len(want) /\ n <= MaxElements
        /\ want \in Seq(Elements) /\ want \in [1..n -> Elements]
        /\ LinkHolds(p, n, nodes, head, tail, double, want)
        /\ Path(p, n, nodes, head) /\ p \in [1..n -> K!Addresses]
        /\ K!Chain = p /\ DOMAIN K!Chain = 1..n
  BY LinkHere
<1>2. PICK q : q = K!fresh
  OBVIOUS
<1>3. q \in K!Addresses /\ q \notin DOMAIN nodes
  BY <1>1, <1>2, FreshIsFree DEF Path
<1>4. PICK e : e = [data |-> v, prev |-> K!Null, next |-> IF n > 0 THEN head ELSE K!Null]
  OBVIOUS
<1>5. /\ nodes' = [a \in DOMAIN nodes \cup {q} |-> IF a = q THEN e ELSE nodes[a]]
      /\ head' = q /\ size' = n + 1
      /\ tail' = IF double /\ n = 0 THEN q ELSE tail
      /\ double' = double /\ spoilt' = spoilt /\ alive' = alive
  BY <1>1, <1>2, <1>4 DEF K!AtHead, K!With, K!Node
<1>6. head \in K!Addresses \cup {K!Null} /\ tail \in K!Addresses \cup {K!Null}
  BY DEF LinkInv, K!TypeOK
<1>7. e \in LinkNodes /\ e.data = v /\ (n = 0 => e.next = K!Null) /\ (n > 0 => e.next = head)
  BY <1>4, <1>6 DEF LinkNodes
<1>8. /\ DOMAIN nodes' = DOMAIN nodes \cup {q} /\ nodes'[q] = e
      /\ \A a \in DOMAIN nodes : nodes'[a] = nodes[a]
  BY <1>3, <1>5
<1>9. K!TypeOK'
  <2>1. n + 1 \in 0..MaxElements
    BY <1>1, HowMany
  <2> QED BY <1>1, <1>3, <1>5, <1>6, <1>8, <2>1 DEF LinkInv, K!TypeOK
<1>10. PICK m \in Nat : m = n + 1
  BY <1>1
<1>11. \E u : LinkHolds(u, m, nodes', head', tail', double', want')
  <2>1. n \in Nat /\ LinkHolds(p, n, nodes, head, tail, double, want)
    BY <1>1
  <2>2. Noded(nodes, nodes', q, v, head, n)
    BY <1>3, <1>7, <1>8 DEF Noded
  <2>3. Joined(want, want', v, n, double)
    BY <1>1
  <2>4. Tailed(tail', tail, q, n, double)
    BY <1>5 DEF Tailed
  <2>5. m \in Nat /\ n < m /\ m <= n + 1
    BY <1>1, <1>10
  <2>6. \E u : LinkHolds(u, m, nodes', q, tail', double, want')
    BY <2>1, <2>2, <2>3, <2>4, <2>5, HoldsFront
  <2> QED BY <1>5, <2>6
<1>12. PICK u : LinkHolds(u, m, nodes', head', tail', double', want')
  BY <1>11
<1>13. m \in Nat /\ size' = m /\ Len(want') = m
  BY <1>1, <1>5, <1>10
<1> QED BY <1>9, <1>12, <1>13, LinkBecomes

\* addFront() keeps the invariant.
LEMMA LinkAddFront ==
  ASSUME LinkInv, spoilt = {}, alive, NEW v \in Elements, Len(want) < MaxElements, K!addFront(v)
  PROVE  LinkInv'
<1>1. double /\ K!AtHead(v) /\ want' = <<v>> \o want
  BY DEF K!addFront
<1>2. want \in Seq(Elements) /\ <<v>> \in Seq(Elements) /\ Len(<<v>>) = 1 /\ <<v>>[1] = v
  BY DEF LinkInv, K!TypeOK
<1>3. PICK n \in Nat : n = Len(want)
  BY <1>2, LenProperties
<1>4. /\ want' \in Seq(Elements) /\ Len(want') = 1 + n
      /\ \A i \in 1..(1 + n) : want'[i] = IF i <= 1 THEN <<v>>[i] ELSE want[i - 1]
  BY <1>1, <1>2, <1>3, ConcatProperties
<1>5. want'[1] = v /\ \A i \in 1..n : want'[i + 1] = want[i]
  <2>1. 1 \in 1..(1 + n) /\ 1 <= 1
    OBVIOUS
  <2>2. \A i \in 1..n : i + 1 \in 1..(1 + n) /\ ~ (i + 1 <= 1) /\ (i + 1) - 1 = i
    OBVIOUS
  <2> QED BY <1>2, <1>4, <2>1, <2>2
<1>6. Len(want') = Len(want) + 1
  BY <1>3, <1>4
<1>7. Joined(want, want', v, Len(want), double)
  BY <1>1, <1>3, <1>5 DEF Joined, LinkInv, K!TypeOK
<1> QED BY <1>1, <1>4, <1>6, <1>7, LinkAtHead

\* push() keeps the invariant.
LEMMA LinkPush ==
  ASSUME LinkInv, spoilt = {}, alive, NEW v \in Elements, Len(want) < MaxElements, K!push(v)
  PROVE  LinkInv'
<1>1. ~ double /\ K!AtHead(v) /\ want' = Append(want, v)
  BY DEF K!push
<1>2. want \in Seq(Elements)
  BY DEF LinkInv, K!TypeOK
<1>3. /\ want' \in Seq(Elements) /\ Len(want') = Len(want) + 1
      /\ want'[Len(want) + 1] = v /\ \A i \in 1..Len(want) : want'[i] = want[i]
  BY <1>1, <1>2
<1>4. Joined(want, want', v, Len(want), double)
  BY <1>1, <1>3 DEF Joined, LinkInv, K!TypeOK
<1> QED BY <1>1, <1>3, <1>4, LinkAtHead

\* The nodes g are f and a node for v at q, which the node at t leads to.
BackNoded(f, g, q, v, t, n) ==
  /\ q \in K!Addresses /\ q \notin DOMAIN f
  /\ DOMAIN g = DOMAIN f \cup {q}
  /\ g[q] \in LinkNodes /\ g[q].data = v /\ g[q].next = K!Null
  /\ \A a \in DOMAIN f : g[a] = IF n > 0 /\ a = t THEN [f[a] EXCEPT !.next = q] ELSE f[a]

\* The elements x are w and v, in a list that has a tail.
Appended(w, x, v, n, d) == d = TRUE /\ x[n + 1] = v /\ \A i \in 1..n : x[i] = w[i]

\* The head, which only the first node moves.
Headed(k, h, q, n) ==
  /\ n = 0 => k = q
  /\ n > 0 => k = h

\* A node behind a list makes a list.
LEMMA HoldsBack ==
  ASSUME NEW n \in Nat, NEW p, NEW f, NEW h, NEW t, NEW d, NEW w,
         LinkHolds(p, n, f, h, t, d, w),
         NEW q, NEW v, NEW g, BackNoded(f, g, q, v, t, n), NEW x, Appended(w, x, v, n, d),
         NEW k, Headed(k, h, q, n),
         NEW m \in Nat, n < m, m <= n + 1
  PROVE  \E u : LinkHolds(u, m, g, k, q, d, x)
<1>0. d = TRUE
  BY DEF Appended
<1>1. /\ Path(p, n, f, h) /\ p \in [1..n -> K!Addresses]
      /\ \A i, j \in 1..n : p[i] = p[j] => i = j
      /\ \A i \in 1..n : p[i] \in DOMAIN f /\ f[p[i]] \in LinkNodes
      /\ \A i \in 1..n : f[p[i]].data = w[i]
      /\ n > 0 => t = p[n]
  BY <1>0 DEF LinkHolds, Path, Place
<1>2. /\ q \in K!Addresses /\ q \notin DOMAIN f
      /\ DOMAIN g = DOMAIN f \cup {q}
      /\ g[q] \in LinkNodes /\ g[q].data = v /\ g[q].next = K!Null
      /\ \A a \in DOMAIN f : g[a] = IF n > 0 /\ a = t THEN [f[a] EXCEPT !.next = q] ELSE f[a]
  BY DEF BackNoded
<1>3. PICK u : u = [i \in 1..(n + 1) |-> IF i = n + 1 THEN q ELSE p[i]]
  OBVIOUS
<1>4. u \in [1..(n + 1) -> K!Addresses] /\ u[n + 1] = q /\ \A i \in 1..n : u[i] = p[i]
  <2>1. \A i \in 1..(n + 1) : i # n + 1 => i \in 1..n
    OBVIOUS
  <2> QED BY <1>1, <1>2, <1>3, <2>1
<1>5. n > 0 => g[p[n]] \in LinkNodes /\ g[p[n]].next = q /\ g[p[n]].data = f[p[n]].data
  <2>1. ASSUME n > 0
        PROVE g[p[n]] \in LinkNodes /\ g[p[n]].next = q /\ g[p[n]].data = f[p[n]].data
    <3>1. n \in 1..n
      BY <2>1
    <3>2. PICK c : c \in LinkNodes /\ c = f[p[n]]
      BY <1>1, <3>1
    <3>3. g[p[n]] = [c EXCEPT !.next = q]
      BY <1>1, <1>2, <2>1, <3>1, <3>2
    <3> QED BY <1>2, <3>2, <3>3 DEF LinkNodes
  <2> QED BY <2>1
<1>6. \A a \in DOMAIN f : n = 0 \/ a # p[n] => g[a] = f[a]
  BY <1>1, <1>2
<1>7. Path(u, n + 1, g, k)
  BY <1>1, <1>2, <1>4, <1>5, <1>6, PathBack DEF Headed
<1>8. \A i \in 1..(n + 1) : g[u[i]].data = x[i]
  <2>1. g[u[n + 1]].data = x[n + 1]
    BY <1>2, <1>4 DEF Appended
  <2>2. ASSUME NEW i \in 1..n PROVE g[u[i]].data = x[i]
    <3>1. x[i] = w[i] /\ u[i] = p[i] /\ f[p[i]].data = w[i]
      BY <1>1, <1>4 DEF Appended
    <3>2. g[p[i]].data = f[p[i]].data
      <4>1. CASE i = n
        BY <1>5, <4>1
      <4>2. CASE i # n
        <5>1. n \in 1..n /\ p[i] # p[n]
          BY <1>1, <4>2
        <5> QED BY <1>1, <1>6, <5>1
      <4> QED BY <4>1, <4>2
    <3> QED BY <3>1, <3>2
  <2>3. \A i \in 1..(n + 1) : i = n + 1 \/ i \in 1..n
    OBVIOUS
  <2> QED BY <2>1, <2>2, <2>3
<1>9. m = n + 1 /\ \A i \in 1..m : Place(i, m, d) = i
  BY <1>0 DEF Place
<1> QED BY <1>4, <1>7, <1>8, <1>9 DEF LinkHolds

\* addBack() keeps the invariant.
LEMMA LinkAddBack ==
  ASSUME LinkInv, spoilt = {}, alive, NEW v \in Elements, Len(want) < MaxElements, K!addBack(v)
  PROVE  LinkInv'
<1>1. PICK n \in Nat, p \in Seq(K!Addresses) :
        /\ n = size /\ n = Len(want) /\ n <= MaxElements
        /\ want \in Seq(Elements) /\ want \in [1..n -> Elements]
        /\ LinkHolds(p, n, nodes, head, tail, double, want)
        /\ Path(p, n, nodes, head) /\ p \in [1..n -> K!Addresses]
        /\ K!Chain = p /\ DOMAIN K!Chain = 1..n
  BY LinkHere
<1>2. PICK q : q = K!fresh
  OBVIOUS
<1>3. q \in K!Addresses /\ q \notin DOMAIN nodes
  BY <1>1, <1>2, FreshIsFree DEF Path
<1>4. /\ head \in K!Addresses \cup {K!Null} /\ tail \in K!Addresses \cup {K!Null}
      /\ double = TRUE
  BY DEF LinkInv, K!TypeOK, K!addBack, K!addBackTo
<1>5. PICK e : e = [data |-> v, prev |-> IF n = 0 THEN K!Null ELSE tail, next |-> K!Null]
  OBVIOUS
<1>6. PICK old : old = [a \in DOMAIN nodes \cup {q} |-> IF a = q THEN e ELSE nodes[a]]
  OBVIOUS
<1>7. /\ n = 0 => nodes' = old /\ head' = q
      /\ n # 0 => nodes' = [old EXCEPT ![tail].next = q] /\ head' = head
      /\ tail' = q /\ size' = n + 1 /\ want' = Append(want, v)
      /\ double' = double /\ spoilt' = spoilt /\ alive' = alive
  BY <1>1, <1>2, <1>5, <1>6 DEF K!addBack, K!addBackTo, K!With, K!Node
<1>8. e \in LinkNodes /\ e.data = v /\ e.next = K!Null
  BY <1>4, <1>5 DEF LinkNodes
<1>9. n # 0 => tail \in DOMAIN nodes
  BY <1>1, <1>4 DEF LinkHolds, Path
<1>10. BackNoded(nodes, nodes', q, v, tail, n)
  <2>1. CASE n = 0
    BY <1>3, <1>6, <1>7, <1>8, <2>1 DEF BackNoded
  <2>2. CASE n # 0
    <3>1. tail # q /\ tail \in DOMAIN old /\ old[tail] = nodes[tail]
      BY <1>3, <1>6, <1>9, <2>2
    <3>2. nodes' = [a \in DOMAIN old |-> IF a = tail THEN [nodes[tail] EXCEPT !.next = q] ELSE old[a]]
      BY <1>7, <2>2, <3>1
    <3>3. DOMAIN nodes' = DOMAIN nodes \cup {q} /\ nodes'[q] = e
      BY <1>6, <3>1, <3>2
    <3>4. \A a \in DOMAIN nodes :
            nodes'[a] = IF n > 0 /\ a = tail THEN [nodes[a] EXCEPT !.next = q] ELSE nodes[a]
      BY <1>1, <1>3, <1>6, <2>2, <3>2
    <3> QED BY <1>3, <1>8, <3>3, <3>4 DEF BackNoded
  <2> QED BY <2>1, <2>2
<1>11. want' \in Seq(Elements) /\ Len(want') = n + 1 /\ Appended(want, want', v, n, double)
  BY <1>1, <1>4, <1>7 DEF Appended
<1>12. K!TypeOK'
  <2>1. n + 1 \in 0..MaxElements
    BY <1>1, HowMany
  <2>2. DOMAIN nodes' = DOMAIN nodes \cup {q}
    BY <1>10 DEF BackNoded
  <2> QED BY <1>3, <1>4, <1>7, <1>11, <2>1, <2>2 DEF LinkInv, K!TypeOK
<1>13. PICK m \in Nat : m = n + 1
  BY <1>1
<1>14. \E u : LinkHolds(u, m, nodes', head', q, double, want')
  <2>1. n \in Nat /\ LinkHolds(p, n, nodes, head, tail, double, want)
    BY <1>1
  <2>2. m \in Nat /\ n < m /\ m <= n + 1
    BY <1>1, <1>13
  <2>3. Headed(head', head, q, n)
    BY <1>7 DEF Headed
  <2>4. Appended(want, want', v, n, double)
    BY <1>11
  <2> QED BY <1>10, <2>1, <2>2, <2>3, <2>4, HoldsBack
<1>15. PICK u : LinkHolds(u, m, nodes', head', tail', double', want')
  BY <1>4, <1>7, <1>14
<1>16. m \in Nat /\ size' = m /\ Len(want') = m
  BY <1>7, <1>11, <1>13
<1> QED BY <1>12, <1>15, <1>16, LinkBecomes

\* addBack(T&&) into an empty list does what addBack() does, and into another
\* makes a ring.
LEMMA LinkAddBackMoved ==
  ASSUME LinkInv, spoilt = {}, alive, NEW v \in Elements, Len(want) < MaxElements, K!addBackMoved(v)
  PROVE  LinkInv'
<1>1. CASE size = 0
  <2>1. K!addBack(v)
    BY <1>1 DEF K!addBackMoved, K!addBack, K!addBackTo
  <2> QED BY <2>1, LinkAddBack
<1>2. CASE size # 0
  <2>1. PICK n \in Nat : n = size /\ n = Len(want) /\ want \in Seq(Elements)
    BY LinkHere
  <2>2. K!fresh \in K!Addresses
    <3>1. PICK m \in Nat, p \in Seq(K!Addresses) :
            m = size /\ m <= MaxElements /\ m = Len(want) /\ Path(p, m, nodes, head)
      BY LinkHere
    <3> QED BY <3>1, FreshIsFree DEF Path
  <2>3. PICK e, q : /\ q = K!fresh /\ q \in K!Addresses
                    /\ e = [a \in DOMAIN nodes \cup {q} |->
                              IF a = q THEN K!Node(v, tail, head) ELSE nodes[a]]
    BY <2>2
  <2>4. /\ nodes' = [e EXCEPT ![tail].next = q] /\ head' = head
        /\ tail' = q /\ size' = size + 1 /\ want' = Append(want, v)
        /\ double' = double /\ spoilt' = {"cycle"} /\ alive' = alive
    <3>1. size > 0
      BY <1>2, <2>1
    <3>2. spoilt' = {"cycle"} /\ K!addBackTo(v, head)
      BY <3>1 DEF K!addBackMoved
    <3>3. /\ nodes' = [K!With(K!fresh, K!Node(v, tail, head)) EXCEPT ![tail].next = K!fresh]
          /\ head' = head /\ tail' = K!fresh /\ size' = size + 1 /\ want' = Append(want, v)
          /\ double' = double /\ alive' = alive
      BY <1>2, <3>2 DEF K!addBackTo
    <3>4. e = K!With(K!fresh, K!Node(v, tail, head))
      BY <2>3 DEF K!With
    <3> QED BY <2>3, <3>2, <3>3, <3>4
  <2>5. DOMAIN nodes' = DOMAIN nodes \cup {q}
    BY <2>3, <2>4
  <2>6. n + 1 \in 0..MaxElements /\ want' \in Seq(Elements)
    BY <2>1, <2>4, HowMany
  <2>7. K!TypeOK'
    BY <2>1, <2>3, <2>4, <2>5, <2>6 DEF LinkInv, K!TypeOK
  <2> QED BY <2>4, <2>7, LinkSpoilt
<1> QED BY <1>1, <1>2

\* The nodes g are f without the one at h; the elements x are w without the
\* first or, of a stack, the last.
Unlinked(f, g, h) == DOMAIN g = DOMAIN f \ {h} /\ \A a \in DOMAIN g : g[a] = f[a]
Left(w, x, n, d) ==
  /\ d \in BOOLEAN
  /\ d => \A i \in 1..(n - 1) : x[i] = w[i + 1]
  /\ ~ d => \A i \in 1..(n - 1) : x[i] = w[i]

\* What is left of a list without its head is a list.
LEMMA HoldsRest ==
  ASSUME NEW n \in Nat, NEW p, NEW f, NEW h, NEW t, NEW d, NEW w,
         LinkHolds(p, n, f, h, t, d, w), n > 0,
         NEW g, Unlinked(f, g, h), NEW x, Left(w, x, n, d),
         NEW m \in Nat, m < n, n <= m + 1
  PROVE  /\ h \in DOMAIN f /\ f[h] \in LinkNodes
         /\ \E u : LinkHolds(u, m, g, f[h].next, t, d, x)
<1>1. /\ Path(p, n, f, h) /\ p \in [1..n -> K!Addresses]
      /\ \A i \in 1..n : f[p[i]].data = w[Place(i, n, d)] /\ p[i] \in DOMAIN f
      /\ d => t = p[n]
      /\ \A i, j \in 1..n : p[i] = p[j] => i = j
      /\ h = p[1]
  BY DEF LinkHolds, Path
<1>2. DOMAIN g = DOMAIN f \ {h} /\ \A a \in DOMAIN g : g[a] = f[a]
  BY DEF Unlinked
<1>3. PICK u : u = [i \in 1..(n - 1) |-> p[i + 1]]
  OBVIOUS
<1>4. u \in [1..(n - 1) -> K!Addresses] /\ \A i \in 1..(n - 1) : u[i] = p[i + 1]
  <2>1. \A i \in 1..(n - 1) : i + 1 \in 1..n
    OBVIOUS
  <2> QED BY <1>1, <1>3, <2>1
<1>5. /\ h \in DOMAIN f /\ f[h] \in LinkNodes
      /\ Path(u, n - 1, g, f[h].next)
  <2>1. Path(p, n, f, h)
    BY <1>1
  <2> QED BY <1>2, <1>4, <2>1, PathRest
<1>6. ASSUME NEW i \in 1..(n - 1) PROVE g[u[i]].data = x[Place(i, n - 1, d)]
  <2>1. i + 1 \in 1..n /\ 1 \in 1..n /\ i + 1 # 1 /\ u[i] = p[i + 1]
    BY <1>4
  <2>2. g[u[i]] = f[p[i + 1]]
    BY <1>1, <1>2, <2>1
  <2>3. g[u[i]].data = w[Place(i + 1, n, d)]
    BY <1>1, <2>1, <2>2
  <2>4. CASE d
    <3>1. Place(i + 1, n, d) = i + 1 /\ Place(i, n - 1, d) = i
      BY <2>4 DEF Place
    <3> QED BY <2>3, <2>4, <3>1 DEF Left
  <2>5. CASE ~ d
    <3>1. Place(i + 1, n, d) = n - i /\ Place(i, n - 1, d) = n - i /\ n - i \in 1..(n - 1)
      BY <2>5 DEF Place
    <3> QED BY <2>3, <2>5, <3>1 DEF Left
  <2> QED BY <2>4, <2>5 DEF Left
<1>7. d /\ n - 1 > 0 => t = u[n - 1]
  <2>1. n - 1 > 0 => n - 1 \in 1..(n - 1) /\ (n - 1) + 1 = n
    OBVIOUS
  <2> QED BY <1>1, <1>4, <2>1
<1>8. m = n - 1
  OBVIOUS
<1> QED BY <1>5, <1>6, <1>7, <1>8 DEF LinkHolds

\* The head node goes; what is left keeps the invariant.
LEMMA LinkPopHead ==
  ASSUME LinkInv, spoilt = {}, alive, want # <<>>, K!popHead,
         want' \in Seq(Elements), Len(want') = Len(want) - 1,
         Left(want, want', Len(want), double)
  PROVE  LinkInv'
<1>1. PICK n \in Nat, p \in Seq(K!Addresses) :
        /\ n = size /\ n = Len(want) /\ n <= MaxElements
        /\ want \in Seq(Elements) /\ want \in [1..n -> Elements]
        /\ LinkHolds(p, n, nodes, head, tail, double, want)
        /\ Path(p, n, nodes, head) /\ p \in [1..n -> K!Addresses]
        /\ K!Chain = p /\ DOMAIN K!Chain = 1..n
  BY LinkHere
<1>2. n > 0
  BY <1>1, EmptySeq
<1>3. /\ nodes' = [a \in DOMAIN nodes \ {head} |-> nodes[a]]
      /\ head' = nodes[head].next /\ size' = n - 1 /\ double' = double /\ tail' = tail
      /\ spoilt' = spoilt /\ alive' = alive
  BY <1>1 DEF K!popHead, K!Without
<1>4. PICK m \in Nat : m = n - 1
  BY <1>1, <1>2
<1>5. /\ head \in DOMAIN nodes /\ nodes[head] \in LinkNodes
      /\ \E u : LinkHolds(u, m, nodes', nodes[head].next, tail, double, want')
  <2>1. n \in Nat /\ n > 0 /\ LinkHolds(p, n, nodes, head, tail, double, want)
    BY <1>1, <1>2
  <2>2. Unlinked(nodes, nodes', head)
    BY <1>3 DEF Unlinked
  <2>3. m \in Nat /\ m < n /\ n <= m + 1
    BY <1>1, <1>4
  <2>4. Left(want, want', n, double)
    BY <1>1
  <2> QED BY <2>1, <2>2, <2>3, <2>4, HoldsRest
<1>6. PICK u : LinkHolds(u, m, nodes', head', tail', double', want')
  BY <1>3, <1>5
<1>7. K!TypeOK'
  <2>1. n - 1 \in 0..MaxElements /\ DOMAIN nodes' \subseteq DOMAIN nodes
    BY <1>1, <1>2, <1>3, HowMany
  <2>2. head' \in K!Addresses \cup {K!Null}
    BY <1>3, <1>5 DEF LinkNodes
  <2> QED BY <1>3, <2>1, <2>2 DEF LinkInv, K!TypeOK
<1>8. m \in Nat /\ size' = m /\ Len(want') = m
  BY <1>1, <1>3, <1>4
<1> QED BY <1>6, <1>7, <1>8, LinkBecomes

\* popFront() keeps the invariant.
LEMMA LinkPopFront ==
  ASSUME LinkInv, spoilt = {}, alive, K!popFront
  PROVE  LinkInv'
<1>1. double /\ want # <<>> /\ K!popHead /\ want' = Tail(want)
  BY DEF K!popFront
<1>2. want \in Seq(Elements) /\ double \in BOOLEAN
  BY DEF LinkInv, K!TypeOK
<1>3. /\ want' \in Seq(Elements) /\ Len(want') = Len(want) - 1
      /\ \A i \in 1..(Len(want) - 1) : want'[i] = want[i + 1]
  BY <1>1, <1>2, HeadTailProperties
<1>4. Left(want, want', Len(want), double)
  BY <1>1, <1>2, <1>3 DEF Left
<1> QED BY <1>1, <1>3, <1>4, LinkPopHead

\* All but the last element.
LEMMA AllButLast ==
  ASSUME NEW w \in Seq(Elements), w # <<>>
  PROVE  /\ K!Front(w) \in Seq(Elements) /\ Len(K!Front(w)) = Len(w) - 1
         /\ \A i \in 1..(Len(w) - 1) : K!Front(w)[i] = w[i]
<1>1. PICK n \in Nat : n = Len(w) /\ n > 0
  BY EmptySeq, LenProperties
<1>2. \A i \in 1..(n - 1) : w[i] \in Elements
  BY <1>1
<1>3. K!Front(w) = SubSeq(w, 1, n - 1)
  BY <1>1 DEF K!Front
<1> QED BY <1>1, <1>2, <1>3, SubSeqProperties

\* pop() keeps the invariant.
LEMMA LinkPop ==
  ASSUME LinkInv, spoilt = {}, alive, K!pop
  PROVE  LinkInv'
<1>1. ~ double /\ want # <<>> /\ K!popHead /\ want' = K!Front(want)
  BY DEF K!pop
<1>2. want \in Seq(Elements) /\ double \in BOOLEAN
  BY DEF LinkInv, K!TypeOK
<1>3. /\ want' \in Seq(Elements) /\ Len(want') = Len(want) - 1
      /\ \A i \in 1..(Len(want) - 1) : want'[i] = want[i]
  BY <1>1, <1>2, AllButLast
<1>4. Left(want, want', Len(want), double)
  BY <1>1, <1>2, <1>3 DEF Left
<1> QED BY <1>1, <1>3, <1>4, LinkPopHead

\* popBack() keeps the invariant.
LEMMA LinkPopBack ==
  ASSUME LinkInv, spoilt = {}, alive, K!popBack
  PROVE  LinkInv'
<1>1. PICK n \in Nat, p \in Seq(K!Addresses) :
        /\ n = size /\ n = Len(want) /\ n <= MaxElements
        /\ want \in Seq(Elements) /\ want \in [1..n -> Elements]
        /\ LinkHolds(p, n, nodes, head, tail, double, want)
        /\ Path(p, n, nodes, head) /\ p \in [1..n -> K!Addresses]
        /\ K!Chain = p /\ DOMAIN K!Chain = 1..n
  BY LinkHere
<1>2. /\ double /\ want # <<>>
      /\ nodes' = [a \in DOMAIN nodes \ {tail} |-> nodes[a]] /\ tail' = nodes[tail].prev
      /\ size' = n - 1 /\ want' = K!Front(want) /\ spoilt' = spoilt \cup {"dangling"}
      /\ double' = double /\ head' = head /\ alive' = alive
  BY <1>1 DEF K!popBack, K!Without
<1>3. n > 0 /\ n \in 1..n
  BY <1>1, <1>2, EmptySeq
<1>4. tail = p[n] /\ nodes[tail] \in LinkNodes
  BY <1>1, <1>2, <1>3 DEF LinkHolds, Path
<1>5. want' \in Seq(Elements)
  BY <1>1, <1>2, AllButLast
<1>6. K!TypeOK'
  <2>1. n - 1 \in 0..MaxElements /\ DOMAIN nodes' \subseteq DOMAIN nodes
    BY <1>1, <1>2, <1>3, HowMany
  <2>2. tail' \in K!Addresses \cup {K!Null}
    BY <1>2, <1>4 DEF LinkNodes
  <2> QED BY <1>2, <1>5, <2>1, <2>2 DEF LinkInv, K!TypeOK
<1> QED BY <1>2, <1>6, LinkSpoilt

\* set() keeps the invariant.
LEMMA LinkSet ==
  ASSUME LinkInv, spoilt = {}, alive, NEW v \in Elements, NEW k \in DOMAIN K!Chain, K!set(k, v)
  PROVE  LinkInv'
<1>1. PICK n \in Nat, p \in Seq(K!Addresses) :
        /\ n = size /\ n = Len(want) /\ n <= MaxElements
        /\ want \in Seq(Elements) /\ want \in [1..n -> Elements]
        /\ LinkHolds(p, n, nodes, head, tail, double, want)
        /\ Path(p, n, nodes, head) /\ p \in [1..n -> K!Addresses]
        /\ K!Chain = p /\ DOMAIN K!Chain = 1..n
  BY LinkHere
<1>2. /\ double = TRUE /\ k \in 1..n
      /\ nodes' = [nodes EXCEPT ![p[k]].data = v] /\ want' = [want EXCEPT ![k] = v]
      /\ double' = double /\ head' = head /\ tail' = tail /\ size' = size
      /\ spoilt' = spoilt /\ alive' = alive
  BY <1>1 DEF K!set, LinkInv, K!TypeOK
<1>3. /\ \A i, j \in 1..n : p[i] = p[j] => i = j
      /\ \A i \in 1..n : p[i] \in DOMAIN nodes /\ nodes[p[i]] \in LinkNodes
      /\ \A i \in 1..n : nodes[p[i]].data = want[i]
      /\ n > 0 => tail = p[n]
  BY <1>1, <1>2 DEF LinkHolds, Path, Place
<1>4. PICK c : c \in LinkNodes /\ c = nodes[p[k]]
  BY <1>2, <1>3
<1>5. PICK e : e = [c EXCEPT !.data = v]
  OBVIOUS
<1>6. e \in LinkNodes /\ e.data = v /\ e.next = c.next
  BY <1>4, <1>5 DEF LinkNodes
<1>7. /\ DOMAIN nodes' = DOMAIN nodes
      /\ \A a \in DOMAIN nodes : nodes'[a] = IF a = p[k] THEN e ELSE nodes[a]
  BY <1>2, <1>4, <1>5
<1>8. \A i \in 1..n : nodes'[p[i]] = IF i = k THEN e ELSE nodes[p[i]]
  BY <1>2, <1>3, <1>7
<1>9. /\ want' \in Seq(Elements) /\ Len(want') = n
      /\ \A i \in 1..n : want'[i] = IF i = k THEN v ELSE want[i]
  BY <1>1, <1>2, ExceptSeq
<1>10. Path(p, n, nodes', head')
  <2>1. n \in Nat /\ Path(p, n, nodes, head)
    BY <1>1
  <2>2. \A i \in 1..n : nodes'[p[i]] \in LinkNodes /\ nodes'[p[i]].next = nodes[p[i]].next
    BY <1>3, <1>4, <1>6, <1>8
  <2>3. DOMAIN nodes' = DOMAIN nodes /\ head' = head
    BY <1>2, <1>7
  <2> QED BY <2>1, <2>2, <2>3 DEF Path
<1>11. \A i \in 1..n : nodes'[p[i]].data = want'[i]
  BY <1>3, <1>6, <1>8, <1>9
<1>12. LinkHolds(p, n, nodes', head', tail', double', want')
  <2>1. \A i \in 1..n : Place(i, n, double') = i
    BY <1>2 DEF Place
  <2> QED BY <1>2, <1>3, <1>10, <1>11, <2>1 DEF LinkHolds
<1>13. K!TypeOK'
  BY <1>2, <1>7, <1>9 DEF LinkInv, K!TypeOK
<1> QED BY <1>1, <1>2, <1>9, <1>12, <1>13, LinkBecomes

\* What an iterator shows.
LEMMA ForwardIs ==
  ASSUME NEW n \in Nat, n <= MaxElements, NEW p,
         LinkHolds(p, n, nodes, head, tail, double, want)
  PROVE  \A k \in 1..n : K!Forward[k] = want[Place(k, n, double)]
<1>1. Path(p, n, nodes, head)
  BY DEF LinkHolds
<1>2. K!Chain = p /\ DOMAIN p = 1..n
  BY <1>1, ChainIsPath DEF Path
<1>3. K!Forward = [k \in 1..n |-> IF p[k] \in DOMAIN nodes THEN nodes[p[k]].data ELSE "freed"]
  BY <1>2 DEF K!Forward
<1> QED BY <1>1, <1>3 DEF LinkHolds, Path

\* A copy has the invariant.
LEMMA LinkCopy ==
  ASSUME LinkInv, spoilt = {}, alive, K!copy
  PROVE  LinkInv'
<1>1. PICK n \in Nat, p \in Seq(K!Addresses) :
        /\ n = size /\ n = Len(want) /\ n <= MaxElements
        /\ want \in Seq(Elements) /\ want \in [1..n -> Elements]
        /\ LinkHolds(p, n, nodes, head, tail, double, want)
        /\ Path(p, n, nodes, head) /\ p \in [1..n -> K!Addresses]
        /\ K!Chain = p /\ DOMAIN K!Chain = 1..n
  BY LinkHere
<1>2. Len(p) = n
  BY <1>1, FirstPlaces
<1>3. /\ nodes' = [k \in 1..n |-> K!Copied(k, n)]
      /\ head' = (IF n = 0 THEN K!Null ELSE 1)
      /\ tail' \in K!Addresses \cup {K!Null} /\ (double /\ n > 0 => tail' = n)
      /\ double' = double /\ size' = size /\ want' = want /\ spoilt' = spoilt /\ alive' = alive
  <2>1. /\ nodes' = [k \in 1..n |-> K!Copied(k, n)]
        /\ head' = (IF n = 0 THEN K!Null ELSE 1)
        /\ IF double /\ n = 0 THEN tail' \in K!Addresses \cup {K!Null}
           ELSE tail' = IF double THEN n ELSE K!Null
        /\ double' = double /\ size' = size /\ want' = want /\ spoilt' = spoilt /\ alive' = alive
    BY <1>1, <1>2 DEF K!copy
  <2>2. n # 0 => n \in K!Addresses
    BY <1>1, HowMany DEF K!Addresses
  <2> QED BY <2>1, <2>2
<1>4. double \in BOOLEAN /\ K!Null = 0 /\ \A k \in 1..n : k \in K!Addresses
  BY <1>1, HowMany DEF LinkInv, K!TypeOK, K!Null, K!Addresses
<1>5. \A k \in 1..n : K!Forward[k] = want[Place(k, n, double)] /\ K!Forward[k] \in Elements
  <2>1. \A k \in 1..n : K!Forward[k] = want[Place(k, n, double)]
    <3>1. n \in Nat /\ n <= MaxElements /\ LinkHolds(p, n, nodes, head, tail, double, want)
      BY <1>1
    <3> QED BY <3>1, ForwardIs
  <2>2. \A k \in 1..n : Place(k, n, double) \in 1..n
    BY <1>1, <1>4 DEF Place
  <2> QED BY <1>1, <2>1, <2>2
<1>6. ASSUME NEW k \in 1..n
      PROVE  /\ nodes'[k] \in LinkNodes /\ nodes'[k].data = want[Place(k, n, double)]
             /\ k = n => nodes'[k].next = K!Null
             /\ k # n => nodes'[k].next = k + 1
  <2>1. nodes'[k] = [data |-> K!Forward[k], prev |-> IF double THEN k - 1 ELSE K!Null,
                     next |-> IF k = n THEN K!Null ELSE k + 1]
    BY <1>3, <1>6 DEF K!Copied, K!Node
  <2>2. k - 1 \in K!Addresses \cup {K!Null}
    <3>1. k = 1 \/ k - 1 \in 1..n
      BY <1>6
    <3> QED BY <1>4, <3>1
  <2>3. k # n => k + 1 \in K!Addresses
    <3>1. n \in Nat /\ k \in 1..n
      BY <1>1, <1>6
    <3>2. k # n => k + 1 \in 1..n
      BY <3>1
    <3> QED BY <1>4, <3>2
  <2> QED BY <1>4, <1>5, <2>1, <2>2, <2>3 DEF LinkNodes
<1>7. PICK u : u = [k \in 1..n |-> k]
  OBVIOUS
<1>8. u \in [1..n -> K!Addresses] /\ \A k \in 1..n : u[k] = k
  BY <1>4, <1>7
<1>9. DOMAIN nodes' = 1..n
  BY <1>3
<1>10. Path(u, n, nodes', head')
  <2>1. \A i \in 1..(n - 1) : nodes'[u[i]].next = u[i + 1]
    <3>1. n \in Nat
      BY <1>1
    <3>2. \A i \in 1..(n - 1) : i \in 1..n /\ i + 1 \in 1..n /\ i # n
      BY <3>1
    <3> QED BY <1>6, <1>8, <3>2
  <2>2. n > 0 => nodes'[u[n]].next = K!Null
    <3>1. n > 0 => n \in 1..n
      BY <1>1
    <3> QED BY <1>6, <1>8, <3>1
  <2>3. (n = 0 => head' = K!Null) /\ (n > 0 => head' = u[1])
    BY <1>1, <1>3, <1>8
  <2> QED BY <1>6, <1>8, <1>9, <2>1, <2>2, <2>3 DEF Path
<1>11. LinkHolds(u, n, nodes', head', tail', double', want')
  <2>1. double' /\ n > 0 => tail' = u[n]
    BY <1>1, <1>3, <1>8
  <2> QED BY <1>3, <1>6, <1>8, <1>10, <2>1 DEF LinkHolds
<1>12. K!TypeOK'
  <2>1. head' \in K!Addresses \cup {K!Null} /\ tail' \in K!Addresses \cup {K!Null}
    BY <1>1, <1>3, <1>4
  <2> QED BY <1>3, <1>4, <1>9, <2>1 DEF LinkInv, K!TypeOK
<1> QED BY <1>1, <1>3, <1>11, <1>12, LinkBecomes

\* A list that was moved from has the invariant.
LEMMA LinkMovedFrom ==
  ASSUME LinkInv, spoilt = {}, alive, K!movedFrom
  PROVE  LinkInv'
<1>1. /\ nodes' = <<>> /\ head' = K!Null /\ tail' = K!Null /\ size' = 0
      /\ want' = <<>> /\ double' = double /\ spoilt' = spoilt /\ alive' = alive
  BY DEF K!movedFrom
<1>2. want' \in Seq(Elements) /\ Len(want') = 0 /\ DOMAIN nodes' = {}
  BY <1>1, EmptySeq
<1>3. K!TypeOK'
  BY <1>1, <1>2, HowMany DEF LinkInv, K!TypeOK
<1>4. LinkHolds(<<>>, 0, nodes', head', tail', double', want')
  <2>1. <<>> \in [1..0 -> K!Addresses] /\ 1..0 = {}
    BY EmptySeq, LenProperties
  <2> QED BY <1>1, <1>2, <2>1 DEF LinkHolds, Path
<1> QED BY <1>1, <1>2, <1>3, <1>4, LinkBecomes

\* What an iterator does to the node it is not at loses no node.
LEMMA RelinkDomain ==
  ASSUME NEW f, NEW a, NEW field, NEW q
  PROVE  DOMAIN K!Relink(f, a, field, q) = DOMAIN f
BY DEF K!Relink

\* The elements with one more among them, or without one of them.
LEMMA OneMore ==
  ASSUME NEW n \in Nat, NEW w \in Seq(Elements), n = Len(w), NEW k \in 1..n, NEW v \in Elements
  PROVE  K!InsertAt(w, k, v) \in Seq(Elements)
<1>1. \A i \in 1..n : w[i] \in Elements
  BY ElementOfSeq
<1>2. k - 1 \in Int /\ k \in Int /\ n \in Int /\ 1 \in Int
  OBVIOUS
<1>3. SubSeq(w, 1, k - 1) \in Seq(Elements)
  <2>1. \A i \in 1..(k - 1) : w[i] \in Elements
    BY <1>1
  <2> QED BY <1>2, <2>1, SubSeqProperties
<1>4. SubSeq(w, k, n) \in Seq(Elements)
  <2>1. \A i \in k..n : w[i] \in Elements
    BY <1>1
  <2> QED BY <1>2, <2>1, SubSeqProperties
<1>5. PICK a \in Seq(Elements), b \in Seq(Elements), c \in Seq(Elements) :
        a = SubSeq(w, 1, k - 1) /\ b = SubSeq(w, k, n) /\ c = <<v>>
  <2>1. <<v>> \in Seq(Elements)
    OBVIOUS
  <2> QED BY <1>3, <1>4, <2>1
<1>6. (a \o c) \in Seq(Elements)
  BY ConcatProperties
<1>7. (a \o c) \o b \in Seq(Elements)
  BY <1>6, ConcatProperties
<1> QED BY <1>5, <1>7 DEF K!InsertAt

\* Likewise.
LEMMA OneLess ==
  ASSUME NEW n \in Nat, NEW w \in Seq(Elements), n = Len(w), NEW k \in 1..n
  PROVE  K!RemoveAt(w, k) \in Seq(Elements)
<1>1. \A i \in 1..n : w[i] \in Elements
  BY ElementOfSeq
<1>2. k - 1 \in Int /\ k + 1 \in Int /\ n \in Int /\ 1 \in Int
  OBVIOUS
<1>3. SubSeq(w, 1, k - 1) \in Seq(Elements)
  <2>1. \A i \in 1..(k - 1) : w[i] \in Elements
    BY <1>1
  <2> QED BY <1>2, <2>1, SubSeqProperties
<1>4. SubSeq(w, k + 1, n) \in Seq(Elements)
  <2>1. \A i \in (k + 1)..n : w[i] \in Elements
    BY <1>1
  <2> QED BY <1>2, <2>1, SubSeqProperties
<1>5. PICK a \in Seq(Elements), b \in Seq(Elements) :
        a = SubSeq(w, 1, k - 1) /\ b = SubSeq(w, k + 1, n)
  BY <1>3, <1>4
<1>6. (a \o b) \in Seq(Elements)
  BY ConcatProperties
<1> QED BY <1>5, <1>6 DEF K!RemoveAt

\* insert() keeps the invariant.
LEMMA LinkInsert ==
  ASSUME LinkInv, spoilt = {}, alive, NEW v \in Elements, NEW k \in DOMAIN K!Chain,
         Len(want) < MaxElements, K!insert(k, v)
  PROVE  LinkInv'
<1>1. PICK n \in Nat, p \in Seq(K!Addresses) :
        /\ n = size /\ n = Len(want) /\ n <= MaxElements
        /\ want \in Seq(Elements) /\ want \in [1..n -> Elements]
        /\ LinkHolds(p, n, nodes, head, tail, double, want)
        /\ Path(p, n, nodes, head) /\ p \in [1..n -> K!Addresses]
        /\ K!Chain = p /\ DOMAIN K!Chain = 1..n
  BY LinkHere
<1> DEFINE a == K!Chain[k]
           back == nodes[a].prev
           new == K!With(K!fresh, K!Node(v, back, a))
<1>2. /\ double' = double /\ head' = head /\ tail' = tail /\ size' = size
      /\ alive' = K!Linked(a)
      /\ nodes' = (IF K!Linked(a)
                   THEN K!Relink(K!Relink(new, back, "next", K!fresh), a, "prev", K!fresh)
                   ELSE nodes)
      /\ want' = (IF K!Linked(a) THEN K!InsertAt(want, k, v) ELSE want)
      /\ spoilt' = (IF K!Linked(a) THEN spoilt \cup {"uncounted"} \cup K!Behind(a) ELSE spoilt)
  BY DEF K!insert
<1>3. K!fresh \in K!Addresses
  <2>1. \A q \in DOMAIN nodes : \E i \in 1..n : q = p[i]
    BY <1>1 DEF Path
  <2> QED BY <1>1, <2>1, FreshIsFree
<1>4. DOMAIN nodes' \subseteq K!Addresses
  <2>1. DOMAIN nodes \subseteq K!Addresses
    BY DEF LinkInv, K!TypeOK
  <2>2. DOMAIN new = DOMAIN nodes \cup {K!fresh}
    BY DEF K!With
  <2>3. DOMAIN K!Relink(K!Relink(new, back, "next", K!fresh), a, "prev", K!fresh) = DOMAIN new
    <3> HIDE DEF new, a, back
    <3> QED BY RelinkDomain
  <2> HIDE DEF new, a, back
  <2> QED BY <1>2, <1>3, <2>1, <2>2, <2>3
<1>5. want' \in Seq(Elements)
  <2>1. n \in Nat /\ want \in Seq(Elements) /\ n = Len(want) /\ k \in 1..n
    BY <1>1
  <2>2. K!InsertAt(want, k, v) \in Seq(Elements)
    BY <2>1, OneMore
  <2> QED BY <1>2, <2>1, <2>2
<1>6. K!Behind(a) \subseteq {"strayWrite"} /\ K!Linked(a) \in BOOLEAN
  BY DEF K!Behind, K!Linked
<1>7. K!TypeOK'
  <2> HIDE DEF a, back, new
  <2> QED BY <1>2, <1>4, <1>5, <1>6 DEF LinkInv, K!TypeOK
<1>8. spoilt' # {} \/ ~ alive'
  <2> HIDE DEF a, back, new
  <2> QED BY <1>2
<1> QED BY <1>7, <1>8, LinkSpoilt

\* remove() keeps the invariant.
LEMMA LinkRemove ==
  ASSUME LinkInv, spoilt = {}, alive, NEW k \in DOMAIN K!Chain, K!remove(k)
  PROVE  LinkInv'
<1>1. PICK n \in Nat, p \in Seq(K!Addresses) :
        /\ n = size /\ n = Len(want) /\ n <= MaxElements
        /\ want \in Seq(Elements) /\ want \in [1..n -> Elements]
        /\ LinkHolds(p, n, nodes, head, tail, double, want)
        /\ Path(p, n, nodes, head) /\ p \in [1..n -> K!Addresses]
        /\ K!Chain = p /\ DOMAIN K!Chain = 1..n
  BY LinkHere
<1> DEFINE a == K!Chain[k]
           back == nodes[a].prev
           ahead == nodes[a].next
           cut == K!Relink(nodes, back, "next", ahead)
<1>2. /\ double' = double /\ head' = head /\ tail' = tail /\ size' = size
      /\ alive' = (K!Linked(a) /\ ahead # K!Null)
      /\ nodes' = (IF ~ K!Linked(a) THEN nodes
                   ELSE IF ahead = K!Null THEN cut
                   ELSE [q \in DOMAIN nodes \ {a} |-> K!Relink(cut, ahead, "prev", back)[q]])
      /\ want' = (IF alive' THEN K!RemoveAt(want, k) ELSE want)
      /\ spoilt' = (IF alive' THEN spoilt \cup {"uncounted"} \cup K!Behind(a) ELSE spoilt)
  BY DEF K!remove
<1>3. DOMAIN nodes' \subseteq K!Addresses
  <2>1. DOMAIN nodes \subseteq K!Addresses
    BY DEF LinkInv, K!TypeOK
  <2>2. DOMAIN cut = DOMAIN nodes
    <3> HIDE DEF a, back, ahead
    <3> QED BY RelinkDomain
  <2> HIDE DEF a, back, ahead, cut
  <2> QED BY <1>2, <2>1, <2>2
<1>4. want' \in Seq(Elements)
  <2>1. n \in Nat /\ want \in Seq(Elements) /\ n = Len(want) /\ k \in 1..n
    BY <1>1
  <2>2. K!RemoveAt(want, k) \in Seq(Elements)
    BY <2>1, OneLess
  <2> HIDE DEF a, back, ahead, cut
  <2> QED BY <1>2, <2>1, <2>2
<1>5. K!Behind(a) \subseteq {"strayWrite"} /\ alive' \in BOOLEAN
  <2> HIDE DEF back, ahead, cut
  <2> QED BY <1>2 DEF K!Behind, K!Linked
<1>6. K!TypeOK'
  <2> HIDE DEF a, back, ahead, cut
  <2> QED BY <1>2, <1>3, <1>4, <1>5 DEF LinkInv, K!TypeOK
<1>7. spoilt' # {} \/ ~ alive'
  <2> HIDE DEF a, back, ahead, cut
  <2> QED BY <1>2
<1> QED BY <1>6, <1>7, LinkSpoilt

\* Every step keeps the invariant.
LEMMA LinkStep ==
  ASSUME LinkInv, K!Next  PROVE LinkInv'
<1>1. spoilt = {} /\ alive
  BY DEF K!Next
<1>2. ASSUME NEW v \in Elements, K!Room, K!addFront(v) PROVE LinkInv'
  BY <1>1, <1>2, LinkAddFront DEF K!Room
<1>3. ASSUME NEW v \in Elements, K!Room, K!push(v) PROVE LinkInv'
  BY <1>1, <1>3, LinkPush DEF K!Room
<1>4. ASSUME NEW v \in Elements, K!Room, K!addBack(v) PROVE LinkInv'
  BY <1>1, <1>4, LinkAddBack DEF K!Room
<1>13. ASSUME NEW v \in Elements, K!Room, K!addBackMoved(v) PROVE LinkInv'
  BY <1>1, <1>13, LinkAddBackMoved DEF K!Room
<1>5. CASE K!popFront
  BY <1>1, <1>5, LinkPopFront
<1>6. CASE K!pop
  BY <1>1, <1>6, LinkPop
<1>7. CASE K!popBack
  BY <1>1, <1>7, LinkPopBack
<1>8. CASE K!copy
  BY <1>1, <1>8, LinkCopy
<1>9. CASE K!movedFrom
  BY <1>1, <1>9, LinkMovedFrom
<1>10. ASSUME NEW v \in Elements, NEW k \in DOMAIN K!Chain, K!Room, K!insert(k, v)
       PROVE  LinkInv'
  BY <1>1, <1>10, LinkInsert DEF K!Room
<1>11. ASSUME NEW v \in Elements, NEW k \in DOMAIN K!Chain, K!set(k, v) PROVE LinkInv'
  BY <1>1, <1>11, LinkSet
<1>12. ASSUME NEW k \in DOMAIN K!Chain, K!remove(k) PROVE LinkInv'
  BY <1>1, <1>12, LinkRemove
<1> QED BY <1>2, <1>3, <1>4, <1>5, <1>6, <1>7, <1>8, <1>9, <1>10, <1>11, <1>12, <1>13 DEF K!Next

-----------------------------------------------------------------------------
(* HashMap.                                                                 *)

Nodes == Keys \X Values
NodeChains == Seq(Nodes)

\* No two nodes of a sequence have the same key.
OneEach(s) == \A i, j \in 1..Len(s) : s[i][1] = s[j][1] => i = j

\* The nodes of the table t are in the chains their hashes name, every key
\* once, and say what w says.
Sorted(t) ==
  /\ t \in Seq(NodeChains)
  /\ \A b \in 1..Len(t) :
        /\ OneEach(t[b])
        /\ \A i \in 1..Len(t[b]) : H!Index(t[b][i][1], Len(t)) = b
Has(t) == {x \in Nodes : \E b \in 1..Len(t) : \E i \in 1..Len(t[b]) : t[b][i] = x}
Graph(w) == {<<q, w[q]>> : q \in DOMAIN w}
Mapped(t, w) == DOMAIN w \subseteq Keys /\ Has(t) = Graph(w)

HashInv ==
  /\ H!TypeOK
  /\ spoilt = {} =>
       /\ Sorted(table) /\ Mapped(table, want)
       /\ Cardinality(DOMAIN want) <= m_size
       /\ 4 * m_size <= 3 * Len(table)
  /\ alive \/ table = <<>> \/ \E k \in Keys : H!Endless(k)

\* The count of the module's instance is the library's.
LEMMA CountedKeys ==
  \A S0 : H!Cardinality(S0) = Cardinality(S0) /\ (H!IsFiniteSet(S0) <=> IsFiniteSet(S0))
BY DEF H!Cardinality, Cardinality, H!IsFiniteSet, IsFiniteSet

\* The chain of a key.
LEMMA IndexInside ==
  ASSUME NEW k \in Keys, NEW n \in Nat \ {0}
  PROVE  H!Index(k, n) \in 1..n
<1>1. PICK h \in Nat : h = HashOf[k]
  BY CollectionsAssumption
<1>2. h % n \in 0..(n - 1)
  OBVIOUS
<1> QED BY <1>1, <1>2 DEF H!Index

\* A node has a key and a value.
LEMMA NodeParts ==
  /\ \A k \in Keys, v \in Values : <<k, v>> \in Nodes /\ <<k, v>>[1] = k /\ <<k, v>>[2] = v
  /\ \A node \in Nodes : node[1] \in Keys /\ node[2] \in Values /\ node = <<node[1], node[2]>>
BY DEF Nodes

\* Chains and their nodes.
LEMMA ChainNodes ==
  ASSUME NEW t \in Seq(NodeChains)
  PROVE  /\ Len(t) \in Nat /\ DOMAIN t = 1..Len(t)
         /\ \A b \in 1..Len(t) : /\ t[b] \in NodeChains /\ Len(t[b]) \in Nat
                                 /\ DOMAIN t[b] = 1..Len(t[b])
                                 /\ \A i \in 1..Len(t[b]) : t[b][i] \in Nodes
<1>1. Len(t) \in Nat /\ DOMAIN t = 1..Len(t) /\ \A b \in 1..Len(t) : t[b] \in NodeChains
  BY LenProperties, ElementOfSeq
<1>2. \A s \in NodeChains : Len(s) \in Nat /\ DOMAIN s = 1..Len(s) /\ \A i \in 1..Len(s) : s[i] \in Nodes
  BY LenProperties, ElementOfSeq DEF NodeChains
<1> QED BY <1>1, <1>2

\* A table without nodes.
LEMMA SortedEmpty ==
  ASSUME NEW n \in Nat, NEW t, t = [b \in 1..n |-> <<>>]
  PROVE  Sorted(t) /\ Has(t) = {} /\ Len(t) = n
<1>1. <<>> \in NodeChains /\ Len(<<>>) = 0
  BY EmptySeq DEF NodeChains
<1>2. t \in [1..n -> NodeChains]
  BY <1>1
<1>3. t \in Seq(NodeChains) /\ Len(t) = n
  BY <1>2, FirstPlaces
<1>4. \A b \in 1..Len(t) : t[b] = <<>> /\ 1..Len(t[b]) = {}
  BY <1>1, <1>3
<1> QED BY <1>3, <1>4 DEF Sorted, Has, OneEach

\* w with the value v for the key k.
With(w, k, v) == [q \in DOMAIN w \cup {k} |-> IF q = k THEN v ELSE w[q]]

\* A key that is in none of the chains.
NotIn(t, k) == \A x \in Has(t) : x[1] # k

\* The node joins the chain "at" of the n chains t, and u is what they become.
Joins(t, node, n, l, u, at) ==
  /\ n \in Nat \ {0} /\ l \in Nat /\ u \in Seq(NodeChains) /\ at \in 1..n
  /\ n = Len(t) /\ l = Len(t[at]) /\ u = H!Added(t, node)
  /\ at = H!Index(node[1], n)
  /\ Len(u) = n /\ Len(u[at]) = l + 1
  /\ \A i \in 1..l : u[at][i] = t[at][i]
  /\ u[at][l + 1] = node
  /\ \A b \in 1..n : b # at => u[b] = t[b]

\* What joins a chain is behind all that was there.
LEMMA AddedIs ==
  ASSUME NEW t \in Seq(NodeChains), Len(t) > 0, NEW node \in Nodes
  PROVE  \E n, l, u, at : Joins(t, node, n, l, u, at)
<1>1. PICK n \in Nat \ {0} : n = Len(t)
  BY ChainNodes
<1>2. PICK k \in Keys : k = node[1]
  BY NodeParts
<1>3. PICK at \in 1..n : at = H!Index(k, n)
  BY <1>2, IndexInside
<1>4. PICK c \in NodeChains, l \in Nat : /\ c = t[at] /\ l = Len(c)
  BY <1>1, ChainNodes
<1>5. PICK d : d = Append(c, node)
  OBVIOUS
<1>6. /\ d \in NodeChains /\ Len(d) = l + 1
      /\ \A i \in 1..l : d[i] = c[i]
      /\ d[l + 1] = node
  <2>1. c \in Seq(Nodes)
    BY DEF NodeChains
  <2>2. /\ Append(c, node) \in Seq(Nodes) /\ Len(Append(c, node)) = Len(c) + 1
        /\ \A i \in 1..Len(c) : Append(c, node)[i] = c[i]
        /\ Append(c, node)[Len(c) + 1] = node
    BY <2>1, AppendProperties
  <2> QED BY <1>4, <1>5, <2>2 DEF NodeChains
<1>7. PICK u : u = [t EXCEPT ![at] = d]
  OBVIOUS
<1>8. H!Added(t, node) = u
  BY <1>1, <1>2, <1>3, <1>4, <1>5, <1>7 DEF H!Added
<1>9. u \in Seq(NodeChains) /\ Len(u) = n /\ \A b \in 1..n : u[b] = IF b = at THEN d ELSE t[b]
  BY <1>1, <1>6, <1>7, ExceptSeq
<1>10. u[at] = d /\ \A b \in 1..n : b # at => u[b] = t[b]
  BY <1>9
<1>11. Joins(t, node, n, l, u, at)
  BY <1>1, <1>2, <1>3, <1>4, <1>6, <1>8, <1>9, <1>10 DEF Joins
<1> QED BY <1>11

\* A node with a new key that joins a chain.
LEMMA SortedAdded ==
  ASSUME NEW t, Sorted(t), Len(t) > 0, NEW node \in Nodes, NotIn(t, node[1])
  PROVE  /\ Sorted(H!Added(t, node)) /\ Len(H!Added(t, node)) = Len(t)
         /\ Has(H!Added(t, node)) = Has(t) \cup {node}
<1>0. PICK n, l, u, at : Joins(t, node, n, l, u, at)
  BY AddedIs DEF Sorted
<1>1. /\ n \in Nat \ {0} /\ l \in Nat /\ u \in Seq(NodeChains) /\ at \in 1..n
      /\ n = Len(t) /\ l = Len(t[at]) /\ u = H!Added(t, node)
      /\ at = H!Index(node[1], n)
      /\ Len(u) = n /\ Len(u[at]) = l + 1
      /\ \A i \in 1..l : u[at][i] = t[at][i]
      /\ u[at][l + 1] = node
      /\ \A b \in 1..n : b # at => u[b] = t[b]
  BY <1>0 DEF Joins
<1>2. \A i \in 1..(l + 1) : i \in 1..l \/ i = l + 1
  <2>1. l \in Nat
    BY <1>1
  <2> QED BY <2>1
<1>3. \A b \in 1..n : \A i \in 1..Len(t[b]) : t[b][i] \in Nodes /\ t[b][i][1] # node[1]
  <2>1. \A b \in 1..n : \A i \in 1..Len(t[b]) : t[b][i] \in Nodes
    BY <1>1, ChainNodes DEF Sorted
  <2>2. \A b \in 1..n : \A i \in 1..Len(t[b]) : t[b][i] \in Has(t)
    BY <1>1, <2>1 DEF Has
  <2> QED BY <2>1, <2>2 DEF NotIn
<1>4. OneEach(u[at])
  <2>1. \A i, j \in 1..l : t[at][i][1] = t[at][j][1] => i = j
    BY <1>1 DEF Sorted, OneEach
  <2>2. ASSUME NEW i \in 1..(l + 1), NEW j \in 1..(l + 1), u[at][i][1] = u[at][j][1]
        PROVE  i = j
    <3>1. CASE i \in 1..l /\ j \in 1..l
      BY <1>1, <2>1, <2>2, <3>1
    <3>2. CASE i = l + 1 /\ j \in 1..l
      BY <1>1, <1>3, <2>2, <3>2
    <3>3. CASE i \in 1..l /\ j = l + 1
      BY <1>1, <1>3, <2>2, <3>3
    <3> QED BY <1>2, <3>1, <3>2, <3>3
  <2> QED BY <1>1, <2>2 DEF OneEach
<1>5. \A i \in 1..(l + 1) : H!Index(u[at][i][1], n) = at
  <2>1. \A i \in 1..l : H!Index(t[at][i][1], n) = at
    BY <1>1 DEF Sorted
  <2> QED BY <1>1, <1>2, <2>1
<1>6. Sorted(u)
  <2>1. \A b \in 1..n : b # at => OneEach(u[b]) /\ \A i \in 1..Len(u[b]) : H!Index(u[b][i][1], n) = b
    BY <1>1 DEF Sorted
  <2> QED BY <1>1, <1>4, <1>5, <2>1 DEF Sorted
<1>7. Has(u) = Has(t) \cup {node}
  <2>1. ASSUME NEW x \in Has(u) PROVE x \in Has(t) \cup {node}
    <3>1. PICK b \in 1..n : \E i \in 1..Len(u[b]) : u[b][i] = x
      BY <1>1 DEF Has
    <3>2. PICK i \in 1..Len(u[b]) : u[b][i] = x
      BY <3>1
    <3>3. x \in Nodes
      BY DEF Has
    <3>4. CASE b # at
      BY <1>1, <3>2, <3>3, <3>4 DEF Has
    <3>5. CASE b = at /\ i \in 1..l
      <4>1. t[at][i] = x
        BY <1>1, <3>2, <3>5
      <4> QED BY <1>1, <3>3, <3>5, <4>1 DEF Has
    <3>6. CASE b = at /\ i = l + 1
      BY <1>1, <3>2, <3>6
    <3> QED BY <1>1, <1>2, <3>4, <3>5, <3>6
  <2>2. ASSUME NEW x \in Has(t) PROVE x \in Has(u)
    <3>1. PICK b \in 1..n : \E i \in 1..Len(t[b]) : t[b][i] = x
      BY <1>1 DEF Has
    <3>2. PICK i \in 1..Len(t[b]) : t[b][i] = x
      BY <3>1
    <3>3. x \in Nodes
      BY DEF Has
    <3>4. CASE b # at
      <4>1. u[b] = t[b]
        BY <1>1, <3>4
      <4> QED BY <1>1, <3>2, <3>3, <4>1 DEF Has
    <3>5. CASE b = at
      <4>1. i \in 1..(l + 1) /\ u[at][i] = x
        BY <1>1, <3>2, <3>5
      <4> QED BY <1>1, <3>3, <4>1 DEF Has
    <3> QED BY <3>4, <3>5
  <2>3. node \in Has(u)
    <3>1. l \in Nat
      BY <1>1
    <3>2. l + 1 \in 1..(l + 1)
      BY <3>1
    <3> QED BY <1>1, <3>2 DEF Has
  <2> QED BY <2>1, <2>2, <2>3
<1> QED BY <1>1, <1>6, <1>7

\* What is in a set of numbers with each number's successor.
LEMMA UpTo ==
  ASSUME NEW n \in Nat, NEW S0, 0 \in S0, \A i \in 1..n : i - 1 \in S0 => i \in S0
  PROVE  \A i \in 0..n : i \in S0
<1> DEFINE Bad == {i \in 0..n : i \notin S0}
<1>1. SUFFICES ASSUME Bad # {} PROVE FALSE
  OBVIOUS
<1>2. Bad \subseteq Nat
  OBVIOUS
<1>3. PICK x \in Bad : \A y \in Bad : ~ (<<y, x>> \in OpToRel(<, Nat))
  <2> HIDE DEF Bad
  <2> QED BY <1>1, <1>2, WFMin, NatLessThanWellFounded, Zenon
<1>4. \A y \in Bad : ~ (y < x)
  <2> HIDE DEF Bad
  <2> QED BY <1>2, <1>3, Zenon DEF OpToRel
<1>5. x \in 0..n /\ x \notin S0 /\ x # 0
  BY <1>3
<1>6. x \in 1..n /\ x - 1 \in 0..n /\ x - 1 < x
  BY <1>5
<1>7. x - 1 \in S0
  BY <1>4, <1>6
<1> QED BY <1>5, <1>6, <1>7

\* g is built up from v0, step by step.
Builds(g, n, V0, v0, step) ==
  g \in [0..n -> V0] /\ g[0] = v0 /\ \A i \in 1..n : g[i] = step[i][g[i - 1]]

\* There is such a function.
LEMMA BuiltUp ==
  ASSUME NEW n \in Nat, NEW V0, NEW v0 \in V0, NEW step \in [1..n -> [V0 -> V0]]
  PROVE  \E g : Builds(g, n, V0, v0, step)
<1> DEFINE Made(m, g) == /\ g \in [0..m -> V0] /\ g[0] = v0
                         /\ \A i \in 1..m : g[i] = step[i][g[i - 1]]
           S0 == {m \in 0..n : \E g : Made(m, g)}
<1>1. 0 \in S0
  <2>1. PICK g : g = [i \in 0..0 |-> v0]
    OBVIOUS
  <2>2. Made(0, g)
    BY <2>1
  <2>3. 0 \in 0..n
    OBVIOUS
  <2> HIDE DEF Made
  <2> QED BY <2>2, <2>3
<1>2. ASSUME NEW m \in 1..n, m - 1 \in S0 PROVE m \in S0
  <2>1. PICK g : Made(m - 1, g)
    <3> HIDE DEF Made
    <3> QED BY <1>2
  <2>2. PICK h : h = [i \in 0..m |-> IF i = m THEN step[m][g[m - 1]] ELSE g[i]]
    OBVIOUS
  <2>3. m - 1 \in 0..(m - 1) /\ g[m - 1] \in V0 /\ step[m][g[m - 1]] \in V0
    BY <2>1
  <2>4. \A i \in 0..m : i # m => i \in 0..(m - 1)
    OBVIOUS
  <2>5. h \in [0..m -> V0] /\ h[0] = v0
    BY <2>1, <2>2, <2>3, <2>4
  <2>6. ASSUME NEW i \in 1..m PROVE h[i] = step[i][h[i - 1]]
    <3>1. i - 1 \in 0..m /\ i - 1 # m /\ i \in 0..m
      OBVIOUS
    <3>2. h[i - 1] = g[i - 1]
      BY <2>2, <3>1
    <3>3. CASE i = m
      BY <2>2, <3>1, <3>2, <3>3
    <3>4. CASE i # m
      <4>1. i \in 1..(m - 1)
        BY <3>4
      <4> QED BY <2>1, <2>2, <3>1, <3>2, <3>4, <4>1
    <3> QED BY <3>3, <3>4
  <2>7. Made(m, h)
    BY <2>5, <2>6
  <2>8. m \in 0..n
    OBVIOUS
  <2> HIDE DEF Made
  <2> QED BY <2>7, <2>8
<1>3. n \in S0
  <2>1. n \in 0..n
    OBVIOUS
  <2> HIDE DEF S0
  <2> QED BY <1>1, <1>2, <2>1, UpTo
<1>4. PICK g : Made(n, g)
  <2> HIDE DEF Made
  <2> QED BY <1>3
<1> QED BY <1>4 DEF Builds

\* One chain behind the other.
Joined0(t, f) == f = [i \in 1..Len(t) |-> IF i = 1 THEN t[i] ELSE f[i - 1] \o t[i]]

\* A sequence of chains flattened, one chain at a time.
LEMMA FlattenIs ==
  ASSUME NEW t \in Seq(NodeChains), Len(t) > 0
  PROVE  \E f : Joined0(t, f) /\ H!FlattenSeq(t) = f[Len(t)]
<1>1. PICK n \in Nat : n = Len(t) /\ n # 0
  BY LenProperties
<1> DEFINE f0 == CHOOSE f : f = [i \in 1..Len(t) |-> IF i = 1 THEN t[i] ELSE f[i - 1] \o t[i]]
<1>2. f0 = CHOOSE f : Joined0(t, f)
  BY DEF Joined0
<1>3. H!FlattenSeq(t) = f0[Len(t)]
  BY <1>1 DEF H!FlattenSeq
<1> HIDE DEF f0
<1>4. \E f : Joined0(t, f)
  <2>1. \A i \in 1..n : t[i] \in Seq(Nodes)
    BY <1>1, ElementOfSeq DEF NodeChains
  <2>2. PICK step : step = [i \in 1..n |-> [v \in Seq(Nodes) |-> v \o t[i]]]
    OBVIOUS
  <2>3. step \in [1..n -> [Seq(Nodes) -> Seq(Nodes)]]
    <3>1. \A i \in 1..n : \A v \in Seq(Nodes) : v \o t[i] \in Seq(Nodes)
      BY <2>1, ConcatProperties
    <3> QED BY <2>2, <3>1
  <2>4. <<>> \in Seq(Nodes)
    BY EmptySeq
  <2>5. PICK g \in [0..n -> Seq(Nodes)] :
          g[0] = <<>> /\ \A i \in 1..n : g[i] = step[i][g[i - 1]]
    <3>1. n \in Nat
      BY <1>1
    <3>2. PICK g : Builds(g, n, Seq(Nodes), <<>>, step)
      BY <2>3, <2>4, <3>1, BuiltUp
    <3> QED BY <3>2 DEF Builds
  <2>6. \A i \in 1..n : g[i] = g[i - 1] \o t[i]
    <3>1. ASSUME NEW i \in 1..n PROVE g[i] = g[i - 1] \o t[i]
      <4>1. i - 1 \in 0..n /\ g[i - 1] \in Seq(Nodes)
        BY <2>5
      <4> QED BY <2>2, <2>5, <4>1
    <3> QED BY <3>1
  <2>7. 1 \in 1..n => g[1] = t[1]
    <3>1. \A s \in Seq(Nodes) : <<>> \o s = s
      BY ConcatSimplifications, EmptySeq
    <3>2. 1 \in 1..n => g[1] = g[0] \o t[1]
      <4>1. 1 - 1 = 0
        OBVIOUS
      <4> QED BY <2>6, <4>1
    <3> QED BY <2>1, <2>5, <3>1, <3>2
  <2>8. PICK f : f = [i \in 1..n |-> g[i]]
    OBVIOUS
  <2>9. \A i \in 1..n : f[i] = IF i = 1 THEN t[i] ELSE f[i - 1] \o t[i]
    <3>1. ASSUME NEW i \in 1..n, i # 1 PROVE f[i] = f[i - 1] \o t[i]
      <4>1. i - 1 \in 1..n
        BY <3>1
      <4> QED BY <2>6, <2>8, <4>1
    <3> QED BY <2>7, <2>8, <3>1
  <2>10. f = [i \in 1..n |-> IF i = 1 THEN t[i] ELSE f[i - 1] \o t[i]]
    BY <2>8, <2>9
  <2> QED BY <1>1, <2>10 DEF Joined0
<1>5. Joined0(t, f0)
  BY <1>2, <1>4
<1> QED BY <1>3, <1>5

\* The nodes of a chain, and of the first i chains.
Said(s) == {s[i] : i \in 1..Len(s)}
SaidTo(t, n) == {x \in Nodes : \E b \in 1..n : x \in Said(t[b])}

\* Two chains of different keys, one behind the other.
LEMMA OneEachConcat ==
  ASSUME NEW s \in Seq(Nodes), NEW c \in Seq(Nodes), OneEach(s), OneEach(c),
         \A x \in Said(s), y \in Said(c) : x[1] # y[1]
  PROVE  s \o c \in Seq(Nodes) /\ OneEach(s \o c) /\ Said(s \o c) = Said(s) \cup Said(c)
<1>1. PICK l \in Nat, m \in Nat, d \in Seq(Nodes) : l = Len(s) /\ m = Len(c) /\ d = s \o c
  BY LenProperties, ConcatProperties
<1>2. d \in Seq(Nodes) /\ Len(d) = l + m
      /\ \A i \in 1..(l + m) : d[i] = IF i <= l THEN s[i] ELSE c[i - l]
  BY <1>1, ConcatProperties
<1>3. \A i \in 1..l : i \in 1..(l + m) /\ i <= l
  OBVIOUS
<1>4. \A i \in 1..(l + m) : i \notin 1..l => i - l \in 1..m /\ ~ (i <= l)
  OBVIOUS
<1>5. \A i \in 1..m : i + l \in 1..(l + m) /\ ~ (i + l <= l) /\ (i + l) - l = i
  OBVIOUS
<1>6. /\ \A i \in 1..l : d[i] = s[i]
      /\ \A i \in 1..(l + m) : i \notin 1..l => d[i] = c[i - l]
      /\ \A i \in 1..m : d[i + l] = c[i]
  <2>1. \A i \in 1..l : d[i] = s[i]
    BY <1>2, <1>3
  <2>2. \A i \in 1..(l + m) : i \notin 1..l => d[i] = c[i - l]
    BY <1>2, <1>4
  <2>3. \A i \in 1..m : d[i + l] = c[i]
    BY <1>2, <1>5
  <2> QED BY <2>1, <2>2, <2>3
<1>7. OneEach(d)
  <2>1. ASSUME NEW i \in 1..(l + m), NEW j \in 1..(l + m), d[i][1] = d[j][1] PROVE i = j
    <3>1. CASE i \in 1..l /\ j \in 1..l
      BY <1>1, <1>6, <2>1, <3>1 DEF OneEach
    <3>2. CASE i \in 1..l /\ j \notin 1..l
      <4>1. d[i] = s[i] /\ d[j] = c[j - l] /\ j - l \in 1..m
        BY <1>4, <1>6, <3>2
      <4> QED BY <1>1, <2>1, <3>2, <4>1 DEF Said
    <3>3. CASE i \notin 1..l /\ j \in 1..l
      <4>1. d[j] = s[j] /\ d[i] = c[i - l] /\ i - l \in 1..m
        BY <1>4, <1>6, <3>3
      <4> QED BY <1>1, <2>1, <3>3, <4>1 DEF Said
    <3>4. CASE i \notin 1..l /\ j \notin 1..l
      <4>1. d[j] = c[j - l] /\ d[i] = c[i - l] /\ i - l \in 1..m /\ j - l \in 1..m
        BY <1>4, <1>6, <3>4
      <4>2. i - l = j - l
        BY <1>1, <2>1, <4>1 DEF OneEach
      <4> QED BY <4>2
    <3> QED BY <3>1, <3>2, <3>3, <3>4
  <2> QED BY <1>2, <2>1 DEF OneEach
<1>8. Said(d) = Said(s) \cup Said(c)
  <2>1. ASSUME NEW i \in 1..(l + m) PROVE d[i] \in Said(s) \cup Said(c)
    BY <1>1, <1>4, <1>6 DEF Said
  <2>2. ASSUME NEW i \in 1..l PROVE s[i] \in Said(d)
    BY <1>2, <1>3, <1>6 DEF Said
  <2>3. ASSUME NEW i \in 1..m PROVE c[i] \in Said(d)
    BY <1>2, <1>5, <1>6 DEF Said
  <2>4. Said(d) = {d[i] : i \in 1..(l + m)} /\ Said(s) = {s[i] : i \in 1..l}
        /\ Said(c) = {c[i] : i \in 1..m}
    BY <1>1, <1>2 DEF Said
  <2>5. Said(d) \subseteq Said(s) \cup Said(c)
    BY <2>1, <2>4
  <2>6. Said(s) \subseteq Said(d) /\ Said(c) \subseteq Said(d)
    BY <2>2, <2>3, <2>4
  <2> QED BY <2>5, <2>6
<1> QED BY <1>1, <1>2, <1>7, <1>8

\* The nodes of a table are those of its chains.
LEMMA HasIs ==
  ASSUME NEW t \in Seq(NodeChains)
  PROVE  Has(t) = SaidTo(t, Len(t))
BY DEF Has, SaidTo, Said

\* All nodes of a table, bucket by bucket.
LEMMA Flattened ==
  ASSUME NEW t, Sorted(t)
  PROVE  /\ H!FlattenSeq(t) \in Seq(Nodes) /\ OneEach(H!FlattenSeq(t))
         /\ Said(H!FlattenSeq(t)) = Has(t)
<1>1. PICK n \in Nat : n = Len(t)
  BY LenProperties DEF Sorted
<1>2. t \in Seq(NodeChains) /\ \A b \in 1..n : t[b] \in Seq(Nodes) /\ OneEach(t[b])
  BY <1>1, ChainNodes DEF Sorted, NodeChains
<1>3. CASE n = 0
  <2>1. t = <<>>
    BY <1>1, <1>2, <1>3, EmptySeq
  <2>2. H!FlattenSeq(t) = <<>>
    BY <2>1 DEF H!FlattenSeq
  <2>3. Has(t) = {} /\ Said(<<>>) = {} /\ <<>> \in Seq(Nodes) /\ OneEach(<<>>)
    <3>1. Len(<<>>) = 0 /\ <<>> \in Seq(Nodes) /\ 1..0 = {}
      BY EmptySeq
    <3> QED BY <2>1, <3>1 DEF Has, Said, OneEach
  <2> QED BY <2>2, <2>3
<1>4. CASE n # 0
  <2>1. PICK f : Joined0(t, f) /\ H!FlattenSeq(t) = f[n]
    <3>1. Len(t) > 0
      BY <1>1, <1>4
    <3> QED BY <1>1, <1>2, <3>1, FlattenIs
  <2>2. \A i \in 1..n : f[i] = IF i = 1 THEN t[i] ELSE f[i - 1] \o t[i]
    BY <1>1, <2>1 DEF Joined0
  <2> DEFINE Good(i) == f[i] \in Seq(Nodes) /\ OneEach(f[i]) /\ Said(f[i]) = SaidTo(t, i)
             S0 == {0} \cup {i \in 1..n : Good(i)}
  <2>3. ASSUME NEW i \in 1..n, i - 1 \in S0 PROVE Good(i)
    <3>1. \A x \in SaidTo(t, i - 1), y \in Said(t[i]) : x[1] # y[1]
      <4>1. ASSUME NEW b \in 1..(i - 1), NEW x \in Said(t[b]), NEW y \in Said(t[i]), x[1] = y[1]
            PROVE  FALSE
        <5>1. b \in 1..n /\ b # i
          OBVIOUS
        <5>2. \A m \in 1..n : \A j \in 1..Len(t[m]) : H!Index(t[m][j][1], n) = m
          BY <1>1 DEF Sorted
        <5>3. H!Index(x[1], n) = b
          BY <5>1, <5>2 DEF Said
        <5>4. H!Index(y[1], n) = i
          BY <5>2 DEF Said
        <5> QED BY <4>1, <5>1, <5>3, <5>4
      <4> QED BY <4>1 DEF SaidTo
    <3>2. Said(t[i]) \subseteq Nodes
      BY <1>1, <1>2, ChainNodes DEF Said
    <3>3. SaidTo(t, i) = SaidTo(t, i - 1) \cup Said(t[i])
      <4>1. \A b \in 1..i : b \in 1..(i - 1) \/ b = i
        OBVIOUS
      <4>2. (\A b \in 1..(i - 1) : b \in 1..i) /\ i \in 1..i
        OBVIOUS
      <4> QED BY <3>2, <4>1, <4>2 DEF SaidTo
    <3>4. CASE i = 1
      <4>1. f[i] = t[i]
        BY <2>2, <3>4
      <4>2. SaidTo(t, i - 1) = {}
        <5>1. 1..(i - 1) = {}
          BY <3>4
        <5> QED BY <5>1 DEF SaidTo
      <4> QED BY <1>2, <3>3, <4>1, <4>2
    <3>5. CASE i # 1
      <4>1. i - 1 \in 1..n /\ i - 1 # 0
        BY <3>5
      <4>2. Good(i - 1)
        BY <2>3, <4>1
      <4>3. f[i] = f[i - 1] \o t[i]
        BY <2>2, <3>5
      <4>4. f[i - 1] \o t[i] \in Seq(Nodes) /\ OneEach(f[i - 1] \o t[i])
            /\ Said(f[i - 1] \o t[i]) = Said(f[i - 1]) \cup Said(t[i])
        <5>1. f[i - 1] \in Seq(Nodes) /\ OneEach(f[i - 1]) /\ t[i] \in Seq(Nodes) /\ OneEach(t[i])
          BY <1>2, <4>2
        <5>2. \A x \in Said(f[i - 1]), y \in Said(t[i]) : x[1] # y[1]
          BY <3>1, <4>2
        <5> HIDE DEF Good, S0
        <5> QED BY <5>1, <5>2, OneEachConcat
      <4> QED BY <3>3, <4>2, <4>3, <4>4
    <3> QED BY <3>4, <3>5
  <2>4. n \in S0
    <3>1. 0 \in S0 /\ \A i \in 1..n : i - 1 \in S0 => i \in S0
      <4> HIDE DEF Good
      <4> QED BY <2>3
    <3>2. n \in 0..n
      OBVIOUS
    <3> HIDE DEF S0
    <3> QED BY <3>1, <3>2, UpTo
  <2>5. Good(n)
    BY <1>4, <2>4
  <2>6. Has(t) = SaidTo(t, n)
    BY <1>1, <1>2, HasIs
  <2> QED BY <2>1, <2>5, <2>6
<1> QED BY <1>3, <1>4

\* One node after the other joins a table of n empty chains.
Moves(f, moving, n) ==
  f = [i \in 0..Len(moving) |-> IF i = 0 THEN [b \in 1..n |-> <<>>] ELSE H!Added(f[i - 1], moving[i])]

\* A node that joins leaves a table of as many chains.
LEMMA AddedKeeps ==
  ASSUME NEW t \in Seq(NodeChains), Len(t) > 0, NEW node \in Nodes
  PROVE  H!Added(t, node) \in Seq(NodeChains) /\ Len(H!Added(t, node)) = Len(t)
<1>1. PICK n, l, u, at : Joins(t, node, n, l, u, at)
  BY AddedIs
<1> QED BY <1>1 DEF Joins

\* The table that put() grows is the last of those moves.
LEMMA RehashedIs ==
  ASSUME NEW old, NEW moving \in Seq(Nodes), moving = H!FlattenSeq(old), NEW n \in Nat \ {0}
  PROVE  \E f : Moves(f, moving, n) /\ H!Rehashed(old, n) = f[Len(moving)]
<1>1. PICK m \in Nat : m = Len(moving)
  BY LenProperties
<1> DEFINE f0 == CHOOSE f : f = [i \in 0..Len(moving) |-> IF i = 0 THEN [b \in 1..n |-> <<>>]
                                                        ELSE H!Added(f[i - 1], moving[i])]
<1>2. f0 = CHOOSE f : Moves(f, moving, n)
  BY DEF Moves
<1>3. H!Rehashed(old, n) = f0[Len(moving)]
  BY DEF H!Rehashed
<1> HIDE DEF f0
<1>4. \E f : Moves(f, moving, n)
  <2> DEFINE V0 == {v \in Seq(NodeChains) : Len(v) = n}
  <2>1. \A i \in 1..m : moving[i] \in Nodes
    BY <1>1, ElementOfSeq
  <2>2. PICK step : step = [i \in 1..m |-> [v \in V0 |-> H!Added(v, moving[i])]]
    OBVIOUS
  <2>3. step \in [1..m -> [V0 -> V0]]
    <3>1. \A i \in 1..m : \A v \in V0 : H!Added(v, moving[i]) \in V0
      BY <2>1, AddedKeeps
    <3> HIDE DEF V0
    <3> QED BY <2>2, <3>1
  <2>4. PICK v0 : v0 = [b \in 1..n |-> <<>>]
    OBVIOUS
  <2>5. v0 \in V0
    BY <2>4, SortedEmpty DEF Sorted
  <2>6. PICK g : Builds(g, m, V0, v0, step)
    <3> HIDE DEF V0
    <3> QED BY <1>1, <2>3, <2>5, BuiltUp
  <2>7. g \in [0..m -> V0] /\ g[0] = v0 /\ \A i \in 1..m : g[i] = step[i][g[i - 1]]
    <3> HIDE DEF V0
    <3> QED BY <2>6 DEF Builds
  <2> HIDE DEF V0
  <2>8. \A i \in 0..m : i # 0 => g[i] = H!Added(g[i - 1], moving[i])
    <3>1. ASSUME NEW i \in 1..m PROVE g[i] = H!Added(g[i - 1], moving[i])
      <4>1. i - 1 \in 0..m /\ g[i - 1] \in V0
        BY <2>7
      <4> QED BY <2>2, <2>7, <4>1
    <3>2. \A i \in 0..m : i # 0 => i \in 1..m
      OBVIOUS
    <3> QED BY <3>1, <3>2
  <2>9. g = [i \in 0..m |-> IF i = 0 THEN [b \in 1..n |-> <<>>] ELSE H!Added(g[i - 1], moving[i])]
    BY <2>4, <2>7, <2>8
  <2> QED BY <1>1, <2>9 DEF Moves
<1>5. Moves(f0, moving, n)
  BY <1>2, <1>4
<1> QED BY <1>3, <1>5

\* A table that grows keeps its nodes, each in its chain.
LEMMA SortedRehashed ==
  ASSUME NEW old, Sorted(old), NEW n \in Nat \ {0}
  PROVE  /\ Sorted(H!Rehashed(old, n)) /\ Len(H!Rehashed(old, n)) = n
         /\ Has(H!Rehashed(old, n)) = Has(old)
<1>1. PICK moving \in Seq(Nodes) : /\ moving = H!FlattenSeq(old) /\ OneEach(moving)
                                  /\ Said(moving) = Has(old)
  BY Flattened
<1>2. PICK m \in Nat : m = Len(moving)
  BY LenProperties
<1>3. PICK f : Moves(f, moving, n) /\ H!Rehashed(old, n) = f[m]
  BY <1>1, <1>2, RehashedIs
<1>4. f[0] = [b \in 1..n |-> <<>>] /\ \A i \in 1..m : f[i] = H!Added(f[i - 1], moving[i])
  <2>1. f = [i \in 0..m |-> IF i = 0 THEN [b \in 1..n |-> <<>>] ELSE H!Added(f[i - 1], moving[i])]
    BY <1>2, <1>3 DEF Moves
  <2>2. 0 \in 0..m /\ \A i \in 1..m : i \in 0..m /\ i # 0
    OBVIOUS
  <2> QED BY <2>1, <2>2
<1> DEFINE First(i) == {moving[j] : j \in 1..i}
           Good(i) == Sorted(f[i]) /\ Len(f[i]) = n /\ Has(f[i]) = First(i)
           S0 == {i \in 0..m : Good(i)}
<1>5. 0 \in S0
  <2>1. First(0) = {}
    OBVIOUS
  <2>2. Sorted(f[0]) /\ Has(f[0]) = {} /\ Len(f[0]) = n
    BY <1>4, SortedEmpty
  <2>3. 0 \in 0..m
    OBVIOUS
  <2> HIDE DEF First
  <2> QED BY <2>1, <2>2, <2>3
<1>6. ASSUME NEW i \in 1..m, i - 1 \in S0 PROVE i \in S0
  <2>1. Good(i - 1) /\ i \in 0..m
    <3> HIDE DEF Good
    <3> QED BY <1>6
  <2>2. moving[i] \in Nodes
    BY <1>1, <1>2, ElementOfSeq
  <2>3. NotIn(f[i - 1], moving[i][1])
    <3>1. ASSUME NEW j \in 1..(i - 1), moving[j][1] = moving[i][1] PROVE FALSE
      <4>1. j \in 1..m /\ j # i
        OBVIOUS
      <4> QED BY <1>1, <1>2, <3>1, <4>1 DEF OneEach
    <3> QED BY <2>1, <3>1 DEF NotIn
  <2>4. Sorted(f[i]) /\ Len(f[i]) = n /\ Has(f[i]) = First(i - 1) \cup {moving[i]}
    <3>1. Sorted(f[i - 1]) /\ Len(f[i - 1]) = n /\ n > 0 /\ Has(f[i - 1]) = First(i - 1)
      BY <2>1
    <3>2. f[i] = H!Added(f[i - 1], moving[i])
      BY <1>4
    <3> HIDE DEF First
    <3> QED BY <2>2, <2>3, <3>1, <3>2, SortedAdded
  <2>5. First(i) = First(i - 1) \cup {moving[i]}
    <3>1. \A j \in 1..i : j \in 1..(i - 1) \/ j = i
      OBVIOUS
    <3>2. (\A j \in 1..(i - 1) : j \in 1..i) /\ i \in 1..i
      OBVIOUS
    <3> QED BY <3>1, <3>2
  <2> HIDE DEF First
  <2> QED BY <2>1, <2>4, <2>5
<1>7. m \in S0
  <2>1. m \in 0..m
    OBVIOUS
  <2> HIDE DEF S0
  <2> QED BY <1>5, <1>6, <2>1, UpTo
<1>8. First(m) = Has(old)
  BY <1>1, <1>2 DEF Said
<1>9. Good(m)
  <2> HIDE DEF Good
  <2> QED BY <1>7
<1> HIDE DEF First
<1> QED BY <1>3, <1>8, <1>9

\* A key that is in the table is in its chain.
LEMMA InItsChain ==
  ASSUME NEW t, Sorted(t), Len(t) > 0, NEW k \in Keys, NEW at, at = H!Index(k, Len(t)),
         k \notin H!KeysOf(t[at])
  PROVE  NotIn(t, k)
<1>1. SUFFICES ASSUME NEW x \in Has(t), x[1] = k PROVE FALSE
  BY DEF NotIn
<1>2. PICK b, i : b \in 1..Len(t) /\ i \in 1..Len(t[b]) /\ t[b][i] = x
  BY DEF Has
<1>3. at = b
  BY <1>1, <1>2 DEF Sorted
<1>4. i \in DOMAIN t[b]
  <2>1. t \in Seq(NodeChains)
    BY DEF Sorted
  <2> QED BY <1>2, <2>1, ChainNodes
<1> QED BY <1>1, <1>2, <1>3, <1>4 DEF H!KeysOf

\* What w says once k has the value v.
LEMMA GraphWith ==
  ASSUME NEW w, NEW k, NEW v
  PROVE  Graph(With(w, k, v)) = {x \in Graph(w) : x[1] # k} \cup {<<k, v>>}
<1>1. PICK z : z = With(w, k, v)
  OBVIOUS
<1>2. DOMAIN z = DOMAIN w \cup {k} /\ z[k] = v /\ \A q \in DOMAIN w : q # k => z[q] = w[q]
  BY <1>1 DEF With
<1>3. ASSUME NEW x \in Graph(z) PROVE x \in {y \in Graph(w) : y[1] # k} \cup {<<k, v>>}
  <2>1. PICK q \in DOMAIN z : x = <<q, z[q]>>
    BY DEF Graph
  <2> QED BY <1>2, <2>1 DEF Graph
<1>4. ASSUME NEW x \in Graph(w), x[1] # k PROVE x \in Graph(z)
  <2>1. PICK q \in DOMAIN w : x = <<q, w[q]>>
    BY DEF Graph
  <2> QED BY <1>2, <1>4, <2>1 DEF Graph
<1>5. <<k, v>> \in Graph(z)
  BY <1>2 DEF Graph
<1> QED BY <1>1, <1>3, <1>4, <1>5

\* The table t, with the value v at every node of key k in the chain at.
Overwritten(t, k, v, at, u) ==
  /\ u \in Seq(NodeChains) /\ Len(u) = Len(t) /\ at \in 1..Len(t) /\ Len(u[at]) = Len(t[at])
  /\ \A i \in 1..Len(t[at]) : u[at][i] = IF t[at][i][1] = k THEN <<k, v>> ELSE t[at][i]
  /\ \A b \in 1..Len(t) : b # at => u[b] = t[b]

\* A chain with the value of one key overwritten.
LEMMA OverwrittenIs ==
  ASSUME NEW t \in Seq(NodeChains), NEW at \in 1..Len(t), NEW k \in Keys, NEW v \in Values,
         NEW u, u = [t EXCEPT ![at] = [i \in DOMAIN @ |-> IF @[i][1] = k THEN <<k, v>> ELSE @[i]]]
  PROVE  Overwritten(t, k, v, at, u)
<1>1. PICK n \in Nat : n = Len(t)
  BY LenProperties
<1>0. PICK c : c = t[at]
  OBVIOUS
<1>2. PICK l \in Nat : /\ c \in Seq(Nodes) /\ l = Len(c) /\ DOMAIN c = 1..l
                       /\ \A i \in 1..l : c[i] \in Nodes
  <2>1. Len(c) \in Nat /\ DOMAIN c = 1..Len(c) /\ c \in NodeChains
        /\ \A i \in 1..Len(c) : c[i] \in Nodes
    BY <1>0, ChainNodes
  <2>2. c \in Seq(Nodes)
    BY <2>1 DEF NodeChains
  <2> QED BY <2>1, <2>2
<1>3. PICK d : d = [i \in 1..l |-> IF c[i][1] = k THEN <<k, v>> ELSE c[i]]
  OBVIOUS
<1>4. d \in Seq(Nodes) /\ Len(d) = l
  <2>1. d \in [1..l -> Nodes]
    BY <1>2, <1>3, NodeParts
  <2> QED BY <2>1, FirstPlaces
<1>5. u = [t EXCEPT ![at] = d]
  BY <1>0, <1>2, <1>3
<1>6. u \in Seq(NodeChains) /\ Len(u) = n /\ \A b \in 1..n : u[b] = IF b = at THEN d ELSE t[b]
  <2>1. d \in NodeChains
    BY <1>4 DEF NodeChains
  <2> QED BY <1>1, <1>5, <2>1, ExceptSeq
<1> QED BY <1>0, <1>1, <1>2, <1>3, <1>4, <1>6 DEF Overwritten

\* Overwriting leaves every node in its place.
LEMMA SortedOverwritten ==
  ASSUME NEW t, Sorted(t), NEW k \in Keys, NEW v \in Values,
         NEW at, at = H!Index(k, Len(t)), NEW u, Overwritten(t, k, v, at, u),
         k \in H!KeysOf(t[at])
  PROVE  /\ Sorted(u) /\ Len(u) = Len(t)
         /\ Has(u) = {x \in Has(t) : x[1] # k} \cup {<<k, v>>}
         /\ \E x \in Has(t) : x[1] = k
<1>1. PICK n \in Nat : n = Len(t) /\ t \in Seq(NodeChains)
  BY LenProperties DEF Sorted
<1>2. PICK l \in Nat : l = Len(t[at]) /\ DOMAIN t[at] = 1..l
  BY ChainNodes DEF Overwritten, Sorted
<1>3. /\ u \in Seq(NodeChains) /\ Len(u) = n /\ at \in 1..n /\ Len(u[at]) = l
      /\ \A i \in 1..l : u[at][i] = IF t[at][i][1] = k THEN <<k, v>> ELSE t[at][i]
      /\ \A b \in 1..n : b # at => u[b] = t[b]
  BY <1>1, <1>2 DEF Overwritten
<1>4. \A i \in 1..l : u[at][i][1] = t[at][i][1]
  BY <1>3
<1>5. \A b \in 1..n : \A i \in 1..Len(t[b]) : t[b][i] \in Nodes
  BY <1>1, ChainNodes
<1>6. Sorted(u)
  <2>1. \A b \in 1..n : OneEach(t[b]) /\ \A i \in 1..Len(t[b]) : H!Index(t[b][i][1], n) = b
    BY <1>1 DEF Sorted
  <2>2. OneEach(u[at])
    BY <1>2, <1>3, <1>4, <2>1 DEF OneEach
  <2>3. \A i \in 1..l : H!Index(u[at][i][1], n) = at
    BY <1>2, <1>3, <1>4, <2>1
  <2>4. \A b \in 1..n : b # at => OneEach(u[b]) /\ \A i \in 1..Len(u[b]) : H!Index(u[b][i][1], n) = b
    BY <1>3, <2>1
  <2> QED BY <1>3, <2>2, <2>3, <2>4 DEF Sorted
<1>7. PICK j \in 1..l : t[at][j][1] = k
  BY <1>2 DEF H!KeysOf
<1>8. t[at][j] \in Has(t)
  BY <1>1, <1>2, <1>3, <1>5 DEF Has
<1>9. <<k, v>> \in Has(u)
  BY <1>3, <1>7, NodeParts DEF Has
<1>10. ASSUME NEW x \in Has(u) PROVE x = <<k, v>> \/ (x \in Has(t) /\ x[1] # k)
  <2>1. PICK b \in 1..n : \E i \in 1..Len(u[b]) : u[b][i] = x
    BY <1>3 DEF Has
  <2>2. PICK i \in 1..Len(u[b]) : u[b][i] = x
    BY <2>1
  <2>3. x \in Nodes
    BY DEF Has
  <2>4. CASE b = at
    <3>1. i \in 1..l /\ x = IF t[at][i][1] = k THEN <<k, v>> ELSE t[at][i]
      BY <1>3, <2>2, <2>4
    <3>2. CASE t[at][i][1] = k
      BY <3>1, <3>2
    <3>3. CASE t[at][i][1] # k
      <4>1. x = t[at][i]
        BY <3>1, <3>3
      <4> QED BY <1>1, <1>2, <1>3, <2>3, <3>1, <3>3, <4>1 DEF Has
    <3> QED BY <3>2, <3>3
  <2>5. CASE b # at
    <3>1. u[b] = t[b]
      BY <1>3, <2>5
    <3>2. x \in Has(t)
      BY <1>1, <2>2, <2>3, <3>1 DEF Has
    <3>3. H!Index(x[1], n) = b
      BY <1>1, <2>2, <3>1 DEF Sorted
    <3>4. x[1] # k
      BY <1>1, <2>5, <3>3
    <3> QED BY <3>2, <3>4
  <2> QED BY <2>4, <2>5
<1>11. ASSUME NEW x \in Has(t), x[1] # k PROVE x \in Has(u)
  <2>1. PICK b \in 1..n : \E i \in 1..Len(t[b]) : t[b][i] = x
    BY <1>1 DEF Has
  <2>2. PICK i \in 1..Len(t[b]) : t[b][i] = x
    BY <2>1
  <2>3. x \in Nodes
    BY DEF Has
  <2>4. CASE b = at
    <3>1. i \in 1..l /\ u[at][i] = x
      BY <1>2, <1>3, <1>11, <2>2, <2>4
    <3> QED BY <1>3, <2>3, <3>1 DEF Has
  <2>5. CASE b # at
    <3>1. u[b] = t[b]
      BY <1>3, <2>5
    <3> QED BY <1>3, <2>2, <2>3, <3>1 DEF Has
  <2> QED BY <2>4, <2>5
<1>12. Has(u) = {x \in Has(t) : x[1] # k} \cup {<<k, v>>}
  BY <1>9, <1>10, <1>11
<1> QED BY <1>1, <1>3, <1>6, <1>7, <1>8, <1>12

\* The table t, which counts m nodes, holds w and is not overfull.
HashTable(t, w, m) ==
  /\ Sorted(t) /\ Mapped(t, w) /\ IsFiniteSet(DOMAIN w) /\ m \in Nat
  /\ Cardinality(DOMAIN w) <= m /\ 4 * m <= 3 * Len(t)

\* What holds of a sound map that is not spoilt.
LEMMA HashHolds ==
  ASSUME HashInv, spoilt = {}  PROVE HashTable(table, want, m_size)
BY CountedKeys DEF HashInv, H!TypeOK, HashTable

\* A sound map has its type.
LEMMA HashTypes ==
  ASSUME NEW t, NEW w, NEW m, HashTable(t, w, m)
  PROVE  /\ H!IsFiniteSet(DOMAIN w) /\ DOMAIN w \subseteq Keys /\ m \in Nat
         /\ \A b \in DOMAIN t : t[b] \in Seq(Keys \X Values)
<1>1. t \in Seq(NodeChains)
  BY DEF HashTable, Sorted
<1>2. \A b \in DOMAIN t : t[b] \in Seq(Nodes)
  BY <1>1, ChainNodes DEF NodeChains
<1> QED BY <1>2, CountedKeys DEF HashTable, Mapped, Nodes

\* A step that leaves a sound map keeps the invariant.
LEMMA HashKeeps ==
  ASSUME HashTable(table', want', m_size'), alive' \in BOOLEAN, spoilt' = {},
         alive' \/ table' = <<>> \/ \E k \in Keys : H!Endless(k)'
  PROVE  HashInv'
<1>1. H!TypeOK'
  BY HashTypes DEF H!TypeOK
<1> QED BY <1>1 DEF HashInv, HashTable

\* Once the state is spoilt, only its types are left.
LEMMA HashSpoilt ==
  ASSUME H!TypeOK', spoilt' # {}, alive' \/ table' = <<>> \/ \E k \in Keys : H!Endless(k)'
  PROVE  HashInv'
BY DEF HashInv

\* The keys and what they count, once k has a value.
LEMMA WithKeys ==
  ASSUME NEW w, NEW k \in Keys, NEW v \in Values, DOMAIN w \subseteq Keys, IsFiniteSet(DOMAIN w)
  PROVE  /\ DOMAIN With(w, k, v) = DOMAIN w \cup {k} /\ DOMAIN With(w, k, v) \subseteq Keys
         /\ IsFiniteSet(DOMAIN With(w, k, v)) /\ Cardinality(DOMAIN w) \in Nat
         /\ Cardinality(DOMAIN With(w, k, v)) <= Cardinality(DOMAIN w) + 1
         /\ k \in DOMAIN w => Cardinality(DOMAIN With(w, k, v)) = Cardinality(DOMAIN w)
<1>1. DOMAIN With(w, k, v) = DOMAIN w \cup {k}
  BY DEF With
<1>2. IsFiniteSet(DOMAIN w \cup {k}) /\ Cardinality(DOMAIN w) \in Nat
      /\ Cardinality(DOMAIN w \cup {k}) =
           IF k \in DOMAIN w THEN Cardinality(DOMAIN w) ELSE Cardinality(DOMAIN w) + 1
  BY FS_AddElement, FS_CardinalityType
<1> QED BY <1>1, <1>2

\* A key that is put is new, or has its value overwritten.
LEMMA HashPut ==
  ASSUME HashInv, spoilt = {}, alive, NEW k \in Keys, NEW v \in Values, H!put(k, v)
  PROVE  HashInv'
<1>1. HashTable(table, want, m_size)
  BY HashHolds
<1>2. PICK t : t = IF table = <<>> THEN H!Rehashed(<<>>, InitialSize) ELSE table
  OBVIOUS
<1>3. Sorted(t) /\ Has(t) = Has(table) /\ Len(t) > 0 /\ 4 * m_size <= 3 * Len(t)
  <2>1. Sorted(table) /\ table \in Seq(NodeChains) /\ Len(table) \in Nat
        /\ m_size \in Nat /\ 4 * m_size <= 3 * Len(table)
    BY <1>1, LenProperties DEF HashTable, Sorted
  <2>2. CASE table = <<>>
    <3>1. InitialSize \in Nat \ {0}
      BY CollectionsAssumption
    <3>2. t = H!Rehashed(table, InitialSize)
      BY <1>2, <2>2
    <3>3. Sorted(t) /\ Has(t) = Has(table) /\ Len(t) = InitialSize
      BY <2>1, <3>1, <3>2, SortedRehashed
    <3>4. Len(table) = 0
      BY <2>2, EmptySeq
    <3> QED BY <2>1, <3>1, <3>3, <3>4
  <2>3. CASE table # <<>>
    <3>1. Len(table) # 0
      BY <2>1, <2>3, EmptySeq
    <3> QED BY <1>2, <2>1, <2>3, <3>1
  <2> QED BY <2>2, <2>3
<1>4. PICK n \in Nat \ {0} : n = Len(t) /\ t \in Seq(NodeChains)
  BY <1>3, LenProperties DEF Sorted
<1>5. PICK at \in 1..n : at = H!Index(k, n)
  BY IndexInside
<1>6. PICK w : w = With(want, k, v)
  OBVIOUS
<1>7. PICK m \in Nat : m = m_size
  BY <1>1 DEF HashTable
<1>8. want' = w /\ spoilt' = {} /\ alive' \in BOOLEAN /\ alive'
  BY <1>6 DEF H!put, With
<1>9. /\ Mapped(table, want) /\ IsFiniteSet(DOMAIN want) /\ DOMAIN want \subseteq Keys
      /\ Cardinality(DOMAIN want) <= m
  BY <1>1, <1>7 DEF HashTable, Mapped
<1>10. /\ DOMAIN w = DOMAIN want \cup {k} /\ DOMAIN w \subseteq Keys
       /\ IsFiniteSet(DOMAIN w) /\ Cardinality(DOMAIN want) \in Nat
       /\ Cardinality(DOMAIN w) <= Cardinality(DOMAIN want) + 1
       /\ k \in DOMAIN want => Cardinality(DOMAIN w) = Cardinality(DOMAIN want)
  BY <1>6, <1>9, WithKeys
<1>11. Graph(w) = {x \in Has(t) : x[1] # k} \cup {<<k, v>>}
  BY <1>3, <1>6, <1>9, GraphWith DEF Mapped
<1>12. Cardinality(DOMAIN w) \in Nat
  BY <1>10, FS_CardinalityType
<1>13. CASE k \in H!KeysOf(t[at])
  <2>1. PICK u : u = [t EXCEPT ![at] = [i \in DOMAIN @ |-> IF @[i][1] = k THEN <<k, v>> ELSE @[i]]]
    OBVIOUS
  <2>2. table' = u /\ m_size' = m
    BY <1>2, <1>4, <1>5, <1>7, <1>13, <2>1 DEF H!put
  <2>3. Overwritten(t, k, v, at, u)
    BY <1>4, <2>1, OverwrittenIs
  <2>4. Sorted(u) /\ Len(u) = n /\ Has(u) = {x \in Has(t) : x[1] # k} \cup {<<k, v>>}
        /\ \E x \in Has(t) : x[1] = k
    BY <1>3, <1>4, <1>5, <1>13, <2>3, SortedOverwritten
  <2>5. k \in DOMAIN want
    BY <1>3, <1>9, <2>4 DEF Mapped, Graph
  <2>6. HashTable(u, w, m)
    BY <1>3, <1>4, <1>7, <1>9, <1>10, <1>11, <2>4, <2>5 DEF HashTable, Mapped
  <2> QED BY <1>8, <2>2, <2>6, HashKeeps
<1>14. CASE k \notin H!KeysOf(t[at])
  <2>1. NotIn(t, k)
    BY <1>3, <1>4, <1>5, <1>14, InItsChain
  <2>2. PICK u : u = H!Added(t, <<k, v>>)
    OBVIOUS
  <2>3. Sorted(u) /\ Len(u) = n /\ Has(u) = Has(t) \cup {<<k, v>>}
    <3>1. <<k, v>> \in Nodes /\ <<k, v>>[1] = k
      BY NodeParts
    <3> QED BY <1>3, <1>4, <2>1, <2>2, <3>1, SortedAdded
  <2>4. Has(u) = Graph(w)
    BY <1>11, <2>1, <2>3 DEF NotIn
  <2>5. Cardinality(DOMAIN w) <= m + 1
    BY <1>9, <1>10, <1>12
  <2>6. /\ m_size' = m + 1
        /\ table' = IF m + 1 > n \div 2 + n \div 4 THEN H!Rehashed(u, 2 * n) ELSE u
    BY <1>2, <1>4, <1>5, <1>7, <1>14, <2>2 DEF H!put
  <2>7. 4 * m <= 3 * n
    BY <1>3, <1>4, <1>7
  <2>8. CASE m + 1 > n \div 2 + n \div 4
    <3>1. PICK z : z = H!Rehashed(u, 2 * n)
      OBVIOUS
    <3>2. 2 * n \in Nat \ {0} /\ 4 * (m + 1) <= 3 * (2 * n)
      BY <2>7
    <3>3. Sorted(z) /\ Len(z) = 2 * n /\ Has(z) = Has(u)
      BY <2>3, <3>1, <3>2, SortedRehashed
    <3>4. HashTable(z, w, m + 1)
      BY <1>10, <2>4, <2>5, <3>2, <3>3 DEF HashTable, Mapped
    <3>5. table' = z /\ m_size' = m + 1
      BY <2>6, <2>8, <3>1
    <3> QED BY <1>8, <3>4, <3>5, HashKeeps
  <2>9. CASE ~ (m + 1 > n \div 2 + n \div 4)
    <3>1. 4 * (m + 1) <= 3 * n
      BY <2>9
    <3>2. HashTable(u, w, m + 1)
      BY <1>10, <2>3, <2>4, <2>5, <3>1 DEF HashTable, Mapped
    <3>3. table' = u /\ m_size' = m + 1
      BY <2>6, <2>9
    <3> QED BY <1>8, <3>2, <3>3, HashKeeps
  <2> QED BY <2>8, <2>9
<1> QED BY <1>13, <1>14

\* The nodes of the chain s but its i-th.
Chopped(s, i, l, c) ==
  /\ l \in Nat /\ l = Len(s) /\ i \in 1..l /\ c \in Seq(Nodes) /\ Len(c) = l - 1
  /\ \A j \in 1..(l - 1) : c[j] = IF j < i THEN s[j] ELSE s[j + 1]

\* A chain without its i-th node.
LEMMA ChoppedIs ==
  ASSUME NEW s \in Seq(Nodes), NEW i \in 1..Len(s)
  PROVE  \E l, c : Chopped(s, i, l, c) /\ H!RemoveAt(s, i) = c
<1>1. PICK l \in Nat : l = Len(s)
  BY LenProperties
<1>2. PICK p, q : p = SubSeq(s, 1, i - 1) /\ q = SubSeq(s, i + 1, l)
  OBVIOUS
<1>3. i \in Int /\ i \in 1..l /\ l \in Int
  BY <1>1
<1>4. i - 1 \in Nat /\ l - i \in Nat /\ i + 1 \in Int /\ 1 \in Int
  BY <1>3
<1>5. \A j \in 1..l : s[j] \in Nodes
  BY <1>1, ElementOfSeq
<1>6. p \in Seq(Nodes) /\ Len(p) = i - 1 /\ \A j \in 1..(i - 1) : p[j] = s[j]
  <2>1. \A j \in 1..(i - 1) : s[j] \in Nodes
    BY <1>3, <1>5
  <2>2. /\ SubSeq(s, 1, i - 1) \in Seq(Nodes)
        /\ Len(SubSeq(s, 1, i - 1)) = IF 1 <= i - 1 THEN (i - 1) - 1 + 1 ELSE 0
        /\ \A j \in 1..((i - 1) - 1 + 1) : SubSeq(s, 1, i - 1)[j] = s[1 + j - 1]
    BY <1>3, <1>4, <2>1, SubSeqProperties
  <2>3. (IF 1 <= i - 1 THEN (i - 1) - 1 + 1 ELSE 0) = i - 1
    BY <1>4
  <2>4. \A j \in 1..(i - 1) : j \in 1..((i - 1) - 1 + 1) /\ 1 + j - 1 = j
    BY <1>4
  <2> QED BY <1>2, <2>2, <2>3, <2>4
<1>7. q \in Seq(Nodes) /\ Len(q) = l - i /\ \A j \in 1..(l - i) : q[j] = s[j + i]
  <2>1. \A j \in (i + 1)..l : s[j] \in Nodes
    BY <1>3, <1>5
  <2>2. /\ SubSeq(s, i + 1, l) \in Seq(Nodes)
        /\ Len(SubSeq(s, i + 1, l)) = IF i + 1 <= l THEN l - (i + 1) + 1 ELSE 0
        /\ \A j \in 1..(l - (i + 1) + 1) : SubSeq(s, i + 1, l)[j] = s[i + 1 + j - 1]
    BY <1>3, <1>4, <2>1, SubSeqProperties
  <2>3. (IF i + 1 <= l THEN l - (i + 1) + 1 ELSE 0) = l - i
    BY <1>3
  <2>4. \A j \in 1..(l - i) : j \in 1..(l - (i + 1) + 1) /\ i + 1 + j - 1 = j + i
    BY <1>3
  <2> QED BY <1>2, <2>2, <2>3, <2>4
<1>8. PICK c : c = p \o q
  OBVIOUS
<1>9. c \in Seq(Nodes) /\ Len(c) = (i - 1) + (l - i)
      /\ \A j \in 1..((i - 1) + (l - i)) : c[j] = IF j <= i - 1 THEN p[j] ELSE q[j - (i - 1)]
  <2>1. p \in Seq(Nodes) /\ q \in Seq(Nodes) /\ Len(p) = i - 1 /\ Len(q) = l - i
    BY <1>6, <1>7
  <2>2. /\ p \o q \in Seq(Nodes) /\ Len(p \o q) = Len(p) + Len(q)
        /\ \A j \in 1..(Len(p) + Len(q)) : (p \o q)[j] = IF j <= Len(p) THEN p[j] ELSE q[j - Len(p)]
    BY <2>1, ConcatProperties
  <2> QED BY <1>8, <2>1, <2>2
<1>10. (i - 1) + (l - i) = l - 1
  BY <1>3
<1>11. ASSUME NEW j \in 1..(l - 1) PROVE c[j] = IF j < i THEN s[j] ELSE s[j + 1]
  <2>1. CASE j < i
    <3>1. j \in 1..(i - 1) /\ j <= i - 1
      BY <1>3, <2>1
    <3> QED BY <1>6, <1>9, <1>10, <2>1, <3>1
  <2>2. CASE ~ (j < i)
    <3>1. j - (i - 1) \in 1..(l - i) /\ ~ (j <= i - 1) /\ (j - (i - 1)) + i = j + 1
      BY <1>3, <2>2
    <3> QED BY <1>7, <1>9, <1>10, <2>2, <3>1
  <2> QED BY <2>1, <2>2
<1>12. H!RemoveAt(s, i) = c
  BY <1>1, <1>2, <1>8 DEF H!RemoveAt
<1>13. Chopped(s, i, l, c)
  BY <1>1, <1>3, <1>9, <1>10, <1>11 DEF Chopped
<1> QED BY <1>12, <1>13

\* A chain loses one node, and its key with it.
LEMMA ChoppedKeeps ==
  ASSUME NEW s \in Seq(Nodes), NEW i, NEW l, NEW c, Chopped(s, i, l, c), OneEach(s)
  PROVE  OneEach(c) /\ Said(c) = {x \in Said(s) : x[1] # s[i][1]}
<1>1. /\ l \in Nat /\ l = Len(s) /\ i \in 1..l /\ c \in Seq(Nodes) /\ Len(c) = l - 1
      /\ \A j \in 1..(l - 1) : c[j] = IF j < i THEN s[j] ELSE s[j + 1]
  BY DEF Chopped
<1>2. \A j, k \in 1..l : s[j][1] = s[k][1] => j = k
  BY <1>1 DEF OneEach
<1> DEFINE Old(j) == IF j < i THEN j ELSE j + 1
<1>3. \A j \in 1..(l - 1) : Old(j) \in 1..l /\ Old(j) # i /\ c[j] = s[Old(j)]
  BY <1>1
<1>4. \A j, k \in 1..(l - 1) : Old(j) = Old(k) => j = k
  BY <1>1
<1>5. \A j \in 1..l : j # i => \E k \in 1..(l - 1) : Old(k) = j
  <2>1. ASSUME NEW j \in 1..l, j # i PROVE \E k \in 1..(l - 1) : Old(k) = j
    <3>1. CASE j < i
      <4>1. j \in 1..(l - 1) /\ Old(j) = j
        BY <1>1, <3>1
      <4> QED BY <4>1
    <3>2. CASE ~ (j < i)
      <4>1. j - 1 \in 1..(l - 1) /\ Old(j - 1) = j
        BY <1>1, <2>1, <3>2
      <4> QED BY <4>1
    <3> QED BY <3>1, <3>2
  <2> QED BY <2>1
<1> HIDE DEF Old
<1>6. OneEach(c)
  <2>1. ASSUME NEW j \in 1..(l - 1), NEW k \in 1..(l - 1), c[j][1] = c[k][1] PROVE j = k
    <3>1. Old(j) = Old(k)
      BY <1>2, <1>3, <2>1
    <3> QED BY <1>4, <3>1
  <2> QED BY <1>1, <2>1 DEF OneEach
<1>7. \A x \in Said(c) : x \in Said(s) /\ x[1] # s[i][1]
  <2>1. \A j \in 1..(l - 1) : c[j] \in Said(s) /\ c[j][1] # s[i][1]
    BY <1>1, <1>2, <1>3 DEF Said
  <2> QED BY <1>1, <2>1 DEF Said
<1>8. ASSUME NEW x \in Said(s), x[1] # s[i][1] PROVE x \in Said(c)
  <2>1. PICK j \in 1..l : s[j] = x
    BY <1>1 DEF Said
  <2>2. j # i
    BY <1>8, <2>1
  <2>3. PICK k \in 1..(l - 1) : Old(k) = j
    BY <1>5, <2>2
  <2> QED BY <1>1, <1>3, <2>1, <2>3 DEF Said
<1> QED BY <1>6, <1>7, <1>8

\* The table t whose chain b lost its i-th node.
Erased(t, b, i, u) ==
  /\ u \in Seq(NodeChains) /\ Len(u) = Len(t) /\ b \in 1..Len(t) /\ i \in 1..Len(t[b])
  /\ OneEach(u[b]) /\ Said(u[b]) = {x \in Said(t[b]) : x[1] # t[b][i][1]}
  /\ \A d \in 1..Len(t) : d # b => u[d] = t[d]

\* A chain with the node of one key erased.
LEMMA ErasedIs ==
  ASSUME NEW t, Sorted(t), NEW b \in DOMAIN t, NEW i \in DOMAIN t[b],
         NEW u, u = [t EXCEPT ![b] = H!RemoveAt(@, i)]
  PROVE  Erased(t, b, i, u)
<1>1. PICK n \in Nat : n = Len(t) /\ t \in Seq(NodeChains) /\ DOMAIN t = 1..n
  BY LenProperties DEF Sorted
<1>2. PICK s : s = t[b]
  OBVIOUS
<1>3. s \in Seq(Nodes) /\ i \in 1..Len(s) /\ OneEach(s)
  <2>1. t[b] \in NodeChains /\ DOMAIN t[b] = 1..Len(t[b])
    BY <1>1, ChainNodes
  <2> QED BY <1>1, <1>2, <2>1 DEF NodeChains, Sorted
<1>4. PICK l, c : Chopped(s, i, l, c) /\ H!RemoveAt(s, i) = c
  BY <1>3, ChoppedIs
<1>5. OneEach(c) /\ Said(c) = {x \in Said(s) : x[1] # s[i][1]}
  BY <1>3, <1>4, ChoppedKeeps
<1>6. u = [t EXCEPT ![b] = c]
  BY <1>2, <1>4
<1>7. u \in Seq(NodeChains) /\ Len(u) = n /\ \A d \in 1..n : u[d] = IF d = b THEN c ELSE t[d]
  <2>1. c \in NodeChains
    BY <1>4 DEF Chopped, NodeChains
  <2> QED BY <1>1, <1>6, <2>1, ExceptSeq
<1>8. u[b] = c /\ \A d \in 1..n : d # b => u[d] = t[d]
  BY <1>1, <1>7
<1> QED BY <1>1, <1>2, <1>3, <1>5, <1>7, <1>8 DEF Erased

\* What w says without the key k.
Without(w, k) == [q \in DOMAIN w \ {k} |-> w[q]]

\* A map without a key, as a set of pairs.
LEMMA GraphWithout ==
  ASSUME NEW w, NEW k
  PROVE  Graph(Without(w, k)) = {x \in Graph(w) : x[1] # k}
<1>1. PICK z : z = Without(w, k)
  OBVIOUS
<1>2. DOMAIN z = DOMAIN w \ {k} /\ \A q \in DOMAIN z : z[q] = w[q]
  BY <1>1 DEF Without
<1>3. ASSUME NEW x \in Graph(z) PROVE x \in Graph(w) /\ x[1] # k
  BY <1>2 DEF Graph
<1>4. ASSUME NEW x \in Graph(w), x[1] # k PROVE x \in Graph(z)
  <2>1. PICK q \in DOMAIN w : x = <<q, w[q]>>
    BY DEF Graph
  <2> QED BY <1>2, <1>4, <2>1 DEF Graph
<1> QED BY <1>1, <1>3, <1>4

\* Erasing a node leaves the others in their places.
LEMMA SortedErased ==
  ASSUME NEW t, Sorted(t), NEW b, NEW i, NEW u, Erased(t, b, i, u)
  PROVE  /\ Sorted(u) /\ Len(u) = Len(t)
         /\ Has(u) = {x \in Has(t) : x[1] # t[b][i][1]}
         /\ t[b][i] \in Has(t)
<1>1. PICK n \in Nat : n = Len(t) /\ t \in Seq(NodeChains)
  BY LenProperties DEF Sorted
<1>2. /\ u \in Seq(NodeChains) /\ Len(u) = n /\ b \in 1..n /\ i \in 1..Len(t[b])
      /\ OneEach(u[b]) /\ Said(u[b]) = {x \in Said(t[b]) : x[1] # t[b][i][1]}
      /\ \A d \in 1..n : d # b => u[d] = t[d]
  BY <1>1 DEF Erased
<1>3. \A d \in 1..n : /\ OneEach(t[d]) /\ \A x \in Said(t[d]) : H!Index(x[1], n) = d
  BY <1>1 DEF Sorted, Said
<1>4. t[b][i] \in Said(t[b])
  BY <1>2 DEF Said
<1>5. \A d \in 1..n : Said(u[d]) = {x \in Said(t[d]) : x[1] # t[b][i][1]}
  <2>1. ASSUME NEW d \in 1..n, d # b PROVE \A x \in Said(t[d]) : x[1] # t[b][i][1]
    BY <1>2, <1>3, <1>4, <2>1
  <2>2. ASSUME NEW d \in 1..n, d # b PROVE Said(u[d]) = {x \in Said(t[d]) : x[1] # t[b][i][1]}
    BY <1>2, <2>1, <2>2
  <2> QED BY <1>2, <2>2
<1>6. Sorted(u)
  <2>1. \A d \in 1..n : OneEach(u[d])
    BY <1>2, <1>3
  <2>2. \A d \in 1..n : \A j \in 1..Len(u[d]) : H!Index(u[d][j][1], n) = d
    <3>1. \A d \in 1..n : \A j \in 1..Len(u[d]) : u[d][j] \in Said(u[d])
      BY DEF Said
    <3> QED BY <1>3, <1>5, <3>1
  <2> QED BY <1>2, <2>1, <2>2 DEF Sorted
<1>7. Has(t) = SaidTo(t, n) /\ Has(u) = SaidTo(u, n)
  BY <1>1, <1>2, HasIs
<1>8. t[b][i] \in Has(t)
  BY <1>1, <1>2, ChainNodes DEF Has
<1> QED BY <1>1, <1>2, <1>5, <1>6, <1>7, <1>8 DEF SaidTo

\* erase() takes the node and its key, and leaves the count.
LEMMA HashErase ==
  ASSUME HashInv, spoilt = {}, alive, NEW b \in DOMAIN table, NEW i \in DOMAIN table[b],
         H!erase(b, i)
  PROVE  HashInv'
<1>1. HashTable(table, want, m_size)
  BY HashHolds
<1>2. PICK u : u = [table EXCEPT ![b] = H!RemoveAt(@, i)]
  OBVIOUS
<1>3. PICK k : k = table[b][i][1]
  OBVIOUS
<1>4. PICK w : w = Without(want, k)
  OBVIOUS
<1>5. table' = u /\ want' = w /\ m_size' = m_size /\ spoilt' = {} /\ alive' \in BOOLEAN /\ alive'
  BY <1>2, <1>3, <1>4 DEF H!erase, Without
<1>6. Sorted(u) /\ Len(u) = Len(table) /\ Has(u) = {x \in Has(table) : x[1] # k}
  <2>1. Sorted(table)
    BY <1>1 DEF HashTable
  <2>2. Erased(table, b, i, u)
    BY <1>2, <2>1, ErasedIs
  <2> QED BY <1>3, <2>1, <2>2, SortedErased
<1>7. Mapped(table, want) /\ IsFiniteSet(DOMAIN want) /\ m_size \in Nat
      /\ Cardinality(DOMAIN want) <= m_size /\ 4 * m_size <= 3 * Len(table)
  BY <1>1 DEF HashTable
<1>8. Mapped(u, w) /\ DOMAIN w = DOMAIN want \ {k}
  <2>1. Graph(w) = {x \in Graph(want) : x[1] # k}
    BY <1>4, GraphWithout
  <2>2. DOMAIN w = DOMAIN want \ {k}
    BY <1>4 DEF Without
  <2>3. Has(table) = Graph(want) /\ DOMAIN want \subseteq Keys
    BY <1>7 DEF Mapped
  <2>4. Has(u) = Graph(w) /\ DOMAIN w \subseteq Keys
    BY <1>6, <2>1, <2>2, <2>3
  <2> QED BY <2>2, <2>4 DEF Mapped
<1>9. IsFiniteSet(DOMAIN w) /\ Cardinality(DOMAIN w) <= m_size
  <2>1. DOMAIN w \subseteq DOMAIN want
    BY <1>8
  <2>2. IsFiniteSet(DOMAIN w) /\ Cardinality(DOMAIN w) <= Cardinality(DOMAIN want)
    BY <1>7, <2>1, FS_Subset
  <2>3. Cardinality(DOMAIN w) \in Nat /\ Cardinality(DOMAIN want) \in Nat
    BY <1>7, <2>2, FS_CardinalityType
  <2> QED BY <1>7, <2>2, <2>3
<1>10. HashTable(u, w, m_size)
  BY <1>6, <1>7, <1>8, <1>9 DEF HashTable
<1> QED BY <1>5, <1>10, HashKeeps

\* A map without nodes.
LEMMA HashEmpty ==
  HashTable(<<>>, <<>>, 0)
<1>1. <<>> \in Seq(NodeChains) /\ Len(<<>>) = 0 /\ DOMAIN <<>> = {}
  <2>1. <<>> \in Seq(NodeChains) /\ Len(<<>>) = 0
    BY EmptySeq
  <2>2. DOMAIN <<>> = 1..0
    BY <2>1, LenProperties
  <2> QED BY <2>1, <2>2
<1>2. Sorted(<<>>) /\ Has(<<>>) = {}
  BY <1>1 DEF Sorted, Has
<1>3. Mapped(<<>>, <<>>)
  BY <1>1, <1>2 DEF Mapped, Graph
<1>4. IsFiniteSet({}) /\ Cardinality({}) = 0
  BY FS_EmptySet
<1> QED BY <1>1, <1>2, <1>3, <1>4 DEF HashTable

\* A new map has the invariant, or is spoilt.
LEMMA HashInit ==
  ASSUME H!Init  PROVE HashInv
<1>1. /\ table \in {<<>>, <<Junk, Junk>>} /\ m_size = 0 /\ want = <<>> /\ alive = TRUE
      /\ spoilt = IF table = <<>> THEN {} ELSE {"junk"}
  BY DEF H!Init
<1>2. HashTable(<<>>, want, m_size)
  BY <1>1, HashEmpty
<1>3. CASE table = <<>>
  <2>1. HashTable(table, want, m_size)
    BY <1>2, <1>3
  <2>2. H!TypeOK
    BY <1>1, <2>1, HashTypes DEF H!TypeOK
  <2> QED BY <1>1, <2>1, <2>2 DEF HashInv, HashTable
<1>4. CASE table # <<>>
  <2>1. \A b \in DOMAIN table : table[b] = Junk
    <3>1. table = <<Junk, Junk>>
      BY <1>1, <1>4
    <3>2. DOMAIN <<Junk, Junk>> = 1..2 /\ \A b \in 1..2 : <<Junk, Junk>>[b] = Junk
      OBVIOUS
    <3> QED BY <3>1, <3>2
  <2>2. H!TypeOK
    BY <1>1, <1>2, <2>1, HashTypes DEF H!TypeOK
  <2>3. spoilt # {}
    BY <1>1, <1>4
  <2> QED BY <1>1, <2>2, <2>3 DEF HashInv
<1> QED BY <1>3, <1>4

\* get() and a walk leave the table, clear() and a move empty it.
LEMMA HashLooks ==
  ASSUME HashInv, spoilt = {}, alive, (\E k \in Keys : H!get(k)) \/ H!iterate
  PROVE  HashInv'
<1>1. HashTable(table, want, m_size)
  BY HashHolds
<1>2. /\ table' = table /\ want' = want /\ m_size' = m_size /\ alive' \in BOOLEAN
      /\ spoilt' \in {{}, {"readPastEnd"}}
      /\ alive' \/ table' = <<>> \/ \E k \in Keys : H!Endless(k)'
  <2>1. CASE \E k \in Keys : H!get(k)
    BY <2>1 DEF H!get, H!Endless, H!Chain, H!Found, H!Index
  <2>2. CASE H!iterate
    BY <2>2 DEF H!iterate
  <2> QED BY <2>1, <2>2
<1>3. HashTable(table', want', m_size')
  BY <1>1, <1>2
<1>4. CASE spoilt' = {}
  BY <1>2, <1>3, <1>4, HashKeeps
<1>5. CASE spoilt' # {}
  <2>1. H!TypeOK'
    BY <1>2, <1>3, HashTypes DEF H!TypeOK
  <2> QED BY <1>2, <1>5, <2>1, HashSpoilt
<1> QED BY <1>4, <1>5

\* clear() keeps the invariant, and a map moved from has it.
LEMMA HashClear ==
  ASSUME HashInv, spoilt = {}, alive, H!clear \/ H!movedFrom
  PROVE  HashInv'
<1>1. table' = <<>> /\ m_size' = 0 /\ want' = <<>> /\ spoilt' = {} /\ alive' \in BOOLEAN /\ alive'
  BY DEF H!clear, H!movedFrom
<1>2. HashTable(table', want', m_size')
  BY <1>1, HashEmpty
<1> QED BY <1>1, <1>2, HashKeeps

\* A copy has the same chains, unless one of them is empty.
LEMMA HashCopy ==
  ASSUME HashInv, spoilt = {}, alive, H!copy
  PROVE  HashInv'
<1>1. HashTable(table, want, m_size)
  BY HashHolds
<1>2. /\ table' = [b \in DOMAIN table |-> IF table[b] = <<>> THEN Junk ELSE table[b]]
      /\ spoilt' = IF \E b \in DOMAIN table : table[b] = <<>> THEN {"junk"} ELSE {}
      /\ m_size' = m_size /\ want' = want /\ alive' \in BOOLEAN /\ alive'
  BY DEF H!copy
<1>3. CASE \E b \in DOMAIN table : table[b] = <<>>
  <2>1. \A b \in DOMAIN table' : table'[b] # Junk => table'[b] \in Seq(Keys \X Values)
    BY <1>1, <1>2, HashTypes
  <2>2. spoilt' = {"junk"}
    BY <1>2, <1>3
  <2>3. H!TypeOK'
    BY <1>1, <1>2, <2>1, <2>2, HashTypes DEF H!TypeOK
  <2> QED BY <1>2, <2>2, <2>3, HashSpoilt
<1>4. CASE ~ \E b \in DOMAIN table : table[b] = <<>>
  <2>1. table' = [b \in DOMAIN table |-> table[b]]
    BY <1>2, <1>4
  <2>2. table \in [1..Len(table) -> NodeChains]
    BY <1>1 DEF HashTable, Sorted
  <2>3. table' = table
    BY <2>1, <2>2
  <2>4. HashTable(table', want', m_size')
    BY <1>1, <1>2, <2>3
  <2> QED BY <1>2, <1>4, <2>4, HashKeeps
<1> QED BY <1>3, <1>4

\* Every step keeps the invariant.
LEMMA HashStep ==
  ASSUME HashInv, H!Next  PROVE HashInv'
<1>1. spoilt = {} /\ alive
  BY DEF H!Next
<1>2. ASSUME NEW k \in Keys, NEW v \in Values, H!put(k, v) PROVE HashInv'
  BY <1>1, <1>2, HashPut
<1>3. ASSUME NEW b \in DOMAIN table, NEW i \in DOMAIN table[b], H!erase(b, i) PROVE HashInv'
  BY <1>1, <1>3, HashErase
<1>4. CASE (\E k \in Keys : H!get(k)) \/ H!iterate
  BY <1>1, <1>4, HashLooks
<1>5. CASE H!clear \/ H!movedFrom
  BY <1>1, <1>5, HashClear
<1>6. CASE H!copy
  BY <1>1, <1>6, HashCopy
<1> QED BY <1>2, <1>3, <1>4, <1>5, <1>6 DEF H!Next

\* What else changes does not concern the map.
LEMMA HashStutter ==
  ASSUME HashInv, UNCHANGED <<table, m_size, want, spoilt, alive>>
  PROVE  HashInv'
<1>1. H!TypeOK' /\ (alive' \/ table' = <<>> \/ \E k \in Keys : H!Endless(k)')
  BY DEF HashInv, H!TypeOK, H!Endless, H!Chain, H!Found, H!Index
<1>2. CASE spoilt = {}
  <2>1. HashTable(table', want', m_size')
    BY <1>2, HashHolds
  <2>2. alive' \in BOOLEAN
    BY DEF HashInv, H!TypeOK
  <2> QED BY <1>1, <1>2, <2>1, <2>2, HashKeeps
<1>3. CASE spoilt # {}
  BY <1>1, <1>3, HashSpoilt
<1> QED BY <1>2, <1>3

\* The type is part of the invariant.
LEMMA HashTyped ==
  ASSUME HashInv  PROVE H!TypeOK
BY DEF HashInv

\* The walk over all nodes gives every key once, and as many nodes as keys.
LEMMA HashWalk ==
  ASSUME NEW s \in Seq(Nodes), OneEach(s), NEW w, Said(s) = Graph(w)
  PROVE  H!Range(s) = Graph(w) /\ Len(s) = Cardinality(DOMAIN w)
<1>1. PICK n \in Nat : n = Len(s) /\ DOMAIN s = 1..n
  BY LenProperties
<1>2. H!Range(s) = Graph(w)
  BY <1>1 DEF H!Range, Said
<1>3. PICK f : f = [i \in 1..n |-> s[i][1]]
  OBVIOUS
<1>4. f \in [1..n -> DOMAIN w]
  <2>1. ASSUME NEW i \in 1..n PROVE s[i][1] \in DOMAIN w
    <3>1. s[i] \in Graph(w)
      BY <1>1 DEF Said
    <3> QED BY <3>1 DEF Graph
  <2> QED BY <1>3, <2>1
<1>5. \A i, j \in 1..n : f[i] = f[j] => i = j
  BY <1>1, <1>3 DEF OneEach
<1>6. ASSUME NEW q \in DOMAIN w PROVE \E i \in 1..n : f[i] = q
  <2>1. <<q, w[q]>> \in Said(s)
    BY DEF Graph
  <2>2. PICK i \in 1..n : s[i] = <<q, w[q]>>
    BY <1>1, <2>1 DEF Said
  <2> QED BY <1>3, <2>2
<1>7. f \in Bijection(1..n, DOMAIN w)
  <2>1. f \in Injection(1..n, DOMAIN w)
    <3>1. DOMAIN f = 1..n
      BY <1>3
    <3> QED BY <1>4, <1>5, <3>1 DEF Injection, IsInjective
  <2>2. f \in Surjection(1..n, DOMAIN w)
    BY <1>4, <1>6 DEF Surjection
  <2> QED BY <2>1, <2>2 DEF Bijection
<1>8. ExistsBijection(1..n, DOMAIN w)
  BY <1>7 DEF ExistsBijection
<1>9. Cardinality(DOMAIN w) = n
  BY <1>8, FS_CountingElements
<1> QED BY <1>1, <1>2, <1>9

\* The walk over the map gives every key with its value, once.
LEMMA HashHeld ==
  ASSUME HashInv  PROVE H!Held
<1>1. SUFFICES ASSUME spoilt = {}
               PROVE  /\ Graph(want) = H!Range(H!Iterated)
                      /\ Len(H!Iterated) = H!Cardinality(DOMAIN want)
                      /\ \A b \in DOMAIN table : \A i \in DOMAIN table[b] :
                             H!Index(table[b][i][1], Len(table)) = b
                      /\ Len(H!Iterated) <= m_size /\ 4 * m_size <= 3 * Len(table)
  BY DEF H!Held, Graph, HashInv
<1>2. HashTable(table, want, m_size)
  BY <1>1, HashHolds
<1>3. PICK s : s = H!FlattenSeq(table)
  OBVIOUS
<1>4. s \in Seq(Nodes) /\ OneEach(s) /\ Said(s) = Graph(want)
  BY <1>2, <1>3, Flattened DEF HashTable, Mapped
<1>5. H!Range(s) = Graph(want) /\ Len(s) = Cardinality(DOMAIN want)
  BY <1>4, HashWalk
<1>6. \A b \in DOMAIN table : \A i \in DOMAIN table[b] : H!Index(table[b][i][1], Len(table)) = b
  <2>1. table \in Seq(NodeChains)
    BY <1>2 DEF HashTable, Sorted
  <2>2. DOMAIN table = 1..Len(table) /\ \A b \in 1..Len(table) : DOMAIN table[b] = 1..Len(table[b])
    BY <2>1, ChainNodes
  <2> QED BY <1>2, <2>2 DEF HashTable, Sorted
<1>7. s = H!Iterated
  BY <1>3 DEF H!Iterated
<1> QED BY <1>2, <1>5, <1>6, <1>7, CountedKeys DEF HashTable

=============================================================================
