---------------------------- MODULE StringSearch ----------------------------
(***************************************************************************)
(* The comparisons and searches of StringRef (src/src/ge/text/             *)
(* StringRef.cpp), to which String delegates its own.  A text is a         *)
(* sequence of character codes below 128; positions are the code's, from   *)
(* 0, and -1 is no match.  A search that never ends is Hang.               *)
(***************************************************************************)
EXTENDS Integers, Sequences, SequencesExt

CONSTANTS
    Brute   \* searches shorter than this (256) are done by brute force

Hang == -2
At(text, i) == text[i + 1]
Cut(text, from, to) == SubSeq(text, from + 1, to)
Least(a, b) == IF a < b THEN a ELSE b
Sign(n) == IF n < 0 THEN -1 ELSE IF n > 0 THEN 1 ELSE 0

\* The sign of memcmp(a, b, n).
memcmp(a, b, n) ==
    LET differ == {i \in 1..n : a[i] # b[i]}
    IN IF differ = {} THEN 0
       ELSE LET i == CHOOSE i \in differ : \A j \in differ : i <= j
            IN Sign(a[i] - b[i])

\* A text that is the beginning of another one comes after it.
compare(a, b) ==
    LET common == memcmp(a, b, Least(Len(a), Len(b)))
    IN IF common # 0 THEN common ELSE Sign(Len(b) - Len(a))

\* strcmp(): the terminator is below every character.
strcmp(a, b) ==
    LET common == memcmp(a, b, Least(Len(a), Len(b)))
    IN IF common # 0 THEN common ELSE Sign(Len(a) - Len(b))

equals(a, b) == Len(a) = Len(b) /\ memcmp(a, b, Len(a)) = 0

\* <, <=, >, >=, == and != of two StringRefs, and of two Strings.
RefOperators(a, b) ==
    LET c == compare(a, b)
    IN [lt |-> c < 0, le |-> c <= 0, gt |-> c > 0, ge |-> c >= 0,
        eq |-> equals(a, b), ne |-> ~ equals(a, b)]
StringOperators(a, b) ==
    LET c == strcmp(a, b)
    IN [lt |-> c < 0, le |-> c <= 0, gt |-> c > 0, ge |-> c >= 0,
        eq |-> compare(a, b) = 0, ne |-> compare(a, b) # 0]

\* "Ignoring case": c >= 'a' || c <= 'z' holds of every character.
Raised(c) == c - 32
engCompareIgnoreCase(a, b) ==
    LET n == Least(Len(a), Len(b))
        raisedA == [i \in DOMAIN a |-> Raised(a[i])]
        raisedB == [i \in DOMAIN b |-> Raised(b[i])]
        common == memcmp(raisedA, raisedB, n)
    IN IF common # 0 THEN common ELSE Sign(Len(a) - Len(b))
engEqualsIgnoreCase(a, b) == Len(a) = Len(b) /\ engCompareIgnoreCase(a, b) = 0

startsWith(a, b) == Len(b) <= Len(a) /\ memcmp(a, b, Len(b)) = 0
endsWith(a, b) == Len(b) <= Len(a) /\ memcmp(Cut(a, Len(a) - Len(b), Len(a)), b, Len(b)) = 0

\* The brute force compares one character of the text with all of the other.
BruteForce(a, b, start) ==
    LET found == {i \in start..(Len(a) - Len(b)) : \A j \in DOMAIN b : At(a, i) = b[j]}
    IN IF found = {} THEN -1 ELSE CHOOSE i \in found : \A j \in found : i <= j

\* Boyer-Moore-Horspool.  Every round compares the beginning of the text,
\* and a last character that fits is skipped by zero.
Skip(b, c) ==
    LET at == {i \in DOMAIN b : b[i] = c}
    IN IF at = {} THEN Len(b)
       ELSE Len(b) - (CHOOSE i \in at : \A j \in at : j <= i)
Horspool(a, b, start) ==
    LET last == Len(a) - Len(b)
        from[p \in 0..(2 * Len(a) + 1)] ==
            IF p > last THEN -1
            ELSE IF Cut(a, 0, Len(b)) = b THEN p - start
            ELSE LET step == Skip(b, At(a, p + Len(b) - 1))
                 IN IF step = 0 THEN Hang ELSE from[p + step]
    IN from[2 * start]

indexOf(a, b, start) ==
    IF b = <<>> THEN 0
    ELSE IF Len(b) > Len(a) - start THEN -1
    ELSE IF Len(a) - start < Brute THEN BruteForce(a, b, start)
    ELSE Horspool(a, b, start)

\* Backwards: a mismatch moves by the place of the window's first character
\* in the other text, zero for its own first one.
BackSkip(b, c) ==
    LET at == {i \in DOMAIN b : b[i] = c}
    IN IF at = {} THEN Len(b) ELSE (CHOOSE i \in at : \A j \in at : j <= i) - 1
lastIndexOf(a, b, end) ==
    LET back[p \in -Len(b)..Len(a)] ==
            IF p < 0 THEN -1
            ELSE IF Cut(a, p, p + Len(b)) = b THEN p
            ELSE LET step == BackSkip(b, At(a, p))
                 IN IF step = 0 THEN Hang ELSE back[p - step]
    IN IF b = <<>> THEN 0 ELSE back[end - Len(b)]

-----------------------------------------------------------------------------

Occurs(a, b, i) == i >= 0 /\ i + Len(b) <= Len(a) /\ Cut(a, i, i + Len(b)) = b
First(a, b, start) ==
    LET at == {i \in start..Len(a) : Occurs(a, b, i)}
    IN IF at = {} THEN -1 ELSE CHOOSE i \in at : \A j \in at : i <= j
Final(a, b, end) ==
    LET at == {i \in 0..(end - Len(b)) : Occurs(a, b, i)}
    IN IF at = {} THEN -1 ELSE CHOOSE i \in at : \A j \in at : i >= j

(* The order is total and agrees with ==, and the operators of String and  *)
(* of StringRef are the same.  Exempt are texts of which one begins the    *)
(* other, where the two disagree.  What is equal is equal ignoring case,   *)
(* and what is equal ignoring case differs in nothing else.                *)
Lower(c) == IF c \in 65..90 THEN c + 32 ELSE c
Coherent(op, converse) ==
    /\ op.le = (op.lt \/ op.eq) /\ op.ge = (op.gt \/ op.eq) /\ op.ne = ~ op.eq
    /\ op.lt = converse.gt /\ ~ (op.lt /\ op.gt)
Ordered(a, b) ==
    /\ Coherent(RefOperators(a, b), RefOperators(b, a))
    /\ Coherent(StringOperators(a, b), StringOperators(b, a))
    /\ \/ RefOperators(a, b) = StringOperators(a, b)
       \/ IsStrictPrefix(a, b) \/ IsStrictPrefix(b, a)
    /\ compare(a, b) = 0 <=> equals(a, b)
    /\ equals(a, b) <=> a = b
    /\ compare(a, b) = - compare(b, a)
    /\ a = b => engEqualsIgnoreCase(a, b)
    /\ engEqualsIgnoreCase(a, b) =>
           Len(a) = Len(b) /\ \A i \in DOMAIN a : Lower(a[i]) = Lower(b[i])

(* A search by brute force finds the first occurrence of one character.  A *)
(* long one finds what the text begins with, and a match it finds from the *)
(* beginning is one; so is a match found from the end, and of one character*)
(* it is the last.  Of the other searches nothing is claimed: brute force  *)
(* compares one character with all of a longer text, and the long search   *)
(* looks at the beginning again and again, and may hang.                   *)
Searched(a, b) ==
    /\ startsWith(a, b) <=> Occurs(a, b, 0)
    /\ endsWith(a, b) <=> Occurs(a, b, Len(a) - Len(b))
    /\ \A s \in 0..Len(a) :
           Len(b) = 1 /\ Len(a) - s < Brute => indexOf(a, b, s) = First(a, b, s)
    /\ b # <<>> /\ Len(a) >= Brute =>
           LET found == indexOf(a, b, 0)
           IN /\ Occurs(a, b, 0) => found = 0
              /\ found >= 0 => Occurs(a, b, found)
    /\ \A e \in 0..Len(a) :
           LET found == lastIndexOf(a, b, e)
           IN b # <<>> =>
                  /\ found >= 0 => Occurs(a, b, found) /\ found <= Final(a, b, e)
                  /\ Len(b) = 1 => found = Final(a, b, e)

=============================================================================
