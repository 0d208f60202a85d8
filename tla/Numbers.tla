------------------------------ MODULE Numbers ------------------------------
(***************************************************************************)
(* Parsing and formatting of integers and their bits (src/src/ge/util).    *)
(* One width stands for 32 bits and for 64; a character is its value as a  *)
(* digit, or Minus, Zero byte or NoDigit.  The reciprocal multiplications  *)
(* and the tables of digits are taken for the digits they compute.         *)
(***************************************************************************)
EXTENDS Integers, Sequences, FiniteSets, SequencesExt

CONSTANTS
    Bits,      \* the width of an integer (32, 64)
    ByteMax,   \* the greatest value of the narrow types (UINT8_MAX)
    Wide       \* the greatest value of a 64 bit integer

NoDigit == -1
Minus == -2
NulChar == -3
UMax == 2^Bits - 1
SMax == 2^(Bits - 1) - 1
SMin == -(2^(Bits - 1))
Radices == {2, 10, 16}

\* The digits of v, as written by the loops from the last one back.
Digits(v, radix) ==
    LET f[n \in 0..v] ==
            IF n < radix THEN <<n>> ELSE Append(f[n \div radix], n % radix)
    IN f[v]

-----------------------------------------------------------------------------
\* Formatting: what is in the buffer, the length returned, and what was
\* done outside the buffer or the table.

Formatted(text, length, harm) == [text |-> text, length |-> length, harm |-> harm]

\* The size table of 32 bits ends at the greatest signed value; the sizes of
\* 64 bits at one digit less than the longest number.
uint32_base10Size(v) == IF v <= SMax THEN Len(Digits(v, 10)) ELSE -1
uint64_base10Size(v) ==
    LET longest == Len(Digits(UMax, 10))
    IN IF Len(Digits(v, 10)) < longest THEN Len(Digits(v, 10)) ELSE longest - 1

ToBuffer_base10(size, bufferLen, v) ==
    IF size = -1 THEN Formatted(<<>>, 0, "table")
    ELSE IF size > bufferLen THEN Formatted(<<>>, size, "none")
    ELSE Formatted(Digits(v, 10), size, IF Len(Digits(v, 10)) > size THEN "underflow" ELSE "none")

\* Another radix than ten: the loop runs while value <= radix, that is never
\* or, down the stack, for ever.
ToBuffer_radix(bufferLen, v, radix) ==
    IF v <= radix THEN Formatted(<<>>, 0, "underflow")
    ELSE Formatted(IF bufferLen >= 1 THEN <<v>> ELSE <<>>, 1, "none")

uint32ToBuffer(bufferLen, v, radix) ==
    IF radix = 10 THEN ToBuffer_base10(uint32_base10Size(v), bufferLen, v)
    ELSE ToBuffer_radix(bufferLen, v, radix)
uint64ToBuffer(bufferLen, v, radix) ==
    IF radix = 10 THEN ToBuffer_base10(uint64_base10Size(v), bufferLen, v)
    ELSE ToBuffer_radix(bufferLen, v, radix)

\* The least value is a literal with its terminator counted; zero has a sign;
\* the digits may go as far as the buffer is long, behind the sign.
SignedToBuffer(bufferLen, v, radix, magnitude) ==
    IF v = SMin
    THEN LET text == <<Minus>> \o Digits(-v, radix) \o <<NulChar>>
         IN Formatted(IF bufferLen >= Len(text) THEN text ELSE <<>>, Len(text), "none")
    ELSE IF v < 1
    THEN Formatted((IF bufferLen > 0 THEN <<Minus>> ELSE <<>>) \o magnitude.text,
                   1 + magnitude.length,
                   IF /\ magnitude.harm = "none"
                      /\ magnitude.text # <<>> /\ magnitude.length >= bufferLen
                   THEN "overflow" ELSE magnitude.harm)
    ELSE magnitude
Magnitude(v) == IF v < 1 THEN -v ELSE v
int32ToBuffer(bufferLen, v, radix) ==
    SignedToBuffer(bufferLen, v, radix, uint32ToBuffer(bufferLen, Magnitude(v), radix))
int64ToBuffer(bufferLen, v, radix) ==
    SignedToBuffer(bufferLen, v, radix, uint64ToBuffer(bufferLen, Magnitude(v), radix))

-----------------------------------------------------------------------------
\* Parsing: the value, or Bad.

Bad == -1000000
IsDigit(c, radix) == c >= 0 /\ c < radix

Accumulated(result, digit, radix, max, guard) ==
    IF result = Bad THEN Bad
    ELSE IF ~ IsDigit(digit, radix) THEN Bad
    ELSE IF result > guard \div radix THEN Bad
    ELSE IF result * radix > max - digit THEN Bad
    ELSE result * radix + digit

Parsed(text, radix, max, guard) ==
    IF text = <<>> THEN Bad
    ELSE IF ~ IsDigit(Head(text), radix) THEN Bad
    ELSE FoldLeft(LAMBDA r, d : Accumulated(r, d, radix, max, guard), Head(text), Tail(text))

parseUInt32(text, radix) == Parsed(text, radix, UMax, UMax)
\* The 64 bit version checks against UINT32_MAX.
parseUInt64(text, radix) == Parsed(text, radix, UMax, Wide)

\* The narrow types cut down what the wide ones parse.
Within(v, least, most) == IF v # Bad /\ (v < least \/ v > most) THEN Bad ELSE v
parseUInt8(text, radix) == Within(parseUInt32(text, radix), 0, ByteMax)

\* Signed values accumulate below zero, down to their limit.
ParsedSigned(text, radix, most) ==
    IF text # <<>> /\ Head(text) = Minus
    THEN LET v == IF Len(text) = 1 THEN Bad ELSE Parsed(Tail(text), radix, most + 1, most + 1)
         IN IF v = Bad THEN Bad ELSE -v
    ELSE Parsed(text, radix, most, most)
parseInt32(text, radix) == ParsedSigned(text, radix, SMax)
parseInt64(text, radix) == ParsedSigned(text, radix, Wide \div 2)
parseInt8(text, radix) == Within(parseInt32(text, radix), -(ByteMax \div 2) - 1, ByteMax \div 2)

-----------------------------------------------------------------------------
\* Bits: an integer is the set of its ones.

Ones(v) == {i \in 0..(Bits - 1) : (v \div 2^i) % 2 = 1}
Value(S) == FoldSet(LAMBDA i, sum : sum + 2^i, 0, S)
ShiftRight(S, n) == {i - n : i \in {j \in S : j >= n}}
ShiftLeft(S, n) == {i + n : i \in S} \cap (0..(Bits - 1))

CountOnes(v) == Cardinality(Ones(v))
CountZeros(v) == Bits - CountOnes(v)
IsPow2(v) == v # 0 /\ Ones(v) \cap Ones(v - 1) = {}

\* Each shift doubles the reach of the highest one.
NextPow2(v) ==
    LET smear(S, n) == S \cup ShiftRight(S, n)
        doubled == {n \in 1..(Bits - 1) : IsPow2(n)}
        steps == SetToSortSeq(doubled, LAMBDA a, b : a < b)
    IN IF v = 0 THEN 1
       ELSE (Value(FoldLeft(smear, Ones(v - 1), steps)) + 1) % 2^Bits

RotateLeft(v, n) == Value(ShiftLeft(Ones(v), n) \cup ShiftRight(Ones(v), Bits - n))
RotateRight(v, n) == Value(ShiftRight(Ones(v), n) \cup ShiftLeft(Ones(v), Bits - n))

-----------------------------------------------------------------------------

\* The number a text means, for every length.
Meaning(digits, radix) == FoldLeft(LAMBDA r, d : r * radix + d, 0, digits)
WellWritten(digits, radix) == digits # <<>> /\ \A i \in DOMAIN digits : IsDigit(digits[i], radix)
ReadAs(digits, radix, max) ==
    IF WellWritten(digits, radix) /\ Meaning(digits, radix) <= max
    THEN Meaning(digits, radix) ELSE Bad
ReadSigned(text, radix, most) ==
    IF text # <<>> /\ Head(text) = Minus
    THEN LET v == ReadAs(Tail(text), radix, most + 1) IN IF v = Bad THEN Bad ELSE -v
    ELSE ReadAs(text, radix, most)

(* A text is parsed as the number it means or refused, at the limits of    *)
(* every type.  Exempt are the values above UINT32_MAX, which parseUInt64()*)
(* refuses: UInt64.h says no such thing.                                   *)
ParsedRight(text) ==
    \A radix \in Radices :
        /\ parseUInt32(text, radix) = ReadAs(text, radix, UMax)
        /\ \/ ReadAs(text, radix, Wide) > UMax
           \/ parseUInt64(text, radix) = ReadAs(text, radix, Wide)
        /\ parseUInt8(text, radix) = ReadAs(text, radix, ByteMax)
        /\ parseInt32(text, radix) = ReadSigned(text, radix, SMax)
        /\ parseInt64(text, radix) = ReadSigned(text, radix, Wide \div 2)
        /\ parseInt8(text, radix) = ReadSigned(text, radix, ByteMax \div 2)

\* What a buffer of n characters is to get, and the length to be returned.
Written(v, n) ==
    LET digits == Digits(v, 10)
    IN Formatted(IF n >= Len(digits) THEN digits ELSE <<>>, Len(digits), "none")

(* In radix ten a value is written as it is read, into a buffer it fits,   *)
(* and otherwise its length is told.  Exempt are the values the two tables *)
(* of sizes leave out (Tabled, Short), the least value and zero with a     *)
(* sign, and a negative value in a buffer as long as its digits; nothing   *)
(* is claimed of the other radices.                                        *)
Tabled(v) == v <= SMax
Short(v) == Len(Digits(v, 10)) < Len(Digits(UMax, 10))
WrittenRight ==
    LET room == Len(Digits(-SMin, 10)) + 1
    IN /\ \A v \in 0..UMax, n \in 0..room :
              /\ Tabled(v) => uint32ToBuffer(n, v, 10) = Written(v, n)
              /\ Short(v) => uint64ToBuffer(n, v, 10) = Written(v, n)
       /\ \A v \in (SMin + 1)..SMax \ {0} :
              LET out == int32ToBuffer(room, v, 10)
                  long == int64ToBuffer(room, v, 10)
              IN /\ out.length = Len(out.text) /\ parseInt32(out.text, 10) = v
                 /\ Short(Magnitude(v)) => long = out
       /\ \A v \in (SMin + 1)..-1, n \in 0..room :
              Len(Digits(-v, 10)) # n => int32ToBuffer(n, v, 10).harm = "none"

(* The bits are counted, rotated and rounded up to a power of two as long  *)
(* as there is one: above the greatest one nothing is claimed.             *)
BitsRight ==
    \A v \in 0..UMax :
        /\ CountOnes(v) + CountZeros(v) = Bits
        /\ IsPow2(v) <=> \E i \in 0..(Bits - 1) : v = 2^i
        /\ v <= SMax + 1 =>
               /\ IsPow2(NextPow2(v)) /\ NextPow2(v) >= v
               /\ v > 1 => NextPow2(v) < 2 * v
        /\ \A n \in 1..(Bits - 1) :
               /\ RotateRight(RotateLeft(v, n), n) = v
               /\ RotateLeft(v, n) = RotateRight(v, Bits - n)
               /\ CountOnes(RotateLeft(v, n)) = CountOnes(v)

=============================================================================
