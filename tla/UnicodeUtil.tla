---------------------------- MODULE UnicodeUtil ----------------------------
(***************************************************************************)
(* Validation and conversion of UTF-8, UTF-16 and UTF-32 (src/src/ge/text/ *)
(* UnicodeUtil.cpp and UnicodeUtil_sse2.cpp).  Bytes and code units are    *)
(* numbers; x & 0x3F is x % 64, x >> 6 is x \div 64.                       *)
(*                                                                         *)
(* The SSE2 versions convert blocks of units while they look like ASCII,   *)
(* between two aligned addresses, and leave the rest to the plain loop.    *)
(***************************************************************************)
EXTENDS Integers, Sequences, SequencesExt

CONSTANTS
    Block,   \* code units of a 16 byte block
    Align    \* code units of the alignment, (1 + 0x1F) bytes: two blocks

Units(text, i, n) == SubSeq(text, i, i + n - 1)
After(text, i) == SubSeq(text, i, Len(text))

\* utf8lenArray
utf8CodePointLength(byte) ==
    IF byte < 128 THEN 1
    ELSE IF byte \in 194..223 THEN 2
    ELSE IF byte \in 224..239 THEN 3
    ELSE IF byte \in 240..245 THEN 4
    ELSE -1

\* The masks and shifts that join the bytes of one code point.
CodePoint(bytes) ==
    LET bits(i) == bytes[i] % 64
    IN CASE Len(bytes) = 1 -> bytes[1]
         [] Len(bytes) = 2 -> (bytes[1] % 32) * 64 + bits(2)
         [] Len(bytes) = 3 -> (bytes[1] % 16) * 4096 + bits(2) * 64 + bits(3)
         [] Len(bytes) = 4 -> (bytes[1] % 8) * 262144 + bits(2) * 4096 + bits(3) * 64 + bits(4)

utf8FromCodePoint(cp) ==
    LET tail(shifted) == 128 + (shifted % 64)
    IN IF cp < 128 THEN <<cp>>
       ELSE IF cp < 2048 THEN <<192 + (cp \div 64), tail(cp)>>
       ELSE IF cp < 65536 THEN <<224 + (cp \div 4096), tail(cp \div 64), tail(cp)>>
       ELSE <<240 + (cp \div 262144), tail(cp \div 4096), tail(cp \div 64), tail(cp)>>

isValidCodePoint(cp) == cp \notin 55296..57343 /\ cp <= 1114111
isHighSurrogate(unit) == unit \in 55296..56319
codePointFromSurrogates(high, low) == high * 1024 + low - 56613888
codePointToSurrogates(cp) == <<55232 + (cp \div 1024), 56320 + (cp % 1024)>>

\* How many bytes validateUtf8() accepts at i, 0 if it stops there.  It wants
\* a byte to follow every longer code point, and takes four bytes for
\* anything that does not fit in two.
Continues(bytes, i, n) == \A j \in 1..(n - 1) : bytes[i + j] \div 64 = 2
Accepted(bytes, i) ==
    LET lead == bytes[i]
        n == IF lead < 128 THEN 1
             ELSE IF lead \div 32 = 6 THEN 2
             ELSE IF lead \div 16 = 14 THEN 3
             ELSE IF lead \div 8 = 30 THEN 4
             ELSE 0
        inside == i + n < Len(bytes) + 1
        cp == CodePoint(Units(bytes, i, n))
    IN IF n <= 1 THEN n
       ELSE IF ~ inside \/ ~ Continues(bytes, i, n) THEN 0
       ELSE IF n = 2 THEN (IF lead \div 2 # 96 THEN 2 ELSE 0)
       ELSE IF cp >= 2048 /\ isValidCodePoint(cp) THEN n
       ELSE 0

\* Past a byte order mark, over the ASCII beginning, code point by code point.
ByteOrderMark == <<239, 187, 191>>
scanAscii(bytes, i) ==
    IF \A j \in i..Len(bytes) : bytes[j] < 128 THEN Len(bytes) + 1
    ELSE CHOOSE j \in i..Len(bytes) :
             bytes[j] >= 128 /\ \A k \in i..(j - 1) : bytes[k] < 128
validateUtf8(bytes) ==
    LET start == IF IsPrefix(ByteOrderMark, bytes) THEN 4 ELSE 1
        good[i \in 1..(Len(bytes) + 1)] ==
            IF i > Len(bytes) THEN TRUE
            ELSE Accepted(bytes, i) > 0 /\ good[i + Accepted(bytes, i)]
    IN good[scanAscii(bytes, start)]

\* The unchecked conversions of the plain loops.
utf8ToUtf32(bytes) ==
    LET from[i \in 1..(Len(bytes) + 1)] ==
            IF i > Len(bytes) THEN <<>>
            ELSE LET n == utf8CodePointLength(bytes[i])
                 IN <<CodePoint(Units(bytes, i, n))>> \o from[i + n]
    IN from[1]

utf8ToUtf16(bytes) ==
    LET unitsOf(cp, n) == IF n = 4 THEN codePointToSurrogates(cp) ELSE <<cp>>
        from[i \in 1..(Len(bytes) + 1)] ==
            IF i > Len(bytes) THEN <<>>
            ELSE LET n == utf8CodePointLength(bytes[i])
                 IN unitsOf(CodePoint(Units(bytes, i, n)), n) \o from[i + n]
    IN from[1]

utf16ToUtf8(units) ==
    LET from[i \in 1..(Len(units) + 1)] ==
            IF i > Len(units) THEN <<>>
            ELSE IF isHighSurrogate(units[i])
            THEN utf8FromCodePoint(codePointFromSurrogates(units[i], units[i + 1]))
                 \o from[i + 2]
            ELSE utf8FromCodePoint(units[i]) \o from[i + 1]
    IN from[1]

utf32ToUtf8(units) == FlattenSeq([i \in DOMAIN units |-> utf8FromCodePoint(units[i])])

\* The aligned blocks: from the first aligned unit after an ASCII beginning,
\* to the alignment before the end, while a whole block passes the test, looks[i].
\* "base" is the address of the first unit.
FastEnd(n, base) == ((base + n) \div Align) * Align - base
BlocksEnd(units, base, looks) ==
    LET begin == {i \in 1..(Len(units) + 1) :
                     (\A j \in 1..(i - 1) : units[j] < 128)
                     /\ (i = Len(units) + 1 \/ units[i] >= 128 \/ (base + i - 1) % Align = 0)}
        first == CHOOSE i \in begin : \A j \in begin : i <= j
        limit == FastEnd(Len(units), base)
        go[i \in 1..(Len(units) + Block)] ==
            IF i <= limit /\ \A j \in i..(i + Block - 1) : looks[j]
            THEN go[i + Block] ELSE i
    IN IF first <= Len(units) /\ units[first] < 128
       THEN [first |-> first, end |-> go[first]]
       ELSE [first |-> first, end |-> first]

\* PMOVMSKB sees the top bit of every byte.  That is ASCII for bytes; a wider
\* unit passes if each of its bytes is below 128, and is saturated.
AsciiBytes(units) == [i \in DOMAIN units |-> units[i] < 128]
AsciiWides(units) ==
    [i \in DOMAIN units |-> /\ units[i] % 256 < 128
                            /\ (units[i] \div 256) % 256 < 128
                            /\ units[i] \div 65536 < 128]
Saturated(units, most) == [i \in DOMAIN units |-> IF units[i] > most THEN most ELSE units[i]]

\* The two scans load a block where the ASCII beginning ends, also when that
\* is no multiple of a block: such a load faults.
Fault == -1
LoadFaults(bytes, base) ==
    LET first == BlocksEnd(bytes, base, AsciiBytes(bytes)).first
    IN first <= FastEnd(Len(bytes), base) /\ (base + first - 1) % Block # 0
scanAscii_sse2(bytes, base) ==
    IF LoadFaults(bytes, base) THEN Fault
    ELSE scanAscii(bytes, BlocksEnd(bytes, base, AsciiBytes(bytes)).end)
\* The AVX version: blocks of 32 bytes between addresses aligned to 64.
scanAscii_avx(bytes, base) ==
    IF LoadFaults(bytes, base) THEN Fault
    ELSE scanAscii(bytes, BlocksEnd(bytes, base, AsciiBytes(bytes)).end)
utf8ToUtf32_sse2(bytes, base) ==
    LET end == BlocksEnd(bytes, base, AsciiBytes(bytes)).end
    IN SubSeq(bytes, 1, end - 1) \o utf8ToUtf32(After(bytes, end))
utf8ToUtf16_sse2(bytes, base) ==
    LET end == BlocksEnd(bytes, base, AsciiBytes(bytes)).end
    IN SubSeq(bytes, 1, end - 1) \o utf8ToUtf16(After(bytes, end))
Narrowed(units, base, most) ==
    LET blocks == BlocksEnd(units, base, AsciiWides(units))
    IN [i \in 1..(blocks.end - 1) |->
           IF i < blocks.first THEN units[i] ELSE Saturated(units, most)[i]]
utf16ToUtf8_sse2(units, base) ==
    Narrowed(units, base, 255)
    \o utf16ToUtf8(After(units, BlocksEnd(units, base, AsciiWides(units)).end))
utf32ToUtf8_sse2(units, base) ==
    Narrowed(units, base, 127)
    \o utf32ToUtf8(After(units, BlocksEnd(units, base, AsciiWides(units)).end))

-----------------------------------------------------------------------------

\* A code point in bytes, in any length that can hold it.
Forms(bytes) == {n \in 1..4 : n <= Len(bytes) /\ Continues(bytes, 1, n)
                              /\ \/ n = 1 /\ bytes[1] < 128
                                 \/ n = 2 /\ bytes[1] \in 192..223
                                 \/ n = 3 /\ bytes[1] \in 224..239
                                 \/ n = 4 /\ bytes[1] \in 240..247}
Shortest(cp) == IF cp < 128 THEN 1 ELSE IF cp < 2048 THEN 2 ELSE IF cp < 65536 THEN 3 ELSE 4
\* "lax" lets three byte code points be written with four.
WellFormed(bytes, lax) ==
    LET from[i \in 1..(Len(bytes) + 1)] ==
            i > Len(bytes)
            \/ \E n \in Forms(After(bytes, i)) :
                  LET cp == CodePoint(Units(bytes, i, n))
                  IN /\ isValidCodePoint(cp)
                     /\ Shortest(cp) = n \/ (lax /\ n = 4 /\ Shortest(cp) = 3)
                     /\ from[i + n]
    IN from[1]
Text(bytes) == IF IsPrefix(ByteOrderMark, bytes) THEN After(bytes, 4) ELSE bytes

(* Exactly valid UTF-8 is accepted, as UnicodeUtil.h promises.  Exempt are *)
(* two kinds of text on which the code decides otherwise: valid ones that  *)
(* end in a longer code point, and ones whose only fault is a three byte   *)
(* code point written with four.  Accepted UTF-8 survives every round trip.*)
EndsLong(bytes) == bytes # <<>> /\ Last(bytes) >= 128
Overlong(bytes) == WellFormed(bytes, TRUE) /\ ~ WellFormed(bytes, FALSE)
Validated(bytes) ==
    /\ \/ validateUtf8(bytes) <=> WellFormed(Text(bytes), FALSE)
       \/ EndsLong(Text(bytes)) /\ WellFormed(Text(bytes), FALSE)
       \/ Overlong(Text(bytes))
    /\ validateUtf8(bytes) /\ WellFormed(bytes, FALSE) =>
           /\ utf32ToUtf8(utf8ToUtf32(bytes)) = bytes
           /\ utf16ToUtf8(utf8ToUtf16(bytes)) = bytes

(* Wherever the bytes lie, the vectorised versions read as the plain ones, *)
(* but a scan faults on some other byte than ASCII between two blocks; they*)
(* write as the plain ones unless a block has a unit that is no ASCII      *)
(* although every byte of it is.                                           *)
Vectorised(bytes) ==
    \A base \in 0..(Align - 1) :
        /\ scanAscii_avx(bytes, base) = scanAscii_sse2(bytes, base)
        /\ \/ scanAscii_sse2(bytes, base) = scanAscii(bytes, 1)
           \/ \E i \in DOMAIN bytes :
                  bytes[i] >= 128 /\ (base + i - 1) % Block # 0
                  /\ scanAscii_sse2(bytes, base) = Fault
        /\ validateUtf8(bytes) =>
               LET units == utf8ToUtf32(bytes)
                   pairs == utf8ToUtf16(bytes)
               IN /\ utf8ToUtf32_sse2(bytes, base) = units
                  /\ utf8ToUtf16_sse2(bytes, base) = pairs
                  /\ \/ utf32ToUtf8_sse2(units, base) = utf32ToUtf8(units)
                     \/ \E i \in DOMAIN units : units[i] >= 128 /\ AsciiWides(units)[i]
                  /\ \/ utf16ToUtf8_sse2(pairs, base) = utf16ToUtf8(pairs)
                     \/ \E i \in DOMAIN pairs : pairs[i] >= 128 /\ AsciiWides(pairs)[i]

=============================================================================
