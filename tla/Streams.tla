------------------------------ MODULE Streams ------------------------------
(***************************************************************************)
(* A file read through a FileInputStream and a TextReader and written      *)
(* through a FileOutputStream (src/src/unix/ge/io, src/src/win/ge/io,      *)
(* src/src/ge/io/TextReader.cpp). "file" is what the system holds; "want"  *)
(* is the file and the result the callers expect.                          *)
(***************************************************************************)
EXTENDS Integers, Sequences, SequencesExt

CONSTANTS
    Bytes,      \* some of 0..255, with those below
    MaxLength,  \* bound on the file
    MaxCalls    \* bound on the calls of a program

VARIABLES
    unix,     \* which implementation
    file,     \* bytes, or NoFile
    in,       \* the input stream: Closed, or its position
    out,      \* the output stream: Closed, or its position
    append,   \* m_append (O_APPEND on unix)
    got,      \* what the last call returned
    want,
    spoilt,
    calls

vars == <<unix, file, in, out, append, got, want, spoilt, calls>>

NoFile == <<-1>>
Closed == -1
End == -1
Throws == <<-2>>
LF == 10
CR == 13

Trusted == spoilt = {} /\ calls < MaxCalls /\ calls' = calls + 1
Existing == IF file = NoFile THEN <<>> ELSE file
Returns(value, meant) == got' = value /\ want' = [want EXCEPT !.got = meant]

Init ==
    /\ unix \in BOOLEAN
    /\ \E n \in 0..MaxLength : file \in [1..n -> Bytes] \cup {NoFile}
    /\ in = Closed /\ out = Closed /\ append = FALSE
    /\ got = <<>> /\ want = [file |-> file, got |-> <<>>]
    /\ spoilt = {} /\ calls = 0

-----------------------------------------------------------------------------
\* FileInputStream.

\* unix creates the file it is to read.
openIn ==
    LET creates == unix /\ file = NoFile
    IN /\ Trusted
       /\ IF in # Closed \/ (~ unix /\ file = NoFile)
          THEN /\ Returns(Throws, Throws)
               /\ UNCHANGED <<file, in, spoilt>>
          ELSE /\ in' = 0 /\ file' = Existing
               /\ Returns(<<>>, <<>>)
               /\ spoilt' = IF creates THEN {"created"} ELSE {}
       /\ UNCHANGED <<unix, out, append>>

closeIn ==
    /\ Trusted
    /\ in' = Closed /\ Returns(<<>>, <<>>)
    /\ UNCHANGED <<unix, file, out, append, spoilt>>

\* The bytes of one internalRead(): on unix perhaps fewer than asked for; none
\* at the end, which the callers are told as End.
internalRead(at, n) ==
    LET left == SubSeq(Existing, at + 1, IF at + n > Len(Existing) THEN Len(Existing) ELSE at + n)
    IN IF left = <<>> THEN {<<>>}
       ELSE IF unix THEN {SubSeq(left, 1, k) : k \in 1..Len(left)} ELSE {left}

Signed(byte) == IF byte > 127 THEN byte - 256 ELSE byte

\* read() of one byte gives it as a char: the last byte value is End.
readByte ==
    /\ Trusted
    /\ IF in = Closed THEN Returns(Throws, Throws) /\ UNCHANGED <<in, spoilt>>
       ELSE \E bytes \in internalRead(in, 1) :
                /\ in' = in + Len(bytes)
                /\ IF bytes = <<>> THEN Returns(<<End>>, <<End>>)
                   ELSE Returns(<<Signed(bytes[1])>>, <<bytes[1]>>)
                /\ spoilt' = IF bytes # <<>> /\ bytes[1] > 127 THEN {"sign"} ELSE {}
    /\ UNCHANGED <<unix, file, out, append>>

readBlock(n) ==
    /\ Trusted
    /\ IF in = Closed THEN Returns(Throws, Throws) /\ UNCHANGED in
       ELSE \E bytes \in internalRead(in, n) :
                /\ in' = in + Len(bytes)
                /\ Returns(bytes, SubSeq(want.file, in + 1, in + Len(bytes)))
    /\ UNCHANGED <<unix, file, out, append, spoilt>>

\* TextReader::readLine(): a carriage return is looked behind at once; at the
\* end of the stream the buffer still holds it.
LineFrom(bytes) ==
    LET f[i \in 1..(Len(bytes) + 2)] ==
            IF i > Len(bytes) THEN [text |-> <<>>, next |-> Len(bytes) + 1]
            ELSE IF bytes[i] = LF THEN [text |-> <<>>, next |-> i + 1]
            ELSE IF bytes[i] # CR THEN [f[i + 1] EXCEPT !.text = <<bytes[i]>> \o @]
            ELSE LET behind == IF i = Len(bytes) THEN CR ELSE bytes[i + 1]
                 IN IF behind = LF THEN [text |-> <<>>, next |-> i + 2]
                    ELSE [f[i + 2] EXCEPT !.text = <<CR, behind>> \o @]
    IN f[1]

Ahead == SubSeq(Existing, in + 1, Len(Existing))

\* The text up to the first line feed, without a carriage return before it.
LineMeant(bytes) ==
    LET end == SelectInSeq(bytes, LAMBDA c : c = LF)
        text == IF end = 0 THEN bytes ELSE SubSeq(bytes, 1, end - 1)
    IN IF end # 0 /\ text # <<>> /\ Last(text) = CR THEN Front(text) ELSE text

\* A pair of carriage returns is kept as it is, also before a line feed.
Paired(bytes) ==
    \E i \in 1..(Len(bytes) - 1) : bytes[i] = CR /\ bytes[i + 1] = CR

readLine ==
    /\ Trusted /\ in # Closed
    /\ LET line == LineFrom(Ahead)
       IN /\ in' = in + line.next - 1
          /\ Returns(line.text, LineMeant(Ahead))
          /\ spoilt' = (IF Ahead # <<>> /\ line.next > Len(Ahead) /\ Last(Ahead) = CR THEN {"doubled"} ELSE {})
                       \cup (IF Paired(Ahead) THEN {"paired"} ELSE {})
    /\ UNCHANGED <<unix, file, out, append>>

\* Block after block until the end, however short they are.
readAll ==
    /\ Trusted /\ in # Closed
    /\ in' = in + Len(Ahead)
    /\ Returns(Ahead, SubSeq(want.file, in + 1, Len(want.file)))
    /\ UNCHANGED <<unix, file, out, append, spoilt>>

-----------------------------------------------------------------------------
\* FileOutputStream.

\* Windows does not empty the file it opens, and fills in the event and the
\* offset of an append in a local variable instead of m_overlapped.
openOut(appending) ==
    LET keeps == appending \/ ~ unix
    IN /\ Trusted
       /\ IF out # Closed
          THEN /\ Returns(Throws, Throws)
               /\ UNCHANGED <<file, out, append, spoilt>>
          ELSE /\ out' = 0 /\ append' = appending
               /\ file' = IF keeps THEN Existing ELSE <<>>
               /\ got' = <<>>
               /\ want' = [file |-> IF appending THEN Existing ELSE <<>>, got |-> <<>>]
               /\ spoilt' = (IF ~ appending /\ ~ unix /\ Existing # <<>> THEN {"kept"} ELSE {})
                            \cup (IF appending /\ ~ unix THEN {"overlapped"} ELSE {})
       /\ UNCHANGED <<unix, in>>

closeOut ==
    /\ Trusted
    /\ out' = Closed /\ Returns(<<>>, <<>>)
    /\ UNCHANGED <<unix, file, in, append, spoilt>>

Overwritten(bytes, at, data) ==
    SubSeq(bytes, 1, at) \o data \o SubSeq(bytes, at + Len(data) + 1, Len(bytes))

\* The length the system took is given back, and the rest is the caller's.
write(data) ==
    LET at == IF append THEN Len(Existing) ELSE out
    IN /\ Trusted /\ at + Len(data) <= MaxLength
       /\ IF out = Closed
          THEN /\ Returns(Throws, Throws)
               /\ UNCHANGED <<file, out>>
          ELSE \E n \in IF unix THEN 1..Len(data) ELSE {Len(data)} :
                   LET taken == SubSeq(data, 1, n)
                   IN /\ file' = Overwritten(Existing, at, taken)
                      /\ out' = at + n
                      /\ got' = <<n>>
                      /\ want' = [file |-> Overwritten(want.file, at, taken), got |-> <<n>>]
       /\ UNCHANGED <<unix, in, append, spoilt>>

\* Moving a stream (Windows) leaves the old one closed; what the new one held
\* open is never closed.
moveIn(overOpen) ==
    /\ Trusted /\ ~ unix /\ in # Closed
    /\ spoilt' = IF overOpen THEN {"leak"} ELSE {}
    /\ Returns(<<>>, <<>>)
    /\ UNCHANGED <<unix, file, in, out, append>>

Next ==
    \/ openIn \/ closeIn \/ readByte \/ readLine \/ readAll
    \/ readBlock(2)
    \/ \E appending \in BOOLEAN : openOut(appending)
    \/ closeOut
    \/ \E b \in Bytes : write(<<b>>) \/ write(<<b, LF>>)
    \/ \E overOpen \in BOOLEAN : moveIn(overOpen)

-----------------------------------------------------------------------------

TypeOK ==
    /\ unix \in BOOLEAN /\ append \in BOOLEAN
    /\ in \in -1..MaxLength /\ out \in -1..MaxLength
    /\ file = NoFile \/ Range(file) \subseteq Bytes \cup {0}
    /\ in # Closed \/ out # Closed => file # NoFile

(* What a reader sees is what is in the file, line by line, block by block *)
(* or at once, and what a writer was told is written is there, behind what *)
(* the file was to keep -- until one of the known ways to differ: the byte *)
(* 255 read as the end, a carriage return at the end of a text, a file     *)
(* that is not emptied, an append through a structure nobody filled in.    *)
Held == spoilt = {} => want = [file |-> file, got |-> got]
=============================================================================
