------------------------------- MODULE RAFile -------------------------------
(***************************************************************************)
(* RAFile, a random access file (src/src/unix/ge/io/RAFile.cpp and         *)
(* src/src/win/ge/io/RAFile.cpp): typed reads and writes at the position   *)
(* of one handle.  The system's file is a sequence of bytes; a value of w  *)
(* bytes is the sequence of its bytes, the most significant first.         *)
(* Beside what the code does stands what its callers asked for ("want");   *)
(* a program goes on until the two part in a way the code is known for,    *)
(* which is noted in "spoilt".                                             *)
(***************************************************************************)
EXTENDS Integers, Sequences, SequencesExt

CONSTANTS
    Junk,       \* a byte nobody wrote
    MaxLength,  \* bound on the length of the file
    MaxCalls,   \* bound on the calls of a program
    Modes       \* of open(): names of OpenMode_Enum

VARIABLES
    unix,       \* which of the two implementations this is
    file,       \* the bytes on the disk, or NoFile
    handle,     \* m_handle: Closed, or what the system lets it do
    asked,      \* the permissions the caller gave open()
    pos,        \* the system's position of the handle
    got,        \* what the last call returned
    want,       \* the file, the position and the result the callers expect
    spoilt,
    calls

vars == <<unix, file, handle, asked, pos, got, want, spoilt, calls>>

NoFile == <<-1>>
Closed == {"closed"}
None == <<>>
Widths == {1, 2, 4, 8}
Filled(bytes, n) == [i \in 1..n |-> IF i <= Len(bytes) THEN bytes[i] ELSE 0]

\* The bytes of a file after "data" was put at position p.
Put(bytes, p, data) ==
    LET n == IF p + Len(data) > Len(bytes) THEN p + Len(data) ELSE Len(bytes)
    IN [i \in 1..n |-> IF i > p /\ i <= p + Len(data) THEN data[i - p] ELSE Filled(bytes, n)[i]]
From(bytes, p, n) == SubSeq(bytes, p + 1, IF p + n > Len(bytes) THEN Len(bytes) ELSE p + n)

\* A value whose bytes are all different.
ValueOf(w) == [i \in 1..w |-> i]

-----------------------------------------------------------------------------
\* The writers: what they hand to write().

Truncated(v, w) == SubSeq(v, Len(v) - w + 1, Len(v))
writeBE(v) == v
\* The four bytes of a 32 bit value go one place too far: the first is not
\* written and the last is outside the buffer.
writeLE(v) == IF Len(v) = 4 THEN <<Junk>> \o SubSeq(Reverse(v), 1, 3) ELSE Reverse(v)
Writes(order, v) == IF order = "BE" THEN writeBE(v) ELSE writeLE(v)

\* A double goes through the writer of 32 bits on unix.
writeDouble(order, v) == Writes(order, IF unix THEN Truncated(v, 4) ELSE v)

-----------------------------------------------------------------------------

Init ==
    /\ unix \in BOOLEAN
    /\ \E n \in {0, 3, MaxLength} : file \in {NoFile, [i \in 1..n |-> 9]}
    /\ handle = Closed /\ asked = {} /\ pos = 0 /\ got = None
    /\ want = [file |-> file, pos |-> 0, got |-> None]
    /\ spoilt = {} /\ calls = 0

Trusted == spoilt = {} /\ calls < MaxCalls /\ calls' = calls + 1
IsOpen == handle # Closed

\* What the system grants: unix has the two single permissions swapped.
Granted(permissions) ==
    IF unix
    THEN IF permissions = {"read", "write"} THEN permissions
         ELSE IF "read" \in permissions THEN {"write"} ELSE {"read"}
    ELSE permissions

MustNotExist(mode) == mode = "CREATE_ONLY"
MustExist(mode) == mode \in {"OPEN_ONLY", "TRUNCATE_ONLY"}
Empties(mode) == mode \in {"CREATE_OR_TRUNCATE", "TRUNCATE_ONLY"}

\* Windows replaces the file of CREATE_ONLY, and empties one only for a handle
\* that may write; unix empties it through any.
OpenFails(mode, rights) ==
    \/ unix /\ MustNotExist(mode) /\ file # NoFile
    \/ MustExist(mode) /\ file = NoFile
    \/ ~ unix /\ mode = "TRUNCATE_ONLY" /\ "write" \notin rights
Emptied(mode) == Empties(mode) \/ (~ unix /\ MustNotExist(mode))

open(mode, permissions) ==
    LET rights == Granted(permissions)
        exists == file # NoFile
        denied == ~ unix /\ mode = "CREATE_OR_TRUNCATE" /\ exists /\ "write" \notin rights
        opened == IF ~ exists \/ Emptied(mode) THEN <<>> ELSE file
        wished == IF ~ exists \/ Empties(mode) THEN <<>> ELSE file
    IN /\ Trusted
       /\ asked' = permissions /\ got' = None
       /\ spoilt' = (IF IsOpen THEN {"leak"} ELSE {})
                    \cup (IF ~ unix /\ MustNotExist(mode) /\ exists THEN {"replaced"} ELSE {})
       /\ IF OpenFails(mode, rights)
          THEN /\ handle' = Closed
               /\ want' = [want EXCEPT !.got = None]
               /\ UNCHANGED <<file, pos>>
          ELSE /\ handle' = rights
               /\ file' = IF denied THEN file ELSE opened
               /\ pos' = 0
               /\ want' = [file |-> IF denied THEN file ELSE wished, pos |-> 0, got |-> None]
       /\ UNCHANGED unix

close ==
    /\ Trusted
    /\ handle' = Closed /\ asked' = {}
    /\ UNCHANGED <<unix, file, pos, got, want, spoilt>>

\* The destructor does not close.
destroy ==
    /\ Trusted /\ IsOpen
    /\ handle' = Closed /\ asked' = {}
    /\ spoilt' = {"leak"}
    /\ UNCHANGED <<unix, file, pos, got, want>>

\* One write(): on unix the system may take less than it is given, which
\* nobody notices.  Without the right the call throws.
write(data, meant, harm) ==
    LET may == IsOpen /\ "write" \in handle
        should == IsOpen /\ "write" \in asked
    IN /\ Trusted
       /\ pos + Len(data) <= MaxLength /\ pos + Len(meant) <= MaxLength
       /\ \E taken \in IF may THEN (IF unix THEN 0..Len(data) ELSE {Len(data)}) ELSE {0} :
              /\ file' = IF may /\ taken > 0 THEN Put(file, pos, SubSeq(data, 1, taken)) ELSE file
              /\ pos' = pos + taken
              /\ spoilt' = (IF may # should THEN {"rights"} ELSE {})
                           \cup (IF may /\ taken < Len(data) THEN {"short"} ELSE {})
                           \cup (IF may THEN harm ELSE {})
       /\ want' = IF should
                  THEN [file |-> Put(want.file, want.pos, meant),
                        pos |-> want.pos + Len(meant), got |-> None]
                  ELSE [want EXCEPT !.got = None]
       /\ got' = None
       /\ UNCHANGED <<unix, handle, asked>>

Meant(order, v) == IF order = "BE" THEN v ELSE Reverse(v)
writeInt ==
    \E order \in {"BE", "LE"}, w \in Widths :
        write(Writes(order, ValueOf(w)), Meant(order, ValueOf(w)),
              IF order = "LE" /\ w = 4 THEN {"shifted"} ELSE {})
writeFloating ==
    \E order \in {"BE", "LE"} :
        write(writeDouble(order, ValueOf(8)), Meant(order, ValueOf(8)),
              IF unix THEN {"halved"} ELSE {})

\* One read(): as much as there is, up to n.
read(n) ==
    LET may == IsOpen /\ "read" \in handle
        should == IsOpen /\ "read" \in asked
    IN /\ Trusted
       /\ got' = IF may THEN From(file, pos, n) ELSE None
       /\ pos' = pos + Len(got')
       /\ want' = IF should
                  THEN [want EXCEPT !.got = From(want.file, want.pos, n),
                                    !.pos = want.pos + Len(From(want.file, want.pos, n))]
                  ELSE [want EXCEPT !.got = None]
       /\ spoilt' = IF may # should THEN {"rights"} ELSE {}
       /\ UNCHANGED <<unix, file, handle, asked>>

\* The readers put the bytes of a value together from either end.
FromBE(bytes) == bytes
FromLE(bytes) == Reverse(bytes)
Decoded(order, bytes) == IF order = "BE" THEN FromBE(bytes) ELSE FromLE(bytes)

\* readFully() goes on after a short read: on unix at the beginning of the
\* buffer and for the whole length again; at the end of the file it never
\* comes back.
Again(n, first) == IF unix THEN n ELSE n - first
readFully(n, order) ==
    LET left == Len(From(file, pos, n))
    IN /\ IsOpen /\ "read" \in handle
       /\ \E first \in 0..left :
              LET more == IF first = n THEN <<>> ELSE From(file, pos + first, Again(n, first))
                  read1 == From(file, pos, first)
                  lost == first < n /\ (unix /\ first > 0)
              IN /\ Trusted
                 /\ got' = Decoded(order,
                              IF unix /\ first > 0
                              THEN more \o SubSeq(read1, Len(more) + 1, first)
                              ELSE read1 \o more)
                 /\ pos' = pos + first + Len(more)
                 /\ spoilt' = (IF left < n THEN {"spins"} ELSE {})
                              \cup (IF lost THEN {"overwritten"} ELSE {})
                              \cup (IF "read" \notin asked THEN {"rights"} ELSE {})
       /\ want' = [want EXCEPT !.got = Meant(order, From(want.file, want.pos, n)),
                               !.pos = want.pos + Len(From(want.file, want.pos, n))]
       /\ UNCHANGED <<unix, file, handle, asked>>

readBE == \E w \in Widths : readFully(w, "BE")
readLE == \E w \in Widths : readFully(w, "LE")

\* Characters up to the end of a line (10), without carriage returns (13);
\* on unix it is not written yet.
readLine ==
    LET rest == SubSeq(file, pos + 1, Len(file))
        end == SelectInSeq(rest, LAMBDA c : c = 10)
        size == IF end = 0 THEN Len(rest) ELSE end
        line == SelectSeq(SubSeq(rest, 1, IF end = 0 THEN size ELSE size - 1), LAMBDA c : c # 13)
    IN /\ Trusted /\ ~ unix /\ IsOpen /\ "read" \in handle
       /\ got' = line
       /\ pos' = pos + size
       /\ want' = [want EXCEPT !.got = line, !.pos = want.pos + size]
       /\ UNCHANGED <<unix, file, handle, asked, spoilt>>

seek(p) ==
    /\ Trusted /\ IsOpen
    /\ pos' = p /\ want' = [want EXCEPT !.pos = p]
    /\ UNCHANGED <<unix, file, handle, asked, got, spoilt>>

getFileOffset ==
    /\ Trusted /\ IsOpen
    /\ got' = <<pos>> /\ want' = [want EXCEPT !.got = <<want.pos>>]
    /\ UNCHANGED <<unix, file, handle, asked, pos, spoilt>>

\* unix goes to the end and back.
fileLength ==
    /\ Trusted /\ IsOpen
    /\ LET old == pos
           end == Len(file)
       IN /\ got' = <<end>>
          /\ pos' = IF unix THEN old ELSE pos
    /\ want' = [want EXCEPT !.got = <<Len(want.file)>>]
    /\ UNCHANGED <<unix, file, handle, asked, spoilt>>

\* Windows moves to the new end, sets it and moves back: without the right to
\* write the call throws where it has moved to.
setFileLength(n) ==
    LET may == IsOpen /\ "write" \in handle
        should == IsOpen /\ "write" \in asked
    IN /\ Trusted /\ IsOpen
       /\ file' = IF may THEN Filled(file, n) ELSE file
       /\ pos' = IF ~ unix /\ ~ may THEN n ELSE pos
       /\ want' = IF should THEN [want EXCEPT !.file = Filled(want.file, n)] ELSE want
       /\ spoilt' = (IF may # should THEN {"rights"} ELSE {})
                    \cup (IF ~ unix /\ ~ may THEN {"moved"} ELSE {})
       /\ UNCHANGED <<unix, handle, asked, got>>

Next ==
    \/ \E mode \in Modes, permissions \in SUBSET {"read", "write"} : open(mode, permissions)
    \/ close \/ destroy
    \/ writeInt \/ writeFloating
    \/ \E n \in 1..3 : read(n)
    \/ readBE \/ readLE \/ readLine
    \/ \E p \in {0, 2, MaxLength} : seek(p)
    \/ getFileOffset \/ fileLength
    \/ \E n \in {0, 2, MaxLength} : setFileLength(n)

-----------------------------------------------------------------------------

TypeOK ==
    /\ unix \in BOOLEAN
    /\ handle = Closed \/ handle \subseteq {"read", "write"}
    /\ asked \subseteq {"read", "write"}
    /\ pos \in 0..MaxLength
    /\ DOMAIN file \subseteq 1..MaxLength
    /\ IsOpen => file # NoFile

(* Every write lands where the writes, seeks and truncations before it put *)
(* it, in the byte order of its name, and every read, of any width, takes  *)
(* what is there and leaves the position behind it -- unless the file has  *)
(* met one of the ways in which the two implementations do not: rights     *)
(* swapped, 32 bits shifted, doubles halved, a transfer cut short.         *)
Held == spoilt = {} => want = [file |-> file, pos |-> pos, got |-> got]
=============================================================================
