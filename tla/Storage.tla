------------------------------- MODULE Storage -------------------------------
(***************************************************************************)
(* The parts of the library that hold one value, in memory or behind a     *)
(* handle of the system: strings, dates, files, streams and sockets.       *)
(***************************************************************************)
EXTENDS Contents, Integers, Sequences

CONSTANTS
    Chars, Nul, SmallLen, Pieces, MaxLen,                  \* StringBuffer
    Starts, Offset, MaxSteps,                              \* Dates
    Modes, Unwritten, Bytes, MaxFile, MaxStream, MaxCalls, \* RAFile, Streams
    Objects, Fds, Families                                 \* Sockets

\* A string has room for a character and its terminator, what a program hands
\* over fits in the bounds, bytes and descriptors are numbers, and one of the
\* bytes is the line feed that ends a line.
ASSUME StorageAssumption ==
    /\ SmallLen \in Nat /\ SmallLen >= 2 /\ MaxLen \in Nat
    /\ Pieces \subseteq Seq(Chars) /\ \A text \in Pieces : Len(text) <= MaxLen
    /\ Unwritten \in Nat /\ MaxFile \in Nat /\ MaxFile >= 3
    /\ Bytes \subseteq 0..255 /\ 10 \in Bytes /\ MaxStream \in Nat
    /\ Fds \subseteq Nat

VARIABLES
    str,                                                   \* StringBuffer
    date, last, steps,                                     \* Dates
    unix, file, got, calls,                                \* RAFile, Streams, Sockets
    handle, asked, pos,                                    \* RAFile
    in, out, append,                                       \* Streams
    kernel, m_fd, m_family, streams, threw                 \* Sockets

B == INSTANCE StringBuffer
T == INSTANCE Dates
R == INSTANCE RAFile WITH Junk <- Unwritten, MaxLength <- MaxFile
F == INSTANCE Streams WITH MaxLength <- MaxStream
S == INSTANCE Sockets

\* Dates are in the years the model's calendar has, and stay there: an
\* operation moves one by less than six years.
ASSUME DatesAssumption ==
    /\ MaxSteps \in Nat /\ Offset \in Int
    /\ \A s \in Starts :
           /\ s[1] \in (1950 + 6 * (MaxSteps + 1))..(2030 - 6 * (MaxSteps + 1))
           /\ s[2] \in 0..11 /\ s[3] \in 1..T!MonthLength(s[2], s[1])
           /\ s[4] \in 0..(T!Day - 1)
=============================================================================
