------------------------------ MODULE Escaping ------------------------------
(***************************************************************************)
(* Texts that somebody is to take apart again: URLs, which                 *)
(* src/src/ge/http/HttpUtil.cpp escapes and unescapes, and the arguments   *)
(* and the environment that the Windows Process (src/src/win/ge/io/        *)
(* Process.cpp) hands to a child in one text each.  Quotes and backslashes,*)
(* which only the child knows, are left out.                               *)
(***************************************************************************)
EXTENDS Integers, Sequences, SequencesExt

NulChar == 0
Space == 32
Percent == 37
Plus == 43
Decimals == 48..57
Uppers == 65..90
Lowers == 97..122

Result(ok, text) == [ok |-> ok, text |-> text]

-----------------------------------------------------------------------------
\* URLs, over the codes of characters.

safeUrlChars == Decimals \cup Uppers \cup Lowers

HexChar(v) == IF v > 9 THEN 65 + v - 10 ELSE 48 + v

escapeChar(c) ==
    IF c \in safeUrlChars THEN <<c>>
    ELSE IF c = Space THEN <<Plus>>
    ELSE <<Percent, HexChar(c \div 16), HexChar(c % 16)>>

escapeUrl(str) == FoldLeft(LAMBDA res, c : res \o escapeChar(c), <<>>, str)

\* The value of a character as a digit, or -1.
hexValue(c) ==
    IF c \in Decimals THEN c - 48
    ELSE IF c \in 65..70 THEN c - 55
    ELSE IF c \in 97..102 THEN c - 87
    ELSE -1

\* The values are kept unsigned, so that -1 is never below zero: the low byte
\* of whatever the sum is is written.
Decoded(high, low) == (hexValue(high) * 16 + hexValue(low)) % 256

\* "mem" is the memory from the text on; a NulChar ends the text.  The writer is
\* never ahead of the reader.
unescapeUrlInPlace(mem) ==
    LET size == SelectInSeq(mem, LAMBDA c : c = NulChar) - 1
        from[i \in 1..(size + 3)] ==
            IF i > size THEN Result(TRUE, <<>>)
            ELSE IF mem[i] # Percent
            THEN LET rest == from[i + 1]
                 IN Result(rest.ok, <<IF mem[i] = Plus THEN Space ELSE mem[i]>> \o rest.text)
            ELSE IF i + 2 > size THEN Result(FALSE, <<>>)
            ELSE LET rest == from[i + 3]
                 IN Result(rest.ok, <<Decoded(mem[i + 1], mem[i + 2])>> \o rest.text)
    IN from[1]

\* The copy that is unescaped has no terminator, and its length is taken for
\* that of the result: "behind" is the memory up to the next NulChar.
unescapeUrl(str, behind) ==
    LET mem == str \o behind \o <<NulChar>>
        out == unescapeUrlInPlace(mem)
        written == Append(out.text, NulChar)
        after == written \o SubSeq(mem, Len(written) + 1, Len(mem))
    IN IF out.ok THEN Result(TRUE, SubSeq(after, 1, Len(str))) ELSE Result(FALSE, <<>>)

-----------------------------------------------------------------------------

Escapes(text) == {i \in DOMAIN text : text[i] = Percent}
Unescaped(text) == unescapeUrlInPlace(Append(text, NulChar))

(* What is escaped holds only characters a URL may have and is unescaped to *)
(* what it was; what can be unescaped is, escaped again, another spelling   *)
(* of the same; an escape is refused only when the text ends in it.  The    *)
(* copying form gives what the other gives -- but that is exempt for a text *)
(* with escapes, whose result is to be shorter (HttpUtil.h) and is not: of  *)
(* that one only the beginning is claimed.                                  *)
UrlExact(text) ==
    LET escaped == escapeUrl(text)
        out == Unescaped(text)
        copy == unescapeUrl(text, <<>>)
    IN /\ Range(escaped) \subseteq safeUrlChars \cup {Plus, Percent}
       /\ Unescaped(escaped) = Result(TRUE, text)
       /\ out.ok \/ \E i \in Escapes(text) : i + 2 > Len(text)
       /\ out.ok => /\ Unescaped(escapeUrl(out.text)) = out
                    /\ IsPrefix(out.text, copy.text)
                    /\ Escapes(text) = {} => copy = out
       /\ copy.ok = out.ok

-----------------------------------------------------------------------------
\* The command line and the environment of a child.

Boundary == -1   \* between the strings of a list, in an input

\* Blanks are put between the arguments, and nothing is escaped.
makeParameterString(args) ==
    FoldLeftDomain(LAMBDA line, i :
                       line \o args[i] \o (IF i # Len(args) THEN <<Space>> ELSE <<>>),
                   <<>>, args) \o <<NulChar>>

\* Each string with its end, and an empty one last; for an empty list the
\* child gets the parent's environment, which is NoBlock.
NoBlock == <<>>

makeEnvArray(env) ==
    IF env = <<>> THEN NoBlock
    ELSE FoldLeft(LAMBDA block, str : block \o str \o <<NulChar>>, <<>>, env) \o <<NulChar>>

-----------------------------------------------------------------------------

\* What stands in a text between characters that separate, empty or not.
Fields(text, separator) ==
    LET Grown(fields, c) ==
            IF c = separator THEN Append(fields, <<>>)
            ELSE Append(Front(fields), Append(Last(fields), c))
    IN FoldLeft(Grown, << <<>> >>, text)

\* The child's main(): what its start-up code finds in a line.
Arguments(line) ==
    SelectSeq(Fields(Fields(line, NulChar)[1], Space), LAMBDA arg : arg # <<>>)

\* The child's environment: strings up to the first empty one.
Environment(block) ==
    LET strings == Fields(block, NulChar)
        end == CHOOSE i \in DOMAIN strings :
                   strings[i] = <<>> /\ \A j \in 1..(i - 1) : strings[j] # <<>>
    IN SubSeq(strings, 1, end - 1)

Holds(list, characters) ==
    \E i \in DOMAIN list : list[i] = <<>> \/ ToSet(list[i]) \cap characters # {}

\* A child is given the arguments and the environment its parent named.
\* Exempt are lists with an empty string, a blank in an argument, or a zero.
CommandExact(text) ==
    LET list == IF text = <<>> THEN <<>> ELSE Fields(text, Boundary) IN
    /\ Holds(list, {Space, NulChar}) \/ Arguments(makeParameterString(list)) = list
    /\ list = <<>> \/ Holds(list, {NulChar}) \/ Environment(makeEnvArray(list)) = list
=============================================================================
