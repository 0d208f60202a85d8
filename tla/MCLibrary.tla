------------------------------ MODULE MCLibrary ------------------------------
(* An instance of Library for TLC.                                            *)
EXTENDS Library, TLC

CONSTANTS e1, e2

Hashes == 1 :> 0 @@ 2 :> 4 @@ 3 :> 5
Texts == {<<>>, <<e1>>, <<e2, e1>>, <<e1, e2, e2>>}

\* The last hour of a year, of a February and of a summer, and before 1970.
Days == {<<1999, 11, 31, 86399>>, <<2000, 1, 29, 45000>>, <<2001, 0, 31, 0>>,
         <<1969, 11, 31, 84570>>, <<2004, 1, 28, 3661>>}

OpenModes == {"CREATE_ONLY", "CREATE_OR_OPEN", "CREATE_OR_TRUNCATE", "OPEN_ONLY", "TRUNCATE_ONLY"}

Alphabets ==
    [StringSearch |-> {65, 97, 98},
     UnicodeUtil |-> {65, 127, 128, 144, 160, 193, 196, 224, 237, 240, 244},
     Numbers |-> {Number!Minus, Number!NoDigit, 0, 1, 2, 7, 9, 15},
     INetUtil |-> {INet!Period, INet!Colon, INet!Percent, INet!Other, 0, 1, 6},
     HttpUtil |-> {Text!Percent, Text!Plus, Text!Space, 52, 65, 102, 122, 200},
     CommandLine |-> {Text!Boundary, Text!NulChar, Text!Space, 97}]
Lengths == [StringSearch |-> 7, UnicodeUtil |-> 5, Numbers |-> 4, INetUtil |-> 6, HttpUtil |-> 5,
            CommandLine |-> 6]
=============================================================================
