------------------------------- MODULE Contents -------------------------------
(***************************************************************************)
(* What every sequential part of the library that holds something is       *)
(* measured against.                                                       *)
(***************************************************************************)

CONSTANTS
    Junk      \* memory nobody wrote

VARIABLES
    want,     \* what the callers put in and expect to find
    spoilt    \* what went wrong: empty while every call can be trusted
=============================================================================
