---------------------------- MODULE MCPrimitives ----------------------------
(* An instance of Primitives for TLC.                                         *)
EXTENDS Primitives, TLC

CONSTANTS p1, p2

Times == {<<s, n>> : s \in {7, 8, 9}, n \in {0, 1, 400000000, 999000000, 999999999}}
Symmetry == Permutations(Threads) \cup Permutations(Objects)
=============================================================================
