---------------------------- MODULE MCThreadPool ----------------------------
(* Instances of ThreadPool for TLC.                                         *)
EXTENDS ThreadPool, TLC

\* Sound for invariants and action properties: no thread, worker or task is
\* told from another by the specification.
Symmetry ==
  Permutations(Clients) \union Permutations(Workers) \union Permutations(Tasks)

NoEnv == {}
Nested == {"taskExecutes", "taskStops"}
EveryEnv == EnvChoices
=============================================================================
