--------------------------- MODULE MCSessionService ---------------------------
(* SessionService on a small instance.                                      *)
EXTENDS SessionService, TLC

\* Names, replicas and processes are interchangeable.
Symmetry == Permutations(Keys) \cup Permutations(Replicas) \cup Permutations(Procs)
==============================================================================
