--------------------------- MODULE MCLocalReconnect ---------------------------
(***************************************************************************)
(* LocalReconnect on small instances.                                      *)
(***************************************************************************)
EXTENDS LocalReconnect, TLC

\* Runs are interchangeable.
Symmetry == Permutations(Runs)
=============================================================================
