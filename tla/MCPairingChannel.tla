-------------------------- MODULE MCPairingChannel --------------------------
(***************************************************************************)
(* PairingChannel on small instances.                                      *)
(***************************************************************************)
EXTENDS PairingChannel, TLC

\* Sockets and calls are interchangeable.
Symmetry == Permutations(Sockets) \cup Permutations(Calls)
=============================================================================
