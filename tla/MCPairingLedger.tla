--------------------------- MODULE MCPairingLedger ---------------------------
(***************************************************************************)
(* PairingLedger on small instances.                                       *)
(***************************************************************************)
EXTENDS PairingLedger, TLC

\* Identifiers and codes are interchangeable.
Symmetry == Permutations(Sessions) \cup Permutations(Codes)
=============================================================================
