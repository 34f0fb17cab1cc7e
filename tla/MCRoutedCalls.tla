----------------------------- MODULE MCRoutedCalls -----------------------------
(***************************************************************************)
(* RoutedCalls on small instances.                                         *)
(***************************************************************************)
EXTENDS RoutedCalls, TLC

CONSTANTS d1, o1

\* One device, that of o1.
OneDevice == [d \in {d1} |-> o1]
SomeConnects == 1..3

\* Callers are interchangeable.
Symmetry == Permutations(Callers)
=============================================================================
