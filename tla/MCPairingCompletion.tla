------------------------ MODULE MCPairingCompletion ------------------------
(***************************************************************************)
(* PairingCompletion on small instances.                                   *)
(***************************************************************************)
EXTENDS PairingCompletion, TLC

\* Calls are interchangeable.
Symmetry == Permutations(Calls)

\* Of a call that has begun, the record and the count of steps are read again in
\* the phases of the recovery only.  A call that is over has left its promise, the
\* secret it returned, and whether it was a stray resume or forgot a promise.
Seen(c)  == IF pc[c] \in {"begin", "compare", "advance", "rotate", "finish"}
            THEN seen[c] ELSE None
Steps(c) == IF pc[c] \in {"confirm", "check"} THEN 0 ELSE steps[c]
Left(c)  == << pc[c] = "ok" /\ kind[c] \in Completing,
               kind[c] = "forget", kind[c] = "resume" /\ ~locked[c],
               IF result[c] = "resolved" THEN cred[c] ELSE 0,
               IF result[c] \in Calls THEN "none" ELSE result[c] >>
Live(c)  == IF pc[c] \in {"ok", "failed"} THEN Left(c)
            ELSE <<kind[c], pc[c], locked[c], cred[c], result[c], Seen(c), Steps(c)>>
LiveState == << store, memory, ghosts, [c \in Calls |-> Live(c)] >>
=============================================================================
