-------------------------- MODULE MCPairingSessions --------------------------
(***************************************************************************)
(* PairingSessions on small instances.                                     *)
(***************************************************************************)
EXTENDS PairingSessionsRefinement, TLC

\* Callers are interchangeable, and so are the codes and the session ids.
Symmetry ==
    Permutations(Callers) \cup Permutations(Codes)
        \cup Permutations(Sessions) \cup Permutations(Owners)

\* The code and the times of a session that is not stored are never read, nor are
\* the code, the time and the attempts of a task in the phases that follow.
Live(t) == << t.pc, t.id, t.owner, t.prev,
              IF t.pc \in {"create", "claim", "device"} THEN t.code ELSE NoSession,
              IF t.pc \in {"generate", "create", "device", "cancel", "cancelOnly",
                           "prune", "expire"} THEN t.at ELSE 0,
              IF t.pc \in {"generate", "create"} THEN t.tries ELSE 0 >>

View == <<clock, session, [i \in Stored |-> <<code[i], created[i]>>],
          [i \in Sessions |-> IF session[i] = "claimed" THEN claimed[i] ELSE 0],
          devices, index, tombs, queue, [p \in Callers |-> Live(task[p])],
          gate, channel>>
=============================================================================
