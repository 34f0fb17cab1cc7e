------------------------- MODULE CredentialSessions -------------------------
(***************************************************************************)
(* What the server runtime promises of credentials and sessions, with no   *)
(* task, lock, lease or await: a device has at most one current generation *)
(* and at most one session, a session is opened with the current           *)
(* generation only, and replacing or revoking the generation takes effect  *)
(* in one step with the end of the session.  After shutdown no session is  *)
(* opened.                                                                 *)
(***************************************************************************)
EXTENDS Integers

CONSTANTS Devices, Connections, None

VARIABLES
    generation,     \* the current generation of a device, 0 when there is none
    issued,         \* the last generation a device was given
    session,        \* the connection of the device's session
    sessionGen,     \* the generation it was opened with, 0 without a session
    open            \* the runtime accepts sessions

vars == <<generation, issued, session, sessionGen, open>>

Init ==
    /\ generation \in [Devices -> 0..1] /\ issued = generation
    /\ session = [d \in Devices |-> None]
    /\ sessionGen = [d \in Devices |-> 0]
    /\ open = TRUE

\* A session is opened; it takes the place of the one before it.
Connect(d, c) ==
    /\ open /\ generation[d] # 0
    /\ session' = [session EXCEPT ![d] = c]
    /\ sessionGen' = [sessionGen EXCEPT ![d] = generation[d]]
    /\ UNCHANGED <<generation, issued, open>>

\* The sessions of some devices end.
Disconnect(D) ==
    /\ session' = [d \in Devices |-> IF d \in D THEN None ELSE session[d]]
    /\ sessionGen' = [d \in Devices |-> IF d \in D THEN 0 ELSE sessionGen[d]]
    /\ UNCHANGED <<generation, issued, open>>

\* The generation is revoked (g = 0), or replaced by one never used before,
\* and no session survives.
Replace(d, g) ==
    /\ g \in {0, issued[d] + 1} /\ g # generation[d]
    /\ generation' = [generation EXCEPT ![d] = g]
    /\ issued' = [issued EXCEPT ![d] = IF g = 0 THEN @ ELSE g]
    /\ session' = [session EXCEPT ![d] = None]
    /\ sessionGen' = [sessionGen EXCEPT ![d] = 0]
    /\ UNCHANGED open

Shutdown ==
    /\ open' = FALSE
    /\ UNCHANGED <<generation, issued, session, sessionGen>>

Next ==
    \/ \E d \in Devices, c \in Connections : Connect(d, c)
    \/ \E D \in SUBSET Devices : Disconnect(D)
    \/ \E d \in Devices : Replace(d, 0) \/ Replace(d, issued[d] + 1)
    \/ Shutdown

Spec == Init /\ [][Next]_vars
=============================================================================
