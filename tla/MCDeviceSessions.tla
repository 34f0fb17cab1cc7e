-------------------------- MODULE MCDeviceSessions --------------------------
(***************************************************************************)
(* DeviceSessions on small instances.                                      *)
(***************************************************************************)
EXTENDS DeviceSessionsRefinement, TLC

\* Connections, handshakes and operations are interchangeable,
\* and devices with them.
Symmetry == Permutations(Connections) \cup Permutations(Handshakes)
                \cup Permutations(Operations)
DeviceSymmetry == Symmetry \cup Permutations(Devices)

\* Two states that differ only in the locals of tasks that are over, or in a
\* heartbeat's read that was already used, behave alike.
Locals(h) == IF hpc[h] \in {"idle", "done"}
             THEN <<hpc[h]>> ELSE <<hpc[h], hconn[h], hdev[h], hsec[h], hok[h]>>
Seen(c)   == IF hb[c] = "seen" THEN hbSeen[c] ELSE 0
Bound(c)  == IF conn[c] = "ready" \/ \E d \in Devices : registry[d] = c
             THEN <<conn[c], sdev[c], sgen[c], lapsed[c], hb[c], Seen(c)>>
             ELSE <<conn[c], hb[c]>>
Body(o)   == IF opc[o] \in {"released", "done"}
             THEN <<opc[o], odev[o], IF ocommitted[o] THEN osnap[o] ELSE Unread>>
             ELSE <<opc[o], odev[o], osnap[o], okind[o], ocommitted[o]>>
LiveState ==
    << [c \in Connections |-> Bound(c)], [h \in Handshakes |-> Locals(h)],
       [o \in Operations |-> Body(o)], lockQueue, credVars, registry,
       mutationCount, authCount, readyCount, stopPc >>
=============================================================================
