--------------------------- MODULE RoutedCallsProofs ---------------------------
(***************************************************************************)
(* For every set of devices, callers and connects and every bound: a call  *)
(* of the public endpoint is served by a session of a credential that is   *)
(* not older than the call, through the one client of that session, and    *)
(* what is kept of a session does not outlive it.                          *)
(*                                                                         *)
(* The invariant has three parts with lemmas of their own: that of the     *)
(* clients, that of the requests, and what relates the two.                *)
(***************************************************************************)
EXTENDS RoutedCalls, TLAPS

\* What the proofs about the clients need of the constants.
LEMMA NoneIsNone == NoConnect \notin Connects /\ NoSession \notin Registrations
BY ConstantsType DEF ConstantsType, Registrations

-----------------------------------------------------------------------------
(* The clients. *)

USE NoneIsNone

LEMMA ClientsInit == ASSUME Clients!Init PROVE Clients!Inv
<1>1. Clients!TypeOK
    BY DEF Clients!Init, Clients!TypeOK
<1>2. Clients!TransportsAgree
    BY DEF Clients!Init, Clients!TransportsAgree, Clients!TransportAgrees
<1>3. Clients!MapAgrees /\ Clients!CallersAgree /\ Clients!ReadyHasLiveClient
    BY DEF Clients!Init, Clients!MapAgrees, Clients!CallersAgree,
           Clients!ReadyHasLiveClient
<1> QED
    BY <1>1, <1>2, <1>3
       DEF Clients!Init, Clients!Inv, Clients!OneClient, Clients!RightClient,
           Clients!EntriesAreOpen, Clients!NoneOutlivesClose

LEMMA GetEntryInv ==
    ASSUME Clients!Inv, NEW k \in Callers, NEW s \in Registrations, Clients!GetEntry(k, s)
    PROVE  /\ Clients!Inv'
           /\ pc' = [pc EXCEPT ![k] = "awaiting"]
           /\ target' = [target EXCEPT ![k] = s]
           /\ \A j \in Callers : j # k /\ pc[j] # "idle" =>
                 waits'[j] = waits[j] /\ csession'[waits[j]] = csession[waits[j]]
<1>1. /\ Clients!TypeOK /\ pc[k] = "idle" /\ ~closed /\ session[s] = "ready"
      /\ pc' = [pc EXCEPT ![k] = "awaiting"]
      /\ target' = [target EXCEPT ![k] = s]
      /\ UNCHANGED <<session, entries, closed, closing>>
    BY DEF Clients!Inv, Clients!GetEntry
<1>2. CASE Clients!Cached(s)
    <2>1. /\ pending[s] \in Connects /\ csession[pending[s]] = s
          /\ cstate[pending[s]] \in {"connecting", "open"}
        BY <1>1, <1>2 DEF Clients!Inv, Clients!Cached, Clients!TypeOK,
                          Clients!ReadyHasLiveClient, Clients!MapAgrees
    <2>2. /\ waits' = [waits EXCEPT ![k] = pending[s]]
          /\ UNCHANGED <<pending, cstate, csession, transport, binding>>
        BY <1>2 DEF Clients!GetEntry, Clients!connects
    <2>3. Clients!TypeOK'
        BY <1>1, <2>1, <2>2 DEF Clients!TypeOK
    <2>4. /\ pc'[k] = "awaiting" /\ waits'[k] = pending[s] /\ target'[k] = s
          /\ \A j \in Callers : j # k =>
                pc'[j] = pc[j] /\ waits'[j] = waits[j] /\ target'[j] = target[j]
        BY <1>1, <2>2 DEF Clients!TypeOK
    <2>5. Clients!RightClient' /\ Clients!CallersAgree'
        BY <2>1, <2>2, <2>4 DEF Clients!Inv, Clients!RightClient, Clients!CallersAgree
    <2> QED
        BY <1>1, <2>2, <2>3, <2>4, <2>5
           DEF Clients!Inv, Clients!OneClient, Clients!EntriesAreOpen,
               Clients!ReadyHasLiveClient, Clients!NoneOutlivesClose,
               Clients!TransportsAgree, Clients!TransportAgrees, Clients!MapAgrees
<1>3. CASE ~Clients!Cached(s)
    <2>1. PICK c \in Clients!NextConnect :
            /\ waits' = [waits EXCEPT ![k] = c]
            /\ pending' = [pending EXCEPT ![s] = c]
            /\ cstate' = [cstate EXCEPT ![c] = "connecting"]
            /\ csession' = [csession EXCEPT ![c] = s]
            /\ IF binding[s] = NoConnect
               THEN /\ transport' = [transport EXCEPT ![c] = "ready"]
                    /\ binding' = [binding EXCEPT ![s] = c]
               ELSE /\ transport' = [transport EXCEPT ![c] = "failed"]
                    /\ UNCHANGED binding
        BY <1>3 DEF Clients!GetEntry
    <2>2. c \in Connects /\ cstate[c] = "free" /\ transport[c] = "none"
        BY DEF Clients!NextConnect, Clients!Inv, Clients!TransportsAgree, Clients!TransportAgrees
    <2>3. pending[s] = NoConnect /\ binding[s] = NoConnect
        BY <1>1, <1>3 DEF Clients!Inv, Clients!Cached, Clients!MapAgrees
    <2>4. Clients!TypeOK'
        BY <1>1, <2>1, <2>2, <2>3 DEF Clients!TypeOK
    <2>5. /\ cstate'[c] = "connecting" /\ csession'[c] = s /\ transport'[c] = "ready"
          /\ \A d \in Connects : d # c =>
                /\ cstate'[d] = cstate[d] /\ csession'[d] = csession[d]
                /\ transport'[d] = transport[d]
        BY <1>1, <2>1, <2>2, <2>3 DEF Clients!TypeOK
    <2>6. /\ pending'[s] = c /\ binding'[s] = c
          /\ \A t \in Registrations : t # s =>
                pending'[t] = pending[t] /\ binding'[t] = binding[t]
        BY <1>1, <2>1, <2>2, <2>3 DEF Clients!TypeOK
    <2>7. /\ pc'[k] = "awaiting" /\ waits'[k] = c /\ target'[k] = s
          /\ \A j \in Callers : j # k =>
                pc'[j] = pc[j] /\ waits'[j] = waits[j] /\ target'[j] = target[j]
        BY <1>1, <2>1 DEF Clients!TypeOK
    <2>8. \A j \in Callers : pc[j] # "idle" => waits[j] \in Connects \ {c}
        BY <1>1, <2>2 DEF Clients!Inv, Clients!TypeOK, Clients!CallersAgree
    <2>9. \A t \in Registrations : pending[t] # c /\ binding[t] # c
        BY <2>2 DEF Clients!Inv, Clients!TypeOK, Clients!MapAgrees,
                    Clients!TransportsAgree, Clients!TransportAgrees
    <2>10. Clients!RightClient' /\ Clients!CallersAgree'
        BY <2>5, <2>7, <2>8
           DEF Clients!Inv, Clients!RightClient, Clients!CallersAgree
    <2>11. Clients!OneClient' /\ Clients!EntriesAreOpen' /\ Clients!NoneOutlivesClose'
        BY <1>1, <2>2, <2>5
           DEF Clients!Inv, Clients!OneClient, Clients!EntriesAreOpen,
               Clients!NoneOutlivesClose
    <2>12. Clients!TransportsAgree'
        <3> SUFFICES ASSUME NEW d \in Connects PROVE Clients!TransportAgrees(d)'
            BY DEF Clients!TransportsAgree
        <3>1. CASE d = c
            BY <3>1, <2>5, <2>6, <2>9 DEF Clients!TransportAgrees
        <3>2. CASE d # c
            <4>1. Clients!TransportAgrees(d)
                BY DEF Clients!Inv, Clients!TransportsAgree
            <4> QED
                BY <3>2, <4>1, <1>1, <2>3, <2>5, <2>6 DEF Clients!TransportAgrees
        <3> QED BY <3>1, <3>2
    <2>13. Clients!MapAgrees'
        BY <1>1, <2>2, <2>4, <2>5, <2>6, <2>9
           DEF Clients!Inv, Clients!TypeOK, Clients!MapAgrees
    <2>14. Clients!ReadyHasLiveClient'
        BY <1>1, <2>2, <2>4, <2>5, <2>6, <2>9
           DEF Clients!Inv, Clients!TypeOK, Clients!ReadyHasLiveClient
    <2> QED
        BY <1>1, <2>4, <2>5, <2>7, <2>8, <2>10, <2>11, <2>12, <2>13, <2>14
           DEF Clients!Inv
<1> QED BY <1>2, <1>3

\* Some transports close, with the callbacks they had and the sessions they used;
\* what was connecting on one of them fails.
TransportsClose ==
    /\ session' \in [Registrations -> {"ready", "closing", "closed"}]
    /\ binding' \in [Registrations -> Connects \cup {NoConnect}]
    /\ pending' \in [Registrations -> Connects \cup {NoConnect}]
    /\ transport' \in [Connects -> {"none", "ready", "failed", "closed"}]
    /\ cstate' \in [Connects -> {"free", "connecting", "open", "failed"}]
    /\ closed' \in BOOLEAN /\ closing' \in BOOLEAN
    /\ \A c \in Connects :
          /\ transport'[c] # transport[c] =>
                transport'[c] = "closed" /\ cstate[c] # "free"
          /\ cstate'[c] # cstate[c] =>
                /\ cstate[c] = "connecting" /\ cstate'[c] = "failed"
                /\ transport'[c] = "closed"
    /\ \A s \in Registrations :
          /\ session'[s] = "ready" =>
                /\ session[s] = "ready"
                /\ \A c \in Connects : csession[c] = s => transport'[c] = transport[c]
          /\ binding'[s] = IF binding[s] # NoConnect /\ transport'[binding[s]] # "ready"
                           THEN NoConnect ELSE binding[s]
          /\ \/ pending'[s] = pending[s]
             \/ pending'[s] = NoConnect /\ session'[s] # "ready"
    /\ entries' \subseteq Connects
    /\ \A c \in Connects : c \in entries' <=> c \in entries /\ transport'[c] = "ready"
    /\ closing' => closed'
    /\ closed' => \A c \in Connects : transport'[c] = "ready" => cstate[c] = "connecting"
    /\ UNCHANGED <<csession, pc, waits, target>>

LEMMA TransportsCloseInv ==
    ASSUME Clients!Inv, TransportsClose
    PROVE  Clients!Inv'
<1>1. Clients!TypeOK /\ Clients!TypeOK'
    BY DEF Clients!Inv, Clients!TypeOK, TransportsClose
<1>2. Clients!OneClient' /\ Clients!EntriesAreOpen' /\ Clients!NoneOutlivesClose'
    BY DEF Clients!Inv, Clients!OneClient, Clients!EntriesAreOpen,
           Clients!NoneOutlivesClose, TransportsClose
<1>3. Clients!RightClient' /\ Clients!CallersAgree'
    BY <1>1 DEF Clients!Inv, Clients!TypeOK, Clients!RightClient, Clients!CallersAgree,
                TransportsClose
<1>4. Clients!TransportsAgree'
    <2> SUFFICES ASSUME NEW c \in Connects PROVE Clients!TransportAgrees(c)'
        BY DEF Clients!TransportsAgree
    <2>1. Clients!TransportAgrees(c)
        BY DEF Clients!Inv, Clients!TransportsAgree
    <2>2. CASE transport'[c] # transport[c]
        BY <1>1, <2>1, <2>2 DEF Clients!TransportAgrees, TransportsClose
    <2>3. CASE transport'[c] = transport[c]
        BY <1>1, <2>1, <2>3 DEF Clients!TransportAgrees, TransportsClose
    <2> QED BY <2>2, <2>3
<1>5. ASSUME NEW s \in Registrations, pending'[s] # NoConnect
      PROVE  /\ pending[s] \in Connects /\ pending'[s] = pending[s]
             /\ cstate'[pending[s]] # "free" /\ csession[pending[s]] = s
    BY <1>1, <1>5 DEF Clients!Inv, Clients!MapAgrees, Clients!TypeOK, TransportsClose
<1>6. Clients!MapAgrees'
    BY <1>1, <1>5 DEF Clients!Inv, Clients!MapAgrees, Clients!TypeOK, TransportsClose
<1>7. Clients!ReadyHasLiveClient'
    BY <1>1, <1>5 DEF Clients!Inv, Clients!ReadyHasLiveClient, TransportsClose
<1> QED BY <1>1, <1>2, <1>3, <1>4, <1>6, <1>7 DEF Clients!Inv, TransportsClose

\* The sessions of the transports that are closed.
LEMMA ClosedSessions ==
    ASSUME Clients!Inv, NEW cs, Clients!CloseTransports(cs), NEW c \in Connects, c \in cs,
           cstate[c] # "free"
    PROVE  csession[c] \in Registrations /\ session'[csession[c]] # "ready"
<1>1. csession[c] \in Registrations
    BY DEF Clients!Inv, Clients!TransportsAgree, Clients!TransportAgrees
<1>2. CASE transport[c] = "closed"
    BY <1>1, <1>2 DEF Clients!Inv, Clients!TransportsAgree, Clients!TransportAgrees,
                      Clients!CloseTransports
<1>3. CASE transport[c] # "closed"
    <2>1. csession[c] \in {csession[d] : d \in {d \in cs : transport[d] # "closed"}}
        BY <1>3
    <2> QED BY <1>1, <2>1 DEF Clients!CloseTransports
<1> QED BY <1>1, <1>2, <1>3

LEMMA OneTransportCloses ==
    ASSUME Clients!Inv, NEW c \in Connects, Clients!CloseTransports({c}),
           cstate[c] # "free",
           cstate' \in [Connects -> {"free", "connecting", "open", "failed"}],
           \A d \in Connects : cstate'[d] # cstate[d] =>
              d = c /\ cstate[d] = "connecting" /\ cstate'[d] = "failed",
           pending' \in [Registrations -> Connects \cup {NoConnect}],
           \A s \in Registrations : \/ pending'[s] = pending[s]
                                    \/ pending'[s] = NoConnect /\ s = csession[c],
           entries' = entries \ {c},
           UNCHANGED <<closed, closing, csession, pc, waits, target>>
    PROVE  Clients!Inv'
<1>1. Clients!TypeOK
    BY DEF Clients!Inv
<1>2. csession[c] \in Registrations /\ session'[csession[c]] # "ready"
    BY ClosedSessions
<1>3. /\ session' \in [Registrations -> {"ready", "closing", "closed"}]
      /\ binding' = [s \in Registrations |-> IF binding[s] = c THEN NoConnect
                                             ELSE binding[s]]
      /\ \A s \in Registrations : session'[s] = "ready" => session[s] = "ready"
      /\ transport' = [transport EXCEPT ![c] = "closed"]
    BY <1>1 DEF Clients!TypeOK, Clients!CloseTransports
<1>4. /\ transport' \in [Connects -> {"none", "ready", "failed", "closed"}]
      /\ \A d \in Connects :
            transport'[d] = IF d = c THEN "closed" ELSE transport[d]
    BY <1>1, <1>3 DEF Clients!TypeOK
<1>5. /\ entries' \subseteq Connects
      /\ \A d \in Connects : d \in entries' <=> d \in entries /\ transport'[d] = "ready"
    BY <1>1, <1>4 DEF Clients!Inv, Clients!TypeOK, Clients!EntriesAreOpen
<1>6. \A s \in Registrations : binding[s] # NoConnect =>
         binding[s] \in Connects /\ transport[binding[s]] = "ready"
    BY <1>1 DEF Clients!Inv, Clients!TypeOK, Clients!TransportsAgree,
                Clients!TransportAgrees
<1>7. /\ binding' \in [Registrations -> Connects \cup {NoConnect}]
      /\ \A s \in Registrations :
            binding'[s] = IF binding[s] # NoConnect /\ transport'[binding[s]] # "ready"
                          THEN NoConnect ELSE binding[s]
    <2>1. binding' \in [Registrations -> Connects \cup {NoConnect}]
        BY <1>1, <1>3 DEF Clients!TypeOK
    <2>2. \A s \in Registrations :
             binding'[s] = IF binding[s] = c THEN NoConnect ELSE binding[s]
        BY <1>3
    <2> QED BY <1>4, <1>6, <2>1, <2>2
<1>8. /\ closed' \in BOOLEAN /\ closing' \in BOOLEAN
      /\ closing' => closed'
      /\ closed' => \A d \in Connects :
                       transport'[d] = "ready" => cstate[d] = "connecting"
    BY <1>1, <1>4 DEF Clients!Inv, Clients!TypeOK, Clients!NoneOutlivesClose
<1>9. \A d \in Connects :
         /\ transport'[d] # transport[d] => transport'[d] = "closed" /\ cstate[d] # "free"
         /\ cstate'[d] # cstate[d] =>
               /\ cstate[d] = "connecting" /\ cstate'[d] = "failed"
               /\ transport'[d] = "closed"
    BY <1>4
<1>10. \A s \in Registrations :
          /\ session'[s] = "ready" =>
                /\ session[s] = "ready"
                /\ \A d \in Connects : csession[d] = s => transport'[d] = transport[d]
          /\ \/ pending'[s] = pending[s]
             \/ pending'[s] = NoConnect /\ session'[s] # "ready"
    BY <1>2, <1>3, <1>4
<1>11. \A s \in Registrations :
          /\ session'[s] = "ready" =>
                /\ session[s] = "ready"
                /\ \A d \in Connects : csession[d] = s => transport'[d] = transport[d]
          /\ binding'[s] = IF binding[s] # NoConnect /\ transport'[binding[s]] # "ready"
                           THEN NoConnect ELSE binding[s]
          /\ \/ pending'[s] = pending[s]
             \/ pending'[s] = NoConnect /\ session'[s] # "ready"
    BY <1>7, <1>10
<1>12. TransportsClose
    BY <1>3, <1>4, <1>5, <1>7, <1>8, <1>9, <1>11 DEF TransportsClose
<1> QED BY <1>12, TransportsCloseInv

\* A connect that has not been answered ends badly.
LEMMA ConnectFailedInv ==
    ASSUME Clients!Inv, NEW c \in Connects, cstate[c] = "connecting",
           cstate' = [cstate EXCEPT ![c] = "failed"],
           pending' = [pending EXCEPT ![csession[c]] = NoConnect],
           Clients!CloseTransports({c}),
           UNCHANGED <<entries, closed, closing, csession, pc, waits, target>>
    PROVE  Clients!Inv'
<1>1. /\ cstate' \in [Connects -> {"free", "connecting", "open", "failed"}]
      /\ \A d \in Connects : cstate'[d] # cstate[d] =>
            d = c /\ cstate[d] = "connecting" /\ cstate'[d] = "failed"
    BY DEF Clients!Inv, Clients!TypeOK
<1>2. /\ pending' \in [Registrations -> Connects \cup {NoConnect}]
      /\ \A s \in Registrations :
            pending'[s] = IF s = csession[c] THEN NoConnect ELSE pending[s]
    BY Zenon DEF Clients!Inv, Clients!TypeOK
<1>3. entries' = entries \ {c}
    BY DEF Clients!Inv, Clients!EntriesAreOpen
<1> QED BY <1>1, <1>2, <1>3, OneTransportCloses

LEMMA ConnectedInv ==
    ASSUME Clients!Inv, NEW c \in Connects, Clients!Connected(c)
    PROVE  Clients!Inv'
<1>1. /\ Clients!TypeOK /\ cstate[c] = "connecting" /\ transport[c] = "ready"
      /\ UNCHANGED <<closed, closing, csession, pc, waits, target>>
    BY DEF Clients!Inv, Clients!Connected, Clients!callers
<1>2. /\ c \notin entries /\ csession[c] \in Registrations
      /\ binding[csession[c]] = c
    BY <1>1 DEF Clients!Inv, Clients!EntriesAreOpen, Clients!TransportsAgree,
                Clients!TransportAgrees
<1>3. CASE closed \/ session[csession[c]] # "ready"
    <2>1. /\ cstate' = [cstate EXCEPT ![c] = "failed"]
          /\ pending' = [pending EXCEPT ![csession[c]] = NoConnect]
          /\ Clients!CloseTransports({c}) /\ UNCHANGED entries
        BY <1>3 DEF Clients!Connected
    <2> QED BY <1>1, <2>1, ConnectFailedInv
<1>4. CASE ~(closed \/ session[csession[c]] # "ready")
    <2>1. /\ cstate' = [cstate EXCEPT ![c] = "open"] /\ entries' = entries \cup {c}
          /\ UNCHANGED <<pending, session, binding, transport>>
        BY <1>4 DEF Clients!Connected
    <2>2. Clients!TypeOK'
        BY <1>1, <2>1 DEF Clients!TypeOK
    <2>3. cstate'[c] = "open" /\ \A d \in Connects : d # c => cstate'[d] = cstate[d]
        BY <1>1, <2>1 DEF Clients!TypeOK
    <2>4. Clients!OneClient' /\ Clients!EntriesAreOpen' /\ Clients!NoneOutlivesClose'
        BY <1>1, <1>4, <2>1, <2>3
           DEF Clients!Inv, Clients!OneClient, Clients!EntriesAreOpen,
               Clients!NoneOutlivesClose
    <2>5. Clients!RightClient' /\ Clients!CallersAgree'
        BY <1>1, <2>1, <2>3
           DEF Clients!Inv, Clients!TypeOK, Clients!RightClient, Clients!CallersAgree
    <2>6. Clients!TransportsAgree'
        BY <1>1, <2>1, <2>3
           DEF Clients!Inv, Clients!TransportsAgree, Clients!TransportAgrees
    <2>7. Clients!MapAgrees' /\ Clients!ReadyHasLiveClient'
        BY <1>1, <2>1, <2>3
           DEF Clients!Inv, Clients!TypeOK, Clients!MapAgrees,
               Clients!ReadyHasLiveClient
    <2> QED BY <1>1, <2>2, <2>4, <2>5, <2>6, <2>7 DEF Clients!Inv
<1> QED BY <1>3, <1>4

LEMMA ConnectFailsInv ==
    ASSUME Clients!Inv, NEW c \in Connects, Clients!ConnectFails(c)
    PROVE  Clients!Inv'
BY ConnectFailedInv DEF Clients!ConnectFails, Clients!callers

LEMMA TransportFailsInv ==
    ASSUME Clients!Inv, NEW c \in Connects, Clients!TransportFails(c)
    PROVE  Clients!Inv'
<1>1. /\ transport[c] = "ready" /\ Clients!CloseTransports({c})
      /\ entries' = entries \ {c}
      /\ UNCHANGED <<pending, closed, closing, cstate, csession, pc, waits, target>>
    BY DEF Clients!TransportFails, Clients!callers
<1>2. cstate[c] # "free"
    BY <1>1 DEF Clients!Inv, Clients!TransportsAgree, Clients!TransportAgrees
<1>3. /\ cstate' \in [Connects -> {"free", "connecting", "open", "failed"}]
      /\ pending' \in [Registrations -> Connects \cup {NoConnect}]
    BY <1>1 DEF Clients!Inv, Clients!TypeOK
<1> QED BY <1>1, <1>2, <1>3, OneTransportCloses

LEMMA CloseInv ==
    ASSUME Clients!Inv, Clients!Close
    PROVE  Clients!Inv'
<1>1. /\ Clients!TypeOK /\ entries \subseteq Connects
      /\ Clients!CloseTransports(entries) /\ entries' = {}
      /\ closed' = TRUE /\ closing' = TRUE
      /\ UNCHANGED <<pending, cstate, csession, pc, waits, target>>
    BY DEF Clients!Inv, Clients!TypeOK, Clients!Close, Clients!callers
<1>2. /\ session' \in [Registrations -> {"ready", "closing", "closed"}]
      /\ binding' = [s \in Registrations |-> IF binding[s] \in entries THEN NoConnect
                                             ELSE binding[s]]
      /\ \A s \in Registrations : session'[s] = "ready" => session[s] = "ready"
      /\ transport' \in [Connects -> {"none", "ready", "failed", "closed"}]
      /\ \A c \in Connects :
            transport'[c] = IF c \in entries THEN "closed" ELSE transport[c]
    BY <1>1 DEF Clients!TypeOK, Clients!CloseTransports
<1>3. \A c \in entries : cstate[c] = "open" /\ transport[c] = "ready"
    BY <1>1 DEF Clients!Inv, Clients!EntriesAreOpen
<1>4. \A c \in entries : csession[c] \in Registrations /\ session'[csession[c]] # "ready"
    <2> SUFFICES ASSUME NEW c \in entries
                 PROVE  csession[c] \in Registrations /\ session'[csession[c]] # "ready"
        OBVIOUS
    <2>1. csession[c] \in Registrations
        BY <1>1, <1>3 DEF Clients!Inv, Clients!TransportsAgree, Clients!TransportAgrees
    <2>2. csession[c] \in {csession[d] : d \in {d \in entries : transport[d] # "closed"}}
        BY <1>3
    <2> QED BY <1>1, <2>1, <2>2 DEF Clients!CloseTransports
<1>5. \A c \in Connects \ entries : transport[c] = "ready" => cstate[c] = "connecting"
    <2> SUFFICES ASSUME NEW c \in Connects \ entries, transport[c] = "ready"
                 PROVE  cstate[c] = "connecting"
        OBVIOUS
    <2>1. cstate[c] \in {"free", "connecting", "open", "failed"}
        BY <1>1 DEF Clients!TypeOK
    <2> QED BY <2>1 DEF Clients!Inv, Clients!EntriesAreOpen, Clients!TransportsAgree,
                        Clients!TransportAgrees
<1>6. \A s \in Registrations : binding[s] # NoConnect =>
         binding[s] \in Connects /\ transport[binding[s]] = "ready"
    BY <1>1 DEF Clients!Inv, Clients!TypeOK, Clients!TransportsAgree,
                Clients!TransportAgrees
<1>7. /\ entries' \subseteq Connects
      /\ \A c \in Connects : c \in entries' <=> c \in entries /\ transport'[c] = "ready"
    BY <1>1, <1>2
<1>8. TransportsClose
    BY <1>1, <1>2, <1>3, <1>4, <1>5, <1>6, <1>7 DEF Clients!TypeOK, TransportsClose
<1> QED BY <1>8, TransportsCloseInv

\* Sessions leave, and nothing of the clients changes.
LEMMA SessionsLeaveInv ==
    ASSUME Clients!Inv, session' \in [Registrations -> {"ready", "closing", "closed"}],
           \A t \in Registrations : session'[t] = "ready" => session[t] = "ready",
           UNCHANGED clients
    PROVE  Clients!Inv'
<1>1. /\ Clients!TypeOK
      /\ UNCHANGED <<binding, pending, entries, closed, closing, cstate, csession,
                     transport, pc, waits, target>>
    BY DEF Clients!Inv, clients
<1>2. \A t \in Registrations : binding[t] # NoConnect =>
         binding[t] \in Connects /\ transport[binding[t]] = "ready"
    BY <1>1 DEF Clients!Inv, Clients!TypeOK, Clients!TransportsAgree,
                Clients!TransportAgrees
<1>3. /\ entries' \subseteq Connects
      /\ \A c \in Connects : c \in entries' <=> c \in entries /\ transport'[c] = "ready"
    BY <1>1 DEF Clients!Inv, Clients!TypeOK, Clients!EntriesAreOpen
<1>4. TransportsClose
    BY <1>1, <1>2, <1>3
       DEF Clients!Inv, Clients!TypeOK, Clients!NoneOutlivesClose, TransportsClose
<1> QED BY <1>4, TransportsCloseInv

LEMMA SessionLeavesInv ==
    ASSUME Clients!Inv, NEW s \in Registrations, Clients!SessionLeaves(s)
    PROVE  Clients!Inv'
<1>1. /\ session' = [session EXCEPT ![s] = "closing"] /\ UNCHANGED clients
      /\ Clients!TypeOK
    BY DEF Clients!Inv, Clients!SessionLeaves, Clients!registry, Clients!connects,
           Clients!callers, clients
<1> QED BY <1>1, SessionsLeaveInv DEF Clients!TypeOK

LEMMA SessionClosesInv ==
    ASSUME Clients!Inv, NEW s \in Registrations, Clients!SessionCloses(s)
    PROVE  Clients!Inv'
<1>1. /\ Clients!TypeOK
      /\ session' = [session EXCEPT ![s] = "closed"]
      /\ transport' = IF binding[s] = NoConnect THEN transport
                      ELSE [transport EXCEPT ![binding[s]] = "closed"]
      /\ entries' = entries \ {binding[s]}
      /\ binding' = [binding EXCEPT ![s] = NoConnect]
      /\ UNCHANGED <<pending, closed, closing, cstate, csession, pc, waits, target>>
    BY DEF Clients!Inv, Clients!SessionCloses, Clients!callers
<1>2. \A t \in Registrations : binding[t] # NoConnect =>
         /\ binding[t] \in Connects /\ transport[binding[t]] = "ready"
         /\ csession[binding[t]] = t /\ cstate[binding[t]] # "free"
    BY <1>1 DEF Clients!Inv, Clients!TypeOK, Clients!TransportsAgree,
                Clients!TransportAgrees
<1>3. /\ session' \in [Registrations -> {"ready", "closing", "closed"}]
      /\ binding' \in [Registrations -> Connects \cup {NoConnect}]
      /\ transport' \in [Connects -> {"none", "ready", "failed", "closed"}]
      /\ \A t \in Registrations :
            /\ binding'[t] = IF t = s THEN NoConnect ELSE binding[t]
            /\ session'[t] = "ready" => session[t] = "ready" /\ t # s
      /\ \A c \in Connects :
            transport'[c] = IF c = binding[s] THEN "closed" ELSE transport[c]
    BY <1>1 DEF Clients!TypeOK
<1>4. /\ entries' \subseteq Connects
      /\ \A c \in Connects : c \in entries' <=> c \in entries /\ transport'[c] = "ready"
    BY <1>1, <1>3 DEF Clients!Inv, Clients!TypeOK, Clients!EntriesAreOpen
<1>5. \A t \in Registrations :
         binding'[t] = IF binding[t] # NoConnect /\ transport'[binding[t]] # "ready"
                       THEN NoConnect ELSE binding[t]
    BY <1>2, <1>3
<1>6. TransportsClose
    BY <1>1, <1>2, <1>3, <1>4, <1>5
       DEF Clients!Inv, Clients!TypeOK, Clients!NoneOutlivesClose, TransportsClose
<1> QED BY <1>6, TransportsCloseInv

\* A caller is done; it may drop a connect that its session cannot use any more.
LEMMA CallerLeavesInv ==
    ASSUME Clients!Inv, NEW k \in Callers,
           pc' = [pc EXCEPT ![k] = "idle"],
           waits' = [waits EXCEPT ![k] = NoConnect],
           target' = [target EXCEPT ![k] = NoSession],
           pending' \in [Registrations -> Connects \cup {NoConnect}],
           \A s \in Registrations : \/ pending'[s] = pending[s]
                                    \/ pending'[s] = NoConnect /\ session[s] # "ready",
           UNCHANGED <<session, binding, entries, closed, closing, cstate, csession,
                       transport>>
    PROVE  /\ Clients!Inv' /\ pc'[k] = "idle"
           /\ \A j \in Callers : j # k =>
                 pc'[j] = pc[j] /\ waits'[j] = waits[j] /\ target'[j] = target[j]
<1>1. Clients!TypeOK
    BY DEF Clients!Inv
<1>2. Clients!TypeOK'
    BY <1>1 DEF Clients!TypeOK
<1>3. /\ pc'[k] = "idle"
      /\ \A j \in Callers : j # k =>
            pc'[j] = pc[j] /\ waits'[j] = waits[j] /\ target'[j] = target[j]
    BY <1>1 DEF Clients!TypeOK
<1>4. Clients!RightClient' /\ Clients!CallersAgree'
    BY <1>3 DEF Clients!Inv, Clients!RightClient, Clients!CallersAgree
<1>5. Clients!MapAgrees' /\ Clients!ReadyHasLiveClient'
    BY DEF Clients!Inv, Clients!MapAgrees, Clients!ReadyHasLiveClient
<1> QED
    BY <1>2, <1>3, <1>4, <1>5
       DEF Clients!Inv, Clients!OneClient, Clients!EntriesAreOpen,
           Clients!NoneOutlivesClose, Clients!TransportsAgree, Clients!TransportAgrees

LEMMA CallEndsInv ==
    ASSUME Clients!Inv, NEW k \in Callers, Clients!CallEnds(k)
    PROVE  /\ Clients!Inv' /\ pc'[k] = "idle"
           /\ UNCHANGED <<session, csession, closed, closing>>
           /\ \A j \in Callers : j # k =>
                 pc'[j] = pc[j] /\ waits'[j] = waits[j] /\ target'[j] = target[j]
<1>1. /\ pc' = [pc EXCEPT ![k] = "idle"] /\ waits' = [waits EXCEPT ![k] = NoConnect]
      /\ target' = [target EXCEPT ![k] = NoSession]
      /\ UNCHANGED <<session, binding, pending, entries, closed, closing, cstate,
                     csession, transport>>
    BY DEF Clients!CallEnds, Clients!registry, Clients!connects
<1>2. pending' \in [Registrations -> Connects \cup {NoConnect}]
    BY <1>1 DEF Clients!Inv, Clients!TypeOK
<1> QED BY <1>1, <1>2, CallerLeavesInv

LEMMA ResumeInv ==
    ASSUME Clients!Inv, NEW k \in Callers, Clients!Resume(k)
    PROVE  /\ Clients!Inv' /\ UNCHANGED <<session, csession, closed, closing>>
           /\ pc[k] # "idle"
           /\ \/ pc'[k] = "idle"
              \/ waits'[k] = waits[k] /\ target'[k] = target[k]
           /\ \A j \in Callers : j # k =>
                 pc'[j] = pc[j] /\ waits'[j] = waits[j] /\ target'[j] = target[j]
<1>1. /\ Clients!TypeOK /\ pc[k] = "awaiting"
      /\ UNCHANGED <<session, binding, entries, closed, closing, cstate, csession,
                     transport>>
    BY DEF Clients!Inv, Clients!Resume, Clients!connects
<1>2. CASE /\ cstate[waits[k]] = "open"
           /\ pc' = [pc EXCEPT ![k] = "calling"]
           /\ UNCHANGED <<pending, waits, target>>
    <2>1. Clients!TypeOK'
        BY <1>1, <1>2 DEF Clients!TypeOK
    <2> QED
        BY <1>1, <1>2, <2>1
           DEF Clients!Inv, Clients!TypeOK, Clients!OneClient, Clients!RightClient,
               Clients!EntriesAreOpen, Clients!ReadyHasLiveClient,
               Clients!NoneOutlivesClose, Clients!TransportsAgree,
               Clients!TransportAgrees, Clients!MapAgrees, Clients!CallersAgree
<1>3. CASE /\ cstate[waits[k]] = "failed"
           /\ pending' = [pending EXCEPT ![target[k]] = NoConnect]
           /\ pc' = [pc EXCEPT ![k] = "idle"]
           /\ waits' = [waits EXCEPT ![k] = NoConnect]
           /\ target' = [target EXCEPT ![k] = NoSession]
    <2>1. waits[k] \in Connects /\ csession[waits[k]] = target[k]
        BY <1>1 DEF Clients!Inv, Clients!TypeOK, Clients!RightClient
    <2>2. session[target[k]] # "ready" /\ target[k] \in Registrations
        BY <1>3, <2>1 DEF Clients!Inv, Clients!TransportsAgree, Clients!TransportAgrees
    <2>3. /\ pending' \in [Registrations -> Connects \cup {NoConnect}]
          /\ \A s \in Registrations :
                pending'[s] = IF s = target[k] THEN NoConnect ELSE pending[s]
        BY <1>1, <1>3, Zenon DEF Clients!TypeOK
    <2>4. \A s \in Registrations : \/ pending'[s] = pending[s]
                                   \/ pending'[s] = NoConnect /\ session[s] # "ready"
        BY <2>2, <2>3
    <2>5. /\ pc' = [pc EXCEPT ![k] = "idle"] /\ waits' = [waits EXCEPT ![k] = NoConnect]
          /\ target' = [target EXCEPT ![k] = NoSession]
        BY <1>3
    <2>6. Clients!Inv' /\ pc'[k] = "idle"
        BY <1>1, <2>3, <2>4, <2>5, CallerLeavesInv
    <2>7. \A j \in Callers : j # k =>
            pc'[j] = pc[j] /\ waits'[j] = waits[j] /\ target'[j] = target[j]
        BY <1>1, <2>3, <2>4, <2>5, CallerLeavesInv
    <2> QED BY <1>1, <2>6, <2>7
<1> QED BY <1>2, <1>3 DEF Clients!Resume

\* close() has nothing left to drop when it is done.
LEMMA CloseEndsInv ==
    ASSUME Clients!Inv, Clients!CloseEnds
    PROVE  Clients!Inv' /\ closed'
<1>1. /\ Clients!TypeOK /\ closed /\ closing' = FALSE /\ entries' = {}
      /\ UNCHANGED <<session, binding, pending, closed, cstate, csession, transport, pc,
                     waits, target>>
    BY DEF Clients!Inv, Clients!CloseEnds, Clients!connects, Clients!callers
<1>2. entries = {}
    BY <1>1 DEF Clients!Inv, Clients!TypeOK, Clients!EntriesAreOpen,
                Clients!NoneOutlivesClose
<1>3. Clients!TypeOK'
    BY <1>1, <1>2 DEF Clients!TypeOK
<1> QED
    BY <1>1, <1>2, <1>3
       DEF Clients!Inv, Clients!OneClient, Clients!RightClient,
           Clients!EntriesAreOpen, Clients!ReadyHasLiveClient,
           Clients!NoneOutlivesClose, Clients!TransportsAgree,
           Clients!TransportAgrees, Clients!MapAgrees, Clients!CallersAgree

-----------------------------------------------------------------------------
(* Requests, credentials and the registry of sessions. *)

\* What the proofs about the requests need of the constants.
LEMMA Bounds ==
    /\ MaxRegistrations \in Nat /\ MaxGeneration \in Nat /\ 1 <= MaxGeneration
    /\ Routing!Sessions = Registrations /\ NoSession \notin Routing!Entries
BY ConstantsType DEF ConstantsType, Registrations, Routing!Sessions, Routing!Entries

LEMMA RoutingInit == ASSUME Routing!Init PROVE Routing!Inv
<1>1. Routing!TypeOK
    BY Bounds DEF Routing!Init, Routing!TypeOK, Routing!Answers, Routing!Idle
<1> QED
    BY <1>1, Bounds
       DEF Routing!Init, Routing!Inv, Routing!NeverStale, Routing!Answered,
           Routing!CredentialsAgree, Routing!AnswersAgree, Routing!Idle

\* A request that has begun is not idle, and its device is one.
LEMMA Requests ==
    ASSUME Routing!TypeOK, NEW k \in Callers
    PROVE  /\ req[k].pc \in {"idle", "device", "credential", "check", "answered"}
           /\ req[k] = Routing!Idle <=> req[k].pc = "idle"
           /\ req[k] # Routing!Idle => req[k] \in Routing!Begun
           /\ req[k] # Routing!Idle =>
                 /\ req[k].device \in Devices /\ req[k].since \in Nat
                 /\ req[k].credential \in 0..MaxGeneration
                 /\ req[k].result \in Routing!Answers /\ req[k].seen \in Routing!Answers
BY Bounds DEF Routing!TypeOK, Routing!Begun, Routing!Idle

LEMMA RotateInv ==
    ASSUME Routing!Inv, NEW d \in Devices, Routing!Rotate(d)
    PROVE  Routing!Inv'
<1>1. /\ Routing!TypeOK /\ latest[d] < MaxGeneration
      /\ latest' = [latest EXCEPT ![d] = latest[d] + 1]
      /\ active' = [active EXCEPT ![d] = latest[d] + 1]
      /\ UNCHANGED <<registered, recent, issued, session, req>>
    BY DEF Routing!Inv, Routing!TypeOK, Routing!Rotate, Routing!registry
<1>2. Routing!TypeOK'
    BY <1>1, Bounds DEF Routing!TypeOK
<1>3. \A e \in Devices :
         /\ latest[e] \in Nat /\ active[e] \in Nat
         /\ latest'[e] = IF e = d THEN latest[e] + 1 ELSE latest[e]
         /\ active'[e] = IF e = d THEN latest[e] + 1 ELSE active[e]
    BY <1>1, Bounds DEF Routing!TypeOK
<1>4. Routing!CredentialsAgree'
    BY <1>1, <1>3, Requests DEF Routing!Inv, Routing!CredentialsAgree
<1> QED
    BY <1>1, <1>2, <1>4
       DEF Routing!Inv, Routing!NeverStale, Routing!AnswersAgree, Routing!Answered

LEMMA RevokeInv ==
    ASSUME Routing!Inv, NEW d \in Devices, Routing!Revoke(d)
    PROVE  Routing!Inv'
<1>1. /\ Routing!TypeOK /\ active' = [active EXCEPT ![d] = 0]
      /\ UNCHANGED <<latest, registered, recent, issued, session, req>>
    BY DEF Routing!Inv, Routing!Revoke, Routing!registry
<1>2. Routing!TypeOK'
    BY <1>1, Bounds DEF Routing!TypeOK
<1>3. \A e \in Devices : active'[e] = IF e = d THEN 0 ELSE active[e]
    BY <1>1 DEF Routing!TypeOK
<1>4. Routing!CredentialsAgree'
    BY <1>1, <1>3, Requests DEF Routing!Inv, Routing!CredentialsAgree
<1> QED
    BY <1>1, <1>2, <1>4
       DEF Routing!Inv, Routing!NeverStale, Routing!AnswersAgree, Routing!Answered

\* Entries are records with an id and a generation.
LEMMA Entries ==
    \A x \in Routing!Answers :
        x # NoSession => /\ x.id \in Registrations /\ x.id \in Nat
                        /\ x.generation \in Nat /\ x \in Routing!Entries
BY Bounds DEF Routing!Answers, Routing!Entries, Registrations

\* The entry of a device is closed.
LEMMA CloseEntryLeaves ==
    ASSUME NEW d \in Devices, Routing!CloseEntry(d)
    PROVE  \A s \in Registrations : session'[s] = "ready" =>
              /\ session[s] = "ready"
              /\ registered[d] # NoSession => s # registered[d].id
BY Bounds DEF Routing!CloseEntry

LEMMA RegisterInv ==
    ASSUME Routing!Inv, NEW d \in Devices, Routing!Register(d)
    PROVE  Routing!Inv'
<1> DEFINE new == [id |-> issued + 1, generation |-> active[d]]
<1>1. /\ Routing!TypeOK /\ active[d] # 0 /\ issued < MaxRegistrations
      /\ issued' = issued + 1
      /\ registered' = [registered EXCEPT ![d] = new]
      /\ recent' = [recent EXCEPT ![d] = TRUE]
      /\ Routing!CloseEntry(d)
      /\ UNCHANGED <<latest, active, req>>
    BY DEF Routing!Inv, Routing!Register, Routing!store
<1>2. new \in Routing!Entries /\ new.id = issued + 1 /\ issued \in Nat
    BY <1>1, Bounds DEF Routing!TypeOK, Routing!Entries, Registrations
<1> HIDE DEF new
<1>3. new # NoSession /\ new \in Routing!Answers
    BY <1>2, Bounds DEF Routing!Answers
<1>4. \A e \in Devices : registered'[e] = IF e = d THEN new ELSE registered[e]
    BY <1>1 DEF Routing!TypeOK
<1>5. Routing!TypeOK'
    <2>1. /\ registered' \in [Devices -> Routing!Answers]
          /\ recent' \in [Devices -> BOOLEAN] /\ issued' \in 0..MaxRegistrations
        BY <1>1, <1>2, <1>3, Bounds DEF Routing!TypeOK
    <2>2. \A e \in Devices : recent'[e] => registered'[e] # NoSession
        BY <1>1, <1>3, <1>4 DEF Routing!TypeOK
    <2> QED BY <1>1, <2>1, <2>2 DEF Routing!TypeOK
<1>6. Routing!CredentialsAgree'
    <2>1. \A e \in Devices : registered'[e] # NoSession => registered'[e].id <= issued'
        <3> SUFFICES ASSUME NEW e \in Devices, registered'[e] # NoSession
                     PROVE  registered'[e].id <= issued'
            OBVIOUS
        <3>1. CASE e = d
            BY <1>1, <1>2, <1>4, <3>1
        <3>2. CASE e # d
            <4>1. registered[e].id \in Nat /\ registered[e].id <= issued
                BY <1>1, <1>4, <3>2, Entries
                   DEF Routing!Inv, Routing!TypeOK, Routing!CredentialsAgree
            <4> QED BY <1>1, <1>2, <1>4, <3>2, <4>1
        <3> QED BY <3>1, <3>2
    <2> QED BY <1>1, <2>1 DEF Routing!Inv, Routing!CredentialsAgree
<1>7. Routing!AnswersAgree'
    <2> SUFFICES ASSUME NEW r \in Callers, Routing!Answered(r)
                 PROVE  /\ req[r].result # NoSession /\ req[r].result.id <= issued'
                        /\ session'[req[r].result.id] = "ready" =>
                              /\ registered'[req[r].device] # NoSession
                              /\ registered'[req[r].device].id = req[r].result.id
        BY <1>1 DEF Routing!AnswersAgree, Routing!Answered
    <2>1. /\ req[r].result # NoSession /\ req[r].result.id <= issued
          /\ session[req[r].result.id] = "ready" =>
                /\ registered[req[r].device] # NoSession
                /\ registered[req[r].device].id = req[r].result.id
        BY DEF Routing!Inv, Routing!AnswersAgree
    <2>2. req[r].result.id \in Registrations /\ req[r].result.id \in Nat
          /\ req[r].device \in Devices
        BY <1>1, <2>1, Requests, Entries DEF Routing!Answered
    <2> QED BY <1>1, <1>2, <1>4, <2>1, <2>2, CloseEntryLeaves
<1> QED
    BY <1>1, <1>5, <1>6, <1>7 DEF Routing!Inv, Routing!NeverStale, Routing!Answered

LEMMA EvictGenerationInv ==
    ASSUME Routing!Inv, NEW d \in Devices, Routing!EvictGeneration(d)
    PROVE  Routing!Inv'
<1>1. /\ Routing!TypeOK /\ registered[d] # NoSession
      /\ registered' = [registered EXCEPT ![d] = NoSession]
      /\ recent' = [recent EXCEPT ![d] = FALSE]
      /\ Routing!CloseEntry(d)
      /\ UNCHANGED <<issued, latest, active, req>>
    BY DEF Routing!Inv, Routing!EvictGeneration, Routing!store
<1>2. \A e \in Devices : registered'[e] = IF e = d THEN NoSession ELSE registered[e]
    BY <1>1 DEF Routing!TypeOK
<1>3. Routing!TypeOK'
    <2>1. /\ registered' \in [Devices -> Routing!Answers]
          /\ recent' \in [Devices -> BOOLEAN]
        BY <1>1 DEF Routing!TypeOK, Routing!Answers
    <2>2. \A e \in Devices : recent'[e] => registered'[e] # NoSession
        BY <1>1, <1>2 DEF Routing!TypeOK
    <2> QED BY <1>1, <2>1, <2>2 DEF Routing!TypeOK
<1>4. Routing!CredentialsAgree'
    BY <1>1, <1>2 DEF Routing!Inv, Routing!CredentialsAgree
<1>5. Routing!AnswersAgree'
    <2> SUFFICES ASSUME NEW r \in Callers, Routing!Answered(r)
                 PROVE  /\ req[r].result # NoSession /\ req[r].result.id <= issued
                        /\ session'[req[r].result.id] = "ready" =>
                              /\ registered'[req[r].device] # NoSession
                              /\ registered'[req[r].device].id = req[r].result.id
        BY <1>1 DEF Routing!AnswersAgree, Routing!Answered
    <2>1. /\ req[r].result # NoSession /\ req[r].result.id <= issued
          /\ session[req[r].result.id] = "ready" =>
                /\ registered[req[r].device] # NoSession
                /\ registered[req[r].device].id = req[r].result.id
        BY DEF Routing!Inv, Routing!AnswersAgree
    <2>2. req[r].result.id \in Registrations /\ req[r].device \in Devices
        BY <1>1, <2>1, Requests, Entries DEF Routing!Answered
    <2> QED BY <1>1, <1>2, <2>1, <2>2, CloseEntryLeaves
<1> QED
    BY <1>1, <1>3, <1>4, <1>5 DEF Routing!Inv, Routing!NeverStale, Routing!Answered

LEMMA LapseInv ==
    ASSUME Routing!Inv, NEW d \in Devices, Routing!Lapse(d)
    PROVE  Routing!Inv'
<1>1. /\ Routing!TypeOK /\ recent' = [recent EXCEPT ![d] = FALSE]
      /\ UNCHANGED <<registered, issued, latest, active, session, req>>
    BY DEF Routing!Inv, Routing!Lapse, Routing!store
<1>2. Routing!TypeOK'
    BY <1>1 DEF Routing!TypeOK
<1> QED
    BY <1>1, <1>2 DEF Routing!Inv, Routing!NeverStale, Routing!CredentialsAgree,
                      Routing!AnswersAgree, Routing!Answered

\* Sessions leave, and their entries with them.
LEMMA SessionsGoInv ==
    ASSUME Routing!Inv, UNCHANGED <<latest, active, req>>,
           \/ UNCHANGED <<registered, recent, issued>>
           \/ \E s \in Registrations : Routing!EvictSession(s) /\ session'[s] # "ready",
           \A s \in Registrations : session'[s] = "ready" => session[s] = "ready"
    PROVE  Routing!Inv'
<1>1. Routing!TypeOK /\ issued' = issued
    BY DEF Routing!Inv, Routing!EvictSession
<1>2. \A d \in Devices :
         \/ registered'[d] = registered[d]
         \/ /\ registered'[d] = NoSession /\ registered[d] # NoSession
            /\ session'[registered[d].id] # "ready"
    BY DEF Routing!EvictSession
<1>3. Routing!TypeOK'
    <2>1. CASE UNCHANGED <<registered, recent, issued>>
        BY <1>1, <2>1 DEF Routing!TypeOK
    <2>2. ASSUME NEW s \in Registrations, Routing!EvictSession(s)
          PROVE  /\ registered' \in [Devices -> Routing!Answers]
                 /\ recent' \in [Devices -> BOOLEAN]
                 /\ \A d \in Devices : recent'[d] => registered'[d] # NoSession
        BY <1>1, <2>2 DEF Routing!TypeOK, Routing!EvictSession, Routing!Answers
    <2> QED BY <1>1, <2>1, <2>2 DEF Routing!TypeOK
<1>4. Routing!CredentialsAgree'
    BY <1>1, <1>2 DEF Routing!Inv, Routing!CredentialsAgree
<1>5. Routing!AnswersAgree'
    <2> SUFFICES ASSUME NEW r \in Callers, Routing!Answered(r)
                 PROVE  /\ req[r].result # NoSession /\ req[r].result.id <= issued
                        /\ session'[req[r].result.id] = "ready" =>
                              /\ registered'[req[r].device] # NoSession
                              /\ registered'[req[r].device].id = req[r].result.id
        BY <1>1 DEF Routing!AnswersAgree, Routing!Answered
    <2>1. /\ req[r].result # NoSession /\ req[r].result.id <= issued
          /\ session[req[r].result.id] = "ready" =>
                /\ registered[req[r].device] # NoSession
                /\ registered[req[r].device].id = req[r].result.id
        BY DEF Routing!Inv, Routing!AnswersAgree
    <2>2. req[r].result.id \in Registrations /\ req[r].device \in Devices
        BY <1>1, <2>1, Requests, Entries DEF Routing!Answered
    <2> QED BY <1>2, <2>1, <2>2
<1> QED
    BY <1>1, <1>3, <1>4, <1>5 DEF Routing!Inv, Routing!NeverStale, Routing!Answered

\* What the invariant says of a request that is in the state x.
Sound(x) ==
    /\ x.since <= latest[x.device] + 1
    /\ active[x.device] # 0 => x.since <= active[x.device]
    /\ x.pc = "check" => x.credential = 0 \/ x.credential >= x.since
    /\ x.pc \in {"credential", "check"} /\ x.kind = "snapshot" => x.seen # NoSession
    /\ x.pc = "answered" =>
          /\ x.result # NoSession /\ x.result.id <= issued
          /\ x.result.generation >= x.since
          /\ session[x.result.id] = "ready" =>
                /\ registered[x.device] # NoSession
                /\ registered[x.device].id = x.result.id

LEMMA SoundRequests ==
    ASSUME Routing!Inv, NEW k \in Callers, req[k] # Routing!Idle
    PROVE  Sound(req[k])
BY Requests
   DEF Sound, Routing!Inv, Routing!TypeOK, Routing!NeverStale, Routing!CredentialsAgree,
       Routing!AnswersAgree, Routing!Answered

\* A request goes on to the state x.
LEMMA RequestInv ==
    ASSUME Routing!Inv, NEW k \in Callers, NEW x \in {Routing!Idle} \cup Routing!Begun,
           x # Routing!Idle => Sound(x),
           req' = [req EXCEPT ![k] = x],
           UNCHANGED <<latest, active, registered, recent, issued, session>>
    PROVE  Routing!Inv'
<1>1. Routing!TypeOK /\ req' \in [Callers -> {Routing!Idle} \cup Routing!Begun]
    BY DEF Routing!Inv, Routing!TypeOK
<1>2. \A r \in Callers : req'[r] = IF r = k THEN x ELSE req[r]
    BY <1>1 DEF Routing!TypeOK
<1>3. \A r \in Callers : req'[r] # Routing!Idle => Sound(req'[r])
    BY <1>2, SoundRequests
<1>4. \A r \in Callers : req'[r].pc # "idle" => req'[r] # Routing!Idle
    BY DEF Routing!Idle
<1>5. Routing!TypeOK'
    BY <1>1, <1>3, <1>4 DEF Routing!TypeOK, Sound
<1>6. Routing!CredentialsAgree'
    BY <1>1, <1>3 DEF Routing!Inv, Routing!CredentialsAgree, Sound
<1>7. Routing!AnswersAgree' /\ Routing!NeverStale'
    BY <1>1, <1>3, <1>4
       DEF Routing!AnswersAgree, Routing!NeverStale, Routing!Answered, Sound
<1> QED BY <1>5, <1>6, <1>7 DEF Routing!Inv

LEMMA BeginInv ==
    ASSUME Routing!Inv, NEW k \in Callers, NEW kind \in {"resolve", "snapshot"},
           NEW d \in Devices, NEW o \in Owners, Routing!Begin(k, kind, d, o)
    PROVE  Routing!Inv'
<1> DEFINE since == IF active[d] # 0 THEN latest[d] ELSE latest[d] + 1
           x == [pc |-> "device", kind |-> kind, device |-> d, owner |-> o,
                 seen |-> NoSession, credential |-> 0, result |-> NoSession,
                 since |-> since]
<1>1. /\ req' = [req EXCEPT ![k] = x]
      /\ UNCHANGED <<latest, active, registered, recent, issued, session>>
    BY DEF Routing!Begin, Routing!store, Routing!registry
<1>2. /\ latest[d] \in 1..MaxGeneration /\ active[d] \in 0..MaxGeneration
      /\ active[d] \in {0, latest[d]}
    BY DEF Routing!Inv, Routing!TypeOK, Routing!CredentialsAgree
<1>3. /\ since \in 1..(MaxGeneration + 1) /\ since <= latest[d] + 1
      /\ active[d] # 0 => since <= active[d]
    BY <1>2, Bounds
<1> HIDE DEF since
<1>4. x \in Routing!Begun
    BY <1>3, Bounds DEF Routing!Begun, Routing!Answers
<1>5. Sound(x)
    BY <1>3 DEF Sound
<1> HIDE DEF x
<1> QED BY <1>1, <1>4, <1>5, RequestInv

LEMMA ReadDeviceInv ==
    ASSUME Routing!Inv, NEW k \in Callers, Routing!ReadDevice(k)
    PROVE  Routing!Inv'
<1> DEFINE entry == Routing!GetActive(req[k].device)
           goesOn == /\ OwnerOf[req[k].device] = req[k].owner
                     /\ req[k].kind = "resolve" \/ entry # NoSession
           next == [req[k] EXCEPT !.pc = "credential",
                       !.seen = IF req[k].kind = "snapshot" THEN entry ELSE NoSession]
           x == IF goesOn THEN next ELSE Routing!Idle
<1>1. /\ Routing!TypeOK /\ req[k].pc = "device"
      /\ req' = [req EXCEPT ![k] = x]
      /\ UNCHANGED <<latest, active, registered, recent, issued, session>>
    BY DEF Routing!Inv, Routing!ReadDevice, Routing!Proceed, Routing!store,
           Routing!registry
<1>2. req[k] # Routing!Idle /\ req[k] \in Routing!Begun /\ Sound(req[k])
    BY <1>1, Requests, SoundRequests
<1>3. entry \in Routing!Answers
    BY <1>1, <1>2, Requests DEF Routing!GetActive, Routing!TypeOK, Routing!Answers
<1> HIDE DEF entry
<1>4. next \in Routing!Begun
    BY <1>2, <1>3 DEF Routing!Begun, Routing!Answers
<1>5. goesOn => Sound(next)
    BY <1>2 DEF Sound, Routing!Begun
<1> HIDE DEF goesOn, next
<1>6. x \in {Routing!Idle} \cup Routing!Begun /\ (x # Routing!Idle => Sound(x))
    BY <1>4, <1>5
<1> HIDE DEF x
<1> QED BY <1>1, <1>6, RequestInv

LEMMA ReadCredentialInv ==
    ASSUME Routing!Inv, NEW k \in Callers, Routing!ReadCredential(k)
    PROVE  Routing!Inv'
<1> DEFINE x == [req[k] EXCEPT !.credential = active[req[k].device], !.pc = "check"]
<1>1. /\ Routing!TypeOK /\ req[k].pc = "credential"
      /\ req' = [req EXCEPT ![k] = x]
      /\ UNCHANGED <<latest, active, registered, recent, issued, session>>
    BY DEF Routing!Inv, Routing!TypeOK, Routing!ReadCredential, Routing!store,
           Routing!registry
<1>2. req[k] # Routing!Idle /\ req[k] \in Routing!Begun /\ Sound(req[k])
    BY <1>1, Requests, SoundRequests
<1>3. active[req[k].device] \in 0..MaxGeneration
    BY <1>1, <1>2 DEF Routing!TypeOK, Routing!Begun
<1>4. x \in Routing!Begun
    BY <1>2, <1>3 DEF Routing!Begun
<1>5. Sound(x)
    BY <1>1, <1>2, <1>3, Bounds DEF Sound, Routing!Begun
<1> HIDE DEF x
<1> QED BY <1>1, <1>4, <1>5, RequestInv

\* What the registry has for a device, when it has something.
LEMMA GetActiveIsLive ==
    ASSUME NEW d \in Devices, Routing!GetActive(d) # NoSession
    PROVE  /\ Routing!GetActive(d) = registered[d] /\ registered[d] # NoSession
           /\ session[registered[d].id] = "ready"
BY DEF Routing!GetActive

\* What Check makes of a request: an answer, or nothing.
LEMMA CheckAnswers ==
    ASSUME Routing!Inv, NEW k \in Callers, Routing!Check(k)
    PROVE  /\ Routing!Inv' /\ req[k].pc = "check"
           /\ \A r \in Callers : r # k => req'[r] = req[r]
           /\ req'[k] # Routing!Idle =>
                 /\ req'[k].result = Routing!GetActive(req[k].device)
                 /\ req'[k].result.generation = req[k].credential
<1> DEFINE current == Routing!GetActive(req[k].device)
           goesOn == /\ current # NoSession
                     /\ req[k].kind = "snapshot" => current = req[k].seen
                     /\ Routing!SameGeneration(current, req[k].credential)
           next == [req[k] EXCEPT !.pc = "answered", !.result = current,
                       !.seen = NoSession, !.credential = 0]
           x == IF goesOn THEN next ELSE Routing!Idle
<1>1. /\ Routing!TypeOK /\ req[k].pc = "check"
      /\ req' = [req EXCEPT ![k] = x]
      /\ UNCHANGED <<latest, active, registered, recent, issued, session>>
    BY DEF Routing!Inv, Routing!Check, Routing!Proceed, Routing!Answer, Routing!store,
           Routing!registry
<1>2. /\ req[k] # Routing!Idle /\ req[k] \in Routing!Begun /\ Sound(req[k])
      /\ req[k].device \in Devices /\ req[k].credential \in 0..MaxGeneration
    BY <1>1, Requests, SoundRequests
<1>3. current \in Routing!Answers
    BY <1>1, <1>2 DEF Routing!GetActive, Routing!TypeOK, Routing!Answers
<1>4. current # NoSession =>
         current = registered[req[k].device] /\ registered[req[k].device] # NoSession
    BY <1>2, GetActiveIsLive
<1>5. current # NoSession => current.id <= issued
    BY <1>2, <1>4 DEF Routing!Inv, Routing!CredentialsAgree
<1> HIDE DEF current
<1>6. next \in Routing!Begun
    <2>1. NoSession \in Routing!Answers /\ 0 \in 0..MaxGeneration
        BY Bounds DEF Routing!Answers
    <2> QED BY <1>2, <1>3, <2>1 DEF Routing!Begun
<1>7. goesOn => current.generation = req[k].credential /\ req[k].credential >= req[k].since
    BY <1>1, <1>2 DEF Routing!SameGeneration, Sound
<1>8. /\ next.pc = "answered" /\ next.result = current
      /\ next.since = req[k].since /\ next.device = req[k].device
    BY <1>2 DEF Routing!Begun
<1>9. goesOn => Sound(next)
    BY <1>2, <1>4, <1>5, <1>7, <1>8 DEF Sound
<1>10. next.result = current
    BY <1>8
<1> HIDE DEF next
<1>11. /\ x \in {Routing!Idle} \cup Routing!Begun /\ (x # Routing!Idle => Sound(x))
       /\ x # Routing!Idle => x.result = current /\ current.generation = req[k].credential
    BY <1>6, <1>7, <1>9, <1>10
<1> HIDE DEF x
<1>12. \A r \in Callers : req'[r] = IF r = k THEN x ELSE req[r]
    BY <1>1 DEF Routing!TypeOK
<1>13. Routing!Inv'
    BY <1>1, <1>11, RequestInv
<1> QED BY <1>1, <1>11, <1>12, <1>13 DEF current

LEMMA ReturnInv ==
    ASSUME Routing!Inv, NEW k \in Callers, Routing!Return(k),
           UNCHANGED <<latest, active, registered, recent, issued, session>>
    PROVE  /\ Routing!Inv' /\ req'[k] = Routing!Idle
           /\ \A r \in Callers : r # k => req'[r] = req[r]
<1>1. Routing!TypeOK /\ req' = [req EXCEPT ![k] = Routing!Idle]
    BY DEF Routing!Inv, Routing!Return
<1> QED BY <1>1, RequestInv DEF Routing!TypeOK

-----------------------------------------------------------------------------
(* The composition: one lemma for each group of actions. *)

\* The credentials, the registry and the routed calls of the others.
LEMMA StoreInv ==
    ASSUME Inv, StoreActs, UNCHANGED catalog
    PROVE  Inv'
<1>1. /\ Routing!Inv /\ Clients!Inv /\ Clients!TypeOK
      /\ UNCHANGED clients /\ UNCHANGED req
    BY DEF Inv, StoreActs, Clients!Inv, Routing!Rotate, Routing!Revoke, Routing!Lapse,
           Routing!Register, Routing!EvictGeneration
<1>2. Routing!Inv'
    BY <1>1, RotateInv, RevokeInv, LapseInv, RegisterInv, EvictGenerationInv
       DEF StoreActs
<1>3. /\ session' \in [Registrations -> {"ready", "closing", "closed"}]
      /\ \A s \in Registrations : session'[s] = "ready" => session[s] = "ready"
    <2>1. CASE session' = session
        BY <1>1, <2>1 DEF Clients!TypeOK
    <2>2. ASSUME NEW d \in Devices, Routing!CloseEntry(d)
          PROVE  /\ session' \in [Registrations -> {"ready", "closing", "closed"}]
                 /\ \A s \in Registrations : session'[s] = "ready" => session[s] = "ready"
        BY <1>1, <2>2, Bounds DEF Clients!TypeOK, Routing!CloseEntry
    <2> QED BY <2>1, <2>2
            DEF StoreActs, Routing!Rotate, Routing!Revoke, Routing!Lapse,
                Routing!Register, Routing!EvictGeneration
<1>4. Clients!Inv'
    BY <1>1, <1>3, SessionsLeaveInv
<1>5. RightClient'
    BY <1>1 DEF Inv, RightClient, Routing!Answered, clients
<1>6. CatalogAgrees'
    <2>1. /\ issued' \in Nat /\ issued \in Nat
          /\ \/ /\ issued' = issued
                /\ \A d \in Devices : registered'[d] \in {registered[d], NoSession}
             \/ /\ issued' = issued + 1
                /\ \A d \in Devices : \/ registered'[d] = registered[d]
                                      \/ registered'[d].id = issued + 1
        BY <1>1, <1>2, Bounds
           DEF StoreActs, Routing!Inv, Routing!TypeOK, Routing!Rotate, Routing!Revoke,
               Routing!Lapse, Routing!Register, Routing!EvictGeneration,
               Routing!registry
    <2> QED BY <1>1, <2>1 DEF Inv, CatalogAgrees, NoCatalog, clients
<1> QED BY <1>2, <1>4, <1>5, <1>6 DEF Inv

\* Nothing but sessions and clients changes.
LEMMA ClientsOnly ==
    ASSUME Inv, Clients!Inv', UNCHANGED <<routing, catalog, csession, pc, waits>>,
           \A s \in Registrations : session'[s] = "ready" => session[s] = "ready",
           closing' \/ UNCHANGED <<closed, closing>>
    PROVE  Inv'
<1>1. UNCHANGED <<latest, active, registered, recent, issued, req>>
    BY DEF routing
<1>2. Routing!Inv'
    BY <1>1, SessionsGoInv DEF Inv
<1>3. RightClient' /\ CatalogAgrees'
    BY <1>1 DEF Inv, RightClient, Routing!Answered, CatalogAgrees, NoCatalog
<1> QED BY <1>2, <1>3 DEF Inv

\* The connects, close() and the sessions that the gateway closes.
LEMMA ClientsInv ==
    ASSUME Inv, UNCHANGED catalog,
           \/ \E c \in Connects : ConnectEnds(c) \/ TransportFails(c)
           \/ \E s \in Registrations : SessionLeaves(s)
           \/ Close
    PROVE  Inv'
<1>1. Clients!Inv /\ Clients!TypeOK /\ UNCHANGED routing
    BY DEF Inv, Clients!Inv, ConnectEnds, TransportFails, SessionLeaves, Close
<1>2. Clients!Inv'
    BY <1>1, ConnectedInv, ConnectFailsInv, TransportFailsInv, SessionLeavesInv, CloseInv
       DEF ConnectEnds, TransportFails, SessionLeaves, Close
<1>3. UNCHANGED <<csession, pc, waits>> /\ (closing' \/ UNCHANGED <<closed, closing>>)
    BY DEF ConnectEnds, TransportFails, SessionLeaves, Close, Clients!Connected,
           Clients!ConnectFails, Clients!TransportFails, Clients!SessionLeaves,
           Clients!Close, Clients!callers, Clients!registry, Clients!connects
<1>4. \A s \in Registrations : session'[s] = "ready" => session[s] = "ready"
    BY <1>1 DEF ConnectEnds, TransportFails, SessionLeaves, Close, Clients!Connected,
           Clients!ConnectFails, Clients!TransportFails, Clients!SessionLeaves,
           Clients!Close, Clients!CloseTransports, Clients!TypeOK
<1> QED BY <1>1, <1>2, <1>3, <1>4, ClientsOnly

LEMMA ClosesInv ==
    ASSUME Inv, NEW s \in Registrations, SessionCloses(s), UNCHANGED catalog
    PROVE  Inv'
<1>1. /\ Clients!Inv /\ Clients!TypeOK /\ Clients!SessionCloses(s)
      /\ Routing!Inv /\ Routing!EvictSession(s)
      /\ UNCHANGED <<latest, active, req>>
    BY DEF Inv, Clients!Inv, SessionCloses
<1>2. /\ UNCHANGED <<csession, pc, waits, closed, closing>>
      /\ session'[s] # "ready"
      /\ \A t \in Registrations : session'[t] = "ready" => session[t] = "ready"
    BY <1>1 DEF Clients!SessionCloses, Clients!callers, Clients!TypeOK
<1>3. Routing!Inv' /\ Clients!Inv'
    BY <1>1, <1>2, SessionsGoInv, SessionClosesInv
<1>4. /\ issued' = issued
      /\ \A d \in Devices : registered'[d] \in {registered[d], NoSession}
    BY <1>1 DEF Routing!EvictSession
<1>5. RightClient' /\ CatalogAgrees'
    BY <1>1, <1>2, <1>4
       DEF Inv, RightClient, Routing!Answered, CatalogAgrees, NoCatalog
<1> QED BY <1>3, <1>5 DEF Inv

\* A request goes on; its caller has no client yet.
LEMMA RouteInv ==
    ASSUME Inv, NEW k \in Callers, Begin(k) \/ Route(k) \/ Return(k), UNCHANGED catalog
    PROVE  Inv'
<1>1. /\ Routing!Inv /\ Routing!TypeOK /\ Clients!Inv /\ Clients!TypeOK
      /\ UNCHANGED <<latest, active, registered, recent, issued, session, clients>>
    BY DEF Inv, Routing!Inv, Clients!Inv, Begin, Route, Return, Routing!Begin,
           Routing!ReadDevice, Routing!ReadCredential, Routing!Check, Routing!store,
           Routing!registry
<1>2. Routing!Inv' /\ \A r \in Callers : r # k => req'[r] = req[r]
    <2>1. CASE Begin(k)
        BY <1>1, <2>1, BeginInv DEF Begin, Routing!Begin, Routing!TypeOK
    <2>2. CASE Routing!ReadDevice(k)
        BY <1>1, <2>2, ReadDeviceInv
           DEF Routing!ReadDevice, Routing!Proceed, Routing!TypeOK
    <2>3. CASE Routing!ReadCredential(k)
        BY <1>1, <2>3, ReadCredentialInv DEF Routing!ReadCredential, Routing!TypeOK
    <2>4. CASE Routing!Check(k)
        BY <1>1, <2>4, CheckAnswers
    <2>5. CASE Return(k)
        BY <1>1, <2>5, ReturnInv DEF Return
    <2> QED BY <2>1, <2>2, <2>3, <2>4, <2>5 DEF Route
<1>3. pc[k] = "idle"
    <2>1. CASE Return(k)
        BY <2>1 DEF Return, Routed
    <2>2. CASE Begin(k)
        BY <2>2 DEF Inv, RightClient, Begin, Routing!Begin, Routing!Answered, Routing!Idle
    <2>3. CASE Route(k)
        BY <2>3 DEF Inv, RightClient, Route, Routing!Answered, Routing!ReadDevice,
                    Routing!ReadCredential, Routing!Check
    <2> QED BY <2>1, <2>2, <2>3
<1>4. Clients!Inv'
    BY <1>1, SessionsLeaveInv DEF Clients!TypeOK
<1>5. RightClient' /\ CatalogAgrees'
    BY <1>1, <1>2, <1>3
       DEF Inv, RightClient, Routing!Answered, CatalogAgrees, NoCatalog, clients
<1> QED BY <1>2, <1>4, <1>5 DEF Inv

LEMMA GetClientInv ==
    ASSUME Inv, NEW k \in Callers, GetClient(k), UNCHANGED catalog
    PROVE  Inv'
<1> DEFINE s == req[k].result.id
<1>1. /\ Routing!Inv /\ Routing!TypeOK /\ Clients!Inv /\ Clients!TypeOK
      /\ Routing!Answered(k) /\ pc[k] = "idle" /\ Clients!GetEntry(k, s)
      /\ UNCHANGED <<latest, active, registered, recent, issued, req, session, closed,
                     closing>>
    BY DEF Inv, Routing!Inv, Clients!Inv, GetClient, Routed, Clients!GetEntry, routing
<1>2. s \in Registrations
    BY <1>1, Requests, Entries DEF Routing!Inv, Routing!AnswersAgree, Routing!Answered
<1>3. /\ Clients!Inv' /\ Clients!TypeOK'
      /\ pc'[k] = "awaiting" /\ target'[k] = s
      /\ \A j \in Callers : j # k /\ pc[j] # "idle" =>
            waits'[j] = waits[j] /\ csession'[waits[j]] = csession[waits[j]]
      /\ \A j \in Callers : j # k => pc'[j] = pc[j]
    BY <1>1, <1>2, GetEntryInv DEF Clients!Inv, Clients!TypeOK
<1>4. csession'[waits'[k]] = s
    BY <1>3 DEF Clients!Inv, Clients!RightClient
<1>5. RightClient'
    BY <1>1, <1>3, <1>4 DEF Inv, RightClient, Routing!Answered
<1>6. Routing!Inv' /\ CatalogAgrees'
    BY <1>1, SessionsGoInv DEF Inv, CatalogAgrees, NoCatalog
<1> QED BY <1>3, <1>5, <1>6 DEF Inv

\* The tools are those of the entry of their device.
LEMMA ListsOfEntry ==
    ASSUME Inv, NEW k \in Callers, ListEnds(k)
    PROVE  /\ req[k].device \in Devices /\ target[k] \in Nat /\ target[k] <= issued
           /\ registered[req[k].device] # NoSession
           /\ registered[req[k].device].id = target[k]
           /\ ~closed
<1>1. /\ Routing!TypeOK /\ pc[k] = "calling" /\ transport[waits[k]] = "ready"
      /\ session[target[k]] = "ready"
    BY DEF Inv, Routing!Inv, ListEnds
<1>2. /\ waits[k] \in Connects /\ cstate[waits[k]] = "open"
      /\ Routing!Answered(k) /\ target[k] = req[k].result.id
    BY <1>1 DEF Inv, Clients!Inv, Clients!TypeOK, Clients!CallersAgree,
                Clients!RightClient, RightClient
<1>3. ~closed
    BY <1>1, <1>2 DEF Inv, Clients!Inv, Clients!NoneOutlivesClose
<1> QED BY <1>1, <1>2, <1>3, Requests, Entries
        DEF Inv, Routing!Inv, Routing!AnswersAgree, Routing!Answered

\* A caller goes on to its call, or is done.
LEMMA CallerInv ==
    ASSUME Inv, NEW k \in Callers,
           \/ Resume(k) /\ UNCHANGED catalog
           \/ CallEnds(k)
           \/ ListEnds(k)
    PROVE  Inv'
<1>1. /\ Routing!Inv /\ Routing!TypeOK /\ Clients!Inv /\ Clients!TypeOK
      /\ UNCHANGED <<latest, active, registered, recent, issued>>
      /\ Clients!Resume(k) \/ Clients!CallEnds(k)
    BY DEF Inv, Routing!Inv, Clients!Inv, Resume, CallEnds, ListEnds
<1>2. /\ Clients!Inv' /\ UNCHANGED <<session, csession, closed, closing>>
      /\ pc[k] # "idle"
      /\ pc'[k] = "idle" \/ waits'[k] = waits[k]
      /\ \A j \in Callers : j # k => pc'[j] = pc[j] /\ waits'[j] = waits[j]
    BY <1>1, CallEndsInv, ResumeInv DEF Clients!CallEnds
<1>3. /\ Routing!Inv' /\ \A r \in Callers : r # k => req'[r] = req[r]
      /\ pc'[k] = "idle" \/ req' = req
    <2>1. CASE req' = req
        BY <1>1, <1>2, <2>1, SessionsGoInv
    <2>2. CASE Routing!Return(k) /\ pc'[k] = "idle"
        BY <1>1, <1>2, <2>2, ReturnInv
    <2>3. Clients!CallEnds(k) => pc'[k] = "idle"
        BY <1>1, CallEndsInv
    <2> QED BY <2>1, <2>2, <2>3 DEF Resume, CallEnds, ListEnds
<1>4. RightClient'
    BY <1>2, <1>3 DEF Inv, RightClient, Routing!Answered
<1>5. CASE catalog' = catalog
    BY <1>1, <1>2, <1>3, <1>4, <1>5 DEF Inv, CatalogAgrees, NoCatalog
<1>6. CASE ListEnds(k)
    <2> DEFINE d == req[k].device
               s == target[k]
    <2>1. catalog' = [catalog EXCEPT ![d] = s]
        BY <1>6 DEF ListEnds
    <2>2. /\ d \in Devices /\ s \in Nat /\ s <= issued /\ ~closed
          /\ registered[d] # NoSession /\ registered[d].id = s
        BY <1>6, ListsOfEntry
    <2>3. catalog \in [Devices -> 0..issued] /\ issued \in Nat
        BY <1>1, Bounds DEF Inv, CatalogAgrees, Routing!TypeOK
    <2> HIDE DEF d, s
    <2>4. /\ catalog' \in [Devices -> 0..issued]
          /\ \A e \in Devices : catalog'[e] = IF e = d THEN s ELSE catalog[e]
        BY <2>1, <2>2, <2>3
    <2>5. CatalogAgrees'
        BY <1>1, <1>2, <2>2, <2>4 DEF Inv, CatalogAgrees
    <2> QED BY <1>2, <1>3, <1>4, <2>5 DEF Inv
<1> QED BY <1>5, <1>6 DEF CallEnds

LEMMA ClosedInv ==
    ASSUME Inv, CloseEnds
    PROVE  Inv'
<1>1. /\ Routing!Inv /\ Clients!Inv /\ Clients!CloseEnds
      /\ UNCHANGED <<latest, active, registered, recent, issued, req, session, csession,
                     pc, waits>>
      /\ catalog' = NoCatalog
    BY DEF Inv, CloseEnds, Clients!CloseEnds, Clients!connects, Clients!callers, routing
<1>2. Clients!Inv' /\ Routing!Inv'
    BY <1>1, CloseEndsInv, SessionsGoInv
<1>3. RightClient'
    BY <1>1 DEF Inv, RightClient, Routing!Answered
<1>4. CatalogAgrees'
    <2>1. /\ issued \in Nat
          /\ \A d \in Devices : registered[d] # NoSession => registered[d].id \in Nat
        BY <1>1, Bounds, Entries DEF Routing!Inv, Routing!TypeOK
    <2> QED BY <1>1, <2>1 DEF CatalogAgrees, NoCatalog
<1> QED BY <1>2, <1>3, <1>4 DEF Inv

-----------------------------------------------------------------------------
(* Single steps. *)

\* A request is answered by Check and by nothing else.
LEMMA OnlyCheckAnswers ==
    ASSUME Inv, [Next]_vars, NEW r \in Callers,
           Routing!Answered(r)', ~Routing!Answered(r)
    PROVE  Routing!Check(r)
<1>1. Routing!TypeOK /\ req'[r] # req[r] /\ req'[r].pc = "answered"
    BY DEF Inv, Routing!Inv, Routing!Answered
<1>2. ASSUME NEW k \in Callers, Routing!Return(k) PROVE FALSE
    BY <1>1, <1>2 DEF Routing!Return, Routing!TypeOK, Routing!Idle
<1>3. ASSUME NEW k \in Callers, Begin(k) PROVE FALSE
    BY <1>1, <1>3 DEF Begin, Routing!Begin, Routing!TypeOK
<1>4. ASSUME NEW k \in Callers, Routing!ReadDevice(k) PROVE FALSE
    <2>1. k = r /\ req[r] \in Routing!Begun
        BY <1>1, <1>4, Requests DEF Routing!ReadDevice, Routing!Proceed, Routing!TypeOK
    <2>2. req'[r].pc \in {"idle", "credential"}
        BY <1>1, <1>4, <2>1
           DEF Routing!ReadDevice, Routing!Proceed, Routing!TypeOK, Routing!Idle,
               Routing!Begun
    <2> QED BY <1>1, <2>2
<1>5. ASSUME NEW k \in Callers, Routing!ReadCredential(k) PROVE FALSE
    <2>1. k = r /\ req[r] \in Routing!Begun
        BY <1>1, <1>5, Requests DEF Routing!ReadCredential, Routing!TypeOK
    <2>2. req'[r].pc = "check"
        BY <1>1, <1>5, <2>1 DEF Routing!ReadCredential, Routing!TypeOK, Routing!Begun
    <2> QED BY <1>1, <2>2
<1>6. ASSUME NEW k \in Callers, Routing!Check(k) PROVE k = r
    BY <1>1, <1>6, CheckAnswers DEF Inv
<1>7. \E k \in Callers : \/ Begin(k) \/ Routing!Return(k) \/ Routing!ReadDevice(k)
                         \/ Routing!ReadCredential(k) \/ Routing!Check(k)
    BY <1>1
       DEF Next, vars, routing, StoreActs, Routing!Rotate, Routing!Revoke, Routing!Lapse,
           Routing!Register, Routing!EvictGeneration, SessionLeaves, SessionCloses,
           Route, GetClient, Return, Resume, ConnectEnds, TransportFails, Close,
           CallEnds, ListEnds, CloseEnds
<1> QED BY <1>2, <1>3, <1>4, <1>5, <1>6, <1>7

-----------------------------------------------------------------------------
(* The specification. *)

LEMMA InitInv == ASSUME Init PROVE Inv
<1>1. Routing!Inv /\ Clients!Inv
    BY RoutingInit, ClientsInit DEF Init
<1>2. RightClient
    BY DEF Init, Clients!Init, RightClient
<1>3. CatalogAgrees
    BY DEF Init, Clients!Init, Routing!Init, CatalogAgrees, NoCatalog
<1> QED BY <1>1, <1>2, <1>3 DEF Inv

LEMMA NextInv == ASSUME Inv, [Next]_vars PROVE Inv'
<1>1. CASE StoreActs /\ UNCHANGED catalog
    BY <1>1, StoreInv
<1>2. CASE /\ \E s \in Registrations : SessionLeaves(s) \/ SessionCloses(s)
           /\ UNCHANGED catalog
    BY <1>2, ClientsInv, ClosesInv
<1>3. CASE /\ \E k \in Callers : \/ Begin(k) \/ Route(k) \/ GetClient(k)
                                \/ Return(k) \/ Resume(k)
           /\ UNCHANGED catalog
    BY <1>3, RouteInv, GetClientInv, CallerInv
<1>4. CASE /\ \E c \in Connects : ConnectEnds(c) \/ TransportFails(c)
           /\ UNCHANGED catalog
    BY <1>4, ClientsInv
<1>5. CASE Close /\ UNCHANGED catalog
    BY <1>5, ClientsInv
<1>6. CASE \E k \in Callers : CallEnds(k) \/ ListEnds(k)
    BY <1>6, CallerInv
<1>7. CASE CloseEnds
    BY <1>7, ClosedInv
<1>8. CASE UNCHANGED vars
    <2>1. UNCHANGED <<latest, active, registered, recent, issued, req, session>>
        BY <1>8 DEF vars, routing
    <2>2. UNCHANGED <<clients, catalog>>
        BY <1>8 DEF vars
    <2>3. Routing!Inv'
        BY <2>1, SessionsGoInv DEF Inv
    <2>4. Clients!Inv'
        BY <2>1, <2>2, SessionsLeaveInv DEF Inv, Clients!Inv, Clients!TypeOK
    <2>5. RightClient' /\ CatalogAgrees'
        BY <2>1, <2>2
           DEF Inv, RightClient, Routing!Answered, CatalogAgrees, NoCatalog, clients
    <2> QED BY <2>3, <2>4, <2>5 DEF Inv
<1> QED BY <1>1, <1>2, <1>3, <1>4, <1>5, <1>6, <1>7, <1>8 DEF Next

\* The registry of clients between any two awaits (#bySession, #entries, close of
\* routed-device-mcp-client-registry.ts), with the requests it serves: a call uses
\* the client of the session it was routed to, no two clients meet on a session, a
\* ready session has no dead client, and close() leaves none behind.
THEOREM Invariant == Spec => []Inv
BY InitInv, NextInv, PTL DEF Spec

\* A request that begins after a credential was revoked or rotated is not served by
\* a session of the old one (resolve of device-routing.ts): the generations that
\* the router compares are those of now.
THEOREM NeverStaleAlways == Spec => []NeverStale
<1>1. Inv => NeverStale
    BY DEF Inv, Routing!Inv, NeverStale
<1> QED BY <1>1, Invariant, PTL

\* What resolve and the snapshots return is in the registry and ready when they
\* return it, with the generation of the credential that they have read.
THEOREM ReturnsLiveMatchAlways == Spec => ReturnsLiveMatch
<1> DEFINE Live == \A r \in Callers :
                     Routing!Answered(r)' /\ ~Routing!Answered(r) =>
                         /\ Routing!GetActive(req[r].device) = req'[r].result
                         /\ req'[r].result.generation = req[r].credential
<1>1. ASSUME Inv, [Next]_vars PROVE Live \/ UNCHANGED Routing!vars
    <2> SUFFICES ASSUME NEW r \in Callers, Routing!Answered(r)', ~Routing!Answered(r)
                 PROVE  /\ Routing!GetActive(req[r].device) = req'[r].result
                        /\ req'[r].result.generation = req[r].credential
        OBVIOUS
    <2>1. Routing!Check(r)
        BY <1>1, OnlyCheckAnswers
    <2>2. req'[r] # Routing!Idle
        BY DEF Routing!Answered, Routing!Idle
    <2> QED BY <1>1, <2>1, <2>2, CheckAnswers DEF Inv
<1> QED BY <1>1, Invariant, PTL DEF ReturnsLiveMatch, Routing!ReturnsLiveMatch, Spec

\* The list of tools that is kept for a device (#toolCatalogByDevice of the public
\* endpoint's registry) is not replaced by the list of an older session.
THEOREM CatalogNeverOlderAlways == Spec => CatalogNeverOlder
<1> DEFINE Later == \A d \in Devices : catalog'[d] # 0 => catalog'[d] >= catalog[d]
<1>1. ASSUME Inv, [Next]_vars PROVE Later \/ UNCHANGED vars
    <2> SUFFICES ASSUME NEW d \in Devices, catalog'[d] # 0
                 PROVE  catalog'[d] >= catalog[d]
        OBVIOUS
    <2>1. catalog \in [Devices -> 0..issued] /\ issued \in Nat
        BY <1>1, Bounds DEF Inv, CatalogAgrees, Routing!Inv, Routing!TypeOK
    <2>2. CASE catalog' = catalog
        BY <2>1, <2>2
    <2>3. CASE catalog' = NoCatalog
        BY <2>3 DEF NoCatalog
    <2>4. CASE \E k \in Callers : ListEnds(k)
        <3>1. PICK k \in Callers : ListEnds(k)
            BY <2>4
        <3>2. /\ catalog' = [catalog EXCEPT ![req[k].device] = target[k]]
              /\ req[k].device \in Devices /\ target[k] \in Nat
              /\ registered[req[k].device] # NoSession
              /\ registered[req[k].device].id = target[k]
            BY <1>1, <3>1, ListsOfEntry DEF ListEnds
        <3>3. catalog[req[k].device] <= target[k]
            BY <1>1, <3>2 DEF Inv, CatalogAgrees
        <3> QED BY <2>1, <3>2, <3>3
    <2> QED BY <1>1, <2>2, <2>3, <2>4 DEF Next, CallEnds, CloseEnds, vars
<1> QED BY <1>1, Invariant, PTL DEF CatalogNeverOlder, Spec
=============================================================================
