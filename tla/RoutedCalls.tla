------------------------------ MODULE RoutedCalls ------------------------------
(***************************************************************************)
(* A call of the public endpoint for a device, from the request to its     *)
(* end: DeviceRouting finds the session (Routing), RoutedClients keeps one *)
(* client for each session (Clients), and the sessions themselves are      *)
(* those of the device session registry.  Every caller works through its   *)
(* own request while credentials change, sessions are replaced, evicted    *)
(* and closed, and the registry of clients is closed under it.  The tools  *)
(* that a device listed last are kept, for when it cannot be asked.        *)
(***************************************************************************)
EXTENDS Integers, FiniteSets

CONSTANTS
    Devices, Owners, Callers,
    OwnerOf,            \* the repository's devices and their owners
    Connects,           \* 1..n: n is the bound of the connects
    NoSession, NoConnect,
    MaxGeneration,      \* bound of the credential generations of a device
    MaxRegistrations    \* bound of the registrations, one for each session

ASSUME ConstantsType ==
    /\ OwnerOf \in [Devices -> Owners]
    /\ MaxRegistrations \in Nat /\ MaxGeneration \in Nat \ {0}
    /\ Connects \subseteq Nat /\ NoConnect \notin Connects
    /\ NoSession \notin 1..MaxRegistrations
    /\ NoSession \notin [id : 1..MaxRegistrations, generation : 1..MaxGeneration]

VARIABLES
    latest, active, registered, recent, issued, session, req,   \* Routing
    binding, pending, entries, closed, closing,                 \* Clients
    cstate, csession, transport, pc, waits, target,
    catalog     \* #toolCatalogByDevice: the session that listed the tools
                \* kept for a device

Registrations == 1..MaxRegistrations

Routing == INSTANCE DeviceRouting WITH Requests <- Callers
Clients == INSTANCE RoutedClients WITH Sessions <- Registrations

routing == <<latest, active, registered, recent, issued, req>>
clients == <<binding, pending, entries, closed, closing, cstate, csession,
             transport, pc, waits, target>>
vars == <<routing, session, clients, catalog>>

NoCatalog == [d \in Devices |-> 0]

Init == Routing!Init /\ Clients!Init /\ catalog = NoCatalog

-----------------------------------------------------------------------------
(* The store, the registry of sessions and the sessions. *)

StoreActs ==
    /\ \E d \in Devices :
          \/ Routing!Rotate(d) \/ Routing!Revoke(d) \/ Routing!Lapse(d)
          \/ Routing!Register(d) \/ Routing!EvictGeneration(d)
    /\ UNCHANGED clients

\* A published session is closed by the gateway, or its peer goes away.
SessionLeaves(s) ==
    /\ s <= issued /\ Clients!SessionLeaves(s)
    /\ UNCHANGED routing

\* Its close reaches the registry and the transport.
SessionCloses(s) ==
    /\ s <= issued /\ Clients!SessionCloses(s)
    /\ Routing!EvictSession(s)
    /\ UNCHANGED <<latest, active, req>>

-----------------------------------------------------------------------------
(* The callers. *)

\* A tool call, or a device of devices_list.
Begin(k) ==
    /\ \E kind \in {"resolve", "snapshot"}, d \in Devices, o \in Owners :
          Routing!Begin(k, kind, d, o)
    /\ UNCHANGED clients

Route(k) ==
    /\ req[k] # Routing!Idle
    /\ Routing!ReadDevice(k) \/ Routing!ReadCredential(k) \/ Routing!Check(k)
    /\ UNCHANGED clients

Routed(k) == Routing!Answered(k) /\ pc[k] = "idle"

\* The session that resolve returned is asked for its client.  The session or the
\* registry of clients may have gone since.
Serves(k) ==
    /\ req[k].kind = "resolve" /\ ~closed
    /\ session[req[k].result.id] = "ready"

GetClient(k) ==
    /\ Routed(k) /\ Serves(k)
    /\ Clients!GetEntry(k, req[k].result.id)
    /\ UNCHANGED routing

\* A snapshot is answered, or the call has failed.
Return(k) ==
    /\ Routed(k) /\ ~Serves(k)
    /\ Routing!Return(k)
    /\ UNCHANGED <<latest, active, registered, recent, issued, session, clients>>

\* The client is there, or its connect has failed and the call with it.
Resume(k) ==
    /\ Clients!Resume(k)
    /\ IF pc'[k] = "idle" THEN Routing!Return(k) ELSE UNCHANGED req
    /\ UNCHANGED <<latest, active, registered, recent, issued>>

CallEnds(k) ==
    /\ Clients!CallEnds(k) /\ Routing!Return(k)
    /\ UNCHANGED <<latest, active, registered, recent, issued, catalog>>

\* listTools is answered: a message counts while its session is ready.  What
\* it lists is kept for the device.
ListEnds(k) ==
    /\ pc[k] = "calling"
    /\ transport[waits[k]] = "ready" /\ session[target[k]] = "ready"
    /\ Clients!CallEnds(k) /\ Routing!Return(k)
    /\ catalog' = [catalog EXCEPT ![req[k].device] = target[k]]
    /\ UNCHANGED <<latest, active, registered, recent, issued>>

-----------------------------------------------------------------------------
(* The clients. *)

ConnectEnds(c) ==
    /\ Clients!Connected(c) \/ Clients!ConnectFails(c)
    /\ UNCHANGED routing

TransportFails(c) == Clients!TransportFails(c) /\ UNCHANGED routing

Close == Clients!Close /\ UNCHANGED routing
CloseEnds == Clients!CloseEnds /\ catalog' = NoCatalog /\ UNCHANGED routing

Next ==
    \/ /\ \/ StoreActs
          \/ \E s \in Registrations : SessionLeaves(s) \/ SessionCloses(s)
          \/ \E k \in Callers : \/ Begin(k) \/ Route(k) \/ GetClient(k)
                                \/ Return(k) \/ Resume(k)
          \/ \E c \in Connects : ConnectEnds(c) \/ TransportFails(c)
          \/ Close
       /\ UNCHANGED catalog
    \/ \E k \in Callers : CallEnds(k) \/ ListEnds(k)
    \/ CloseEnds

Spec == Init /\ [][Next]_vars

-----------------------------------------------------------------------------
(* Properties. *)

\* A request that begins after a credential was revoked or rotated is never
\* served by a session of the old one, although that session may still be open
\* and in the registry, with a client that works.
NeverStale == Routing!NeverStale

\* What resolve and the snapshots return is registered and live at that moment,
\* with the generation of the credential they have read.
ReturnsLiveMatch == Routing!ReturnsLiveMatch

\* A call is made with the client of the session it was routed to, although
\* other calls may replace what #bySession has while it waits.
RightClient ==
    \A k \in Callers : pc[k] # "idle" =>
        /\ Routing!Answered(k)
        /\ csession[waits[k]] = req[k].result.id

\* The tools kept for a device are never replaced by those of an older session
\* of it, although the answer of that session may arrive while the new one is
\* being asked.
CatalogNeverOlder ==
    [][\A d \in Devices : catalog'[d] # 0 => catalog'[d] >= catalog[d]]_vars

\* The tools kept for a device come from a session that it has had, and not from
\* a later one than its entry.
CatalogAgrees ==
    /\ closed /\ ~closing => catalog = NoCatalog
    /\ catalog \in [Devices -> 0..issued]
    /\ \A d \in Devices :
          registered[d] # NoSession => catalog[d] <= registered[d].id

\* The registry of clients between any two awaits: calls use their session's
\* client, no two clients meet on a session, #entries has what is open, no ready
\* session has a dead client, and close() leaves neither a client, but for those
\* that are still connecting and that Connected closes, nor a list of tools.
Inv == Routing!Inv /\ Clients!Inv /\ RightClient /\ CatalogAgrees
=============================================================================
