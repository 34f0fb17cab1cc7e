----------------------------- MODULE RoutedClients -----------------------------
(***************************************************************************)
(* RoutedDeviceMcpClientRegistry (routed-device-mcp-client-registry.ts):   *)
(* one initialised MCP client for each bridge session, shared by all the   *)
(* calls that are routed to it, and closed with the session or with the    *)
(* registry.                                                               *)
(*                                                                         *)
(* A connect is one execution of #connect with its client and its          *)
(* BridgeClientTransport; connects are taken in order.  The MCP SDK's      *)
(* client is external: its connect starts the transport and awaits the     *)
(* answer to initialize, and closes the transport when that fails.         *)
(***************************************************************************)
EXTENDS Integers, FiniteSets

CONSTANTS
    Sessions, Callers, NoSession, NoConnect,
    Connects    \* 1..n: n is the bound of the connects

VARIABLES
    session,    \* the gateway session's state
    binding,    \* the connect whose transport has the session's callbacks
    pending,    \* #bySession
    entries,    \* #entries
    closed,     \* #closed
    closing,    \* close() awaits its clients
    cstate,     \* of a connect: "free", "connecting", "open", "failed"
    csession,   \* its session
    transport,  \* its transport: "none", "ready", "failed", "closed"
    pc,         \* of a caller: "idle", "awaiting", "calling"
    waits,      \* the connect it awaits or calls
    target      \* the session it was routed to

registry == <<pending, entries, closed, closing>>
connects == <<cstate, csession, transport>>
callers  == <<pc, waits, target>>
vars     == <<session, binding, registry, connects, callers>>

Init ==
    /\ session = [s \in Sessions |-> "ready"]
    /\ binding = [s \in Sessions |-> NoConnect]
    /\ pending = [s \in Sessions |-> NoConnect]
    /\ entries = {} /\ closed = FALSE /\ closing = FALSE
    /\ cstate = [c \in Connects |-> "free"]
    /\ csession = [c \in Connects |-> NoSession]
    /\ transport = [c \in Connects |-> "none"]
    /\ pc = [k \in Callers |-> "idle"]
    /\ waits = [k \in Callers |-> NoConnect]
    /\ target = [k \in Callers |-> NoSession]

-----------------------------------------------------------------------------
\* Closing the transports of cs: they give up their sessions, which they close
\* when they are ready.
CloseTransports(cs) ==
    LET ss == {csession[c] : c \in {c \in cs : transport[c] # "closed"}}
    IN /\ session' = [s \in Sessions |->
                        IF s \in ss /\ session[s] = "ready" THEN "closing"
                        ELSE session[s]]
       /\ binding' = [s \in Sessions |->
                        IF binding[s] \in cs THEN NoConnect ELSE binding[s]]
       /\ transport' = [c \in Connects |-> IF c \in cs THEN "closed"
                                           ELSE transport[c]]

\* Mutant: every call connects a client of its own.
CachedNot(s) == FALSE

\* #bySession has a client for the session.
Cached(s) == pending[s] # NoConnect

\* The new connect, if the bound allows one.
NextConnect ==
    {c \in Connects : cstate[c] = "free" /\ \A e \in 1..(c - 1) : cstate[e] # "free"}

\* #getEntry, for a call that has been routed to s.
GetEntry(k, s) ==
    /\ pc[k] = "idle" /\ ~closed /\ session[s] = "ready"
    /\ pc' = [pc EXCEPT ![k] = "awaiting"]
    /\ target' = [target EXCEPT ![k] = s]
    /\ IF Cached(s)
       THEN /\ waits' = [waits EXCEPT ![k] = pending[s]]
            /\ UNCHANGED <<pending, connects, binding>>
       ELSE \E c \in NextConnect :
            /\ waits' = [waits EXCEPT ![k] = c]
            /\ pending' = [pending EXCEPT ![s] = c]
            /\ cstate' = [cstate EXCEPT ![c] = "connecting"]
            /\ csession' = [csession EXCEPT ![c] = s]
            /\ IF binding[s] = NoConnect        \* transport.start
               THEN /\ transport' = [transport EXCEPT ![c] = "ready"]
                    /\ binding' = [binding EXCEPT ![s] = c]
               ELSE /\ transport' = [transport EXCEPT ![c] = "failed"]
                    /\ UNCHANGED binding
    /\ UNCHANGED <<session, entries, closed, closing>>

\* initialize is answered: the client is kept, unless the registry or the
\* session has gone meanwhile.
Connected(c) ==
    /\ cstate[c] = "connecting" /\ transport[c] = "ready"
    /\ IF closed \/ session[csession[c]] # "ready"
       THEN /\ cstate' = [cstate EXCEPT ![c] = "failed"]
            /\ pending' = [pending EXCEPT ![csession[c]] = NoConnect]
            /\ CloseTransports({c})
            /\ UNCHANGED entries
       ELSE /\ cstate' = [cstate EXCEPT ![c] = "open"]
            /\ entries' = entries \cup {c}
            /\ UNCHANGED <<pending, session, binding, transport>>
    /\ UNCHANGED <<closed, closing, csession, callers>>

\* transport.start or initialize fails, and #connect closes the transport.
ConnectFails(c) ==
    /\ cstate[c] = "connecting"
    /\ cstate' = [cstate EXCEPT ![c] = "failed"]
    /\ pending' = [pending EXCEPT ![csession[c]] = NoConnect]
    /\ CloseTransports({c})
    /\ UNCHANGED <<entries, closed, closing, csession, callers>>

\* The caller goes on; a caller of a failed connect drops it from #bySession,
\* where a newer one may be by now.
Resume(k) ==
    /\ pc[k] = "awaiting"
    /\ \/ /\ cstate[waits[k]] = "open"
          /\ pc' = [pc EXCEPT ![k] = "calling"]
          /\ UNCHANGED <<pending, waits, target>>
       \/ /\ cstate[waits[k]] = "failed"
          /\ pending' = [pending EXCEPT ![target[k]] = NoConnect]
          /\ pc' = [pc EXCEPT ![k] = "idle"]
          /\ waits' = [waits EXCEPT ![k] = NoConnect]
          /\ target' = [target EXCEPT ![k] = NoSession]
    /\ UNCHANGED <<session, binding, entries, closed, closing, connects>>

\* listTools or callTool ends, with an answer while the transport is ready, or
\* with an error.
CallEnds(k) ==
    /\ pc[k] = "calling"
    /\ pc' = [pc EXCEPT ![k] = "idle"]
    /\ waits' = [waits EXCEPT ![k] = NoConnect]
    /\ target' = [target EXCEPT ![k] = NoSession]
    /\ UNCHANGED <<session, binding, registry, connects>>

-----------------------------------------------------------------------------
(* The sessions. *)

\* The gateway closes the session, or the peer goes away.
SessionLeaves(s) ==
    /\ session[s] = "ready"
    /\ session' = [session EXCEPT ![s] = "closing"]
    /\ UNCHANGED <<binding, registry, connects, callers>>

\* The session's close reaches the transport, whose onclose drops the entry.
SessionCloses(s) ==
    /\ session[s] # "closed"
    /\ session' = [session EXCEPT ![s] = "closed"]
    /\ LET c == binding[s]
       IN /\ transport' = IF c = NoConnect THEN transport
                          ELSE [transport EXCEPT ![c] = "closed"]
          /\ entries' = entries \ {c}
    /\ binding' = [binding EXCEPT ![s] = NoConnect]
    /\ UNCHANGED <<pending, closed, closing, cstate, csession, callers>>

\* The transport fails by itself, a bad message or a send that is refused.
TransportFails(c) ==
    /\ transport[c] = "ready"
    /\ CloseTransports({c})
    /\ entries' = entries \ {c}
    /\ UNCHANGED <<pending, closed, closing, cstate, csession, callers>>

-----------------------------------------------------------------------------
(* close. *)

Close ==
    /\ ~closed
    /\ closed' = TRUE /\ closing' = TRUE
    /\ CloseTransports(entries)
    /\ entries' = {}                        \* each one's onclose
    /\ UNCHANGED <<pending, cstate, csession, callers>>

CloseEnds ==
    /\ closing
    /\ closing' = FALSE /\ entries' = {}
    /\ UNCHANGED <<session, binding, pending, closed, connects, callers>>

-----------------------------------------------------------------------------
(* Properties. *)

TypeOK ==
    /\ session \in [Sessions -> {"ready", "closing", "closed"}]
    /\ binding \in [Sessions -> Connects \cup {NoConnect}]
    /\ pending \in [Sessions -> Connects \cup {NoConnect}]
    /\ entries \subseteq Connects
    /\ {closed, closing} \subseteq BOOLEAN
    /\ cstate \in [Connects -> {"free", "connecting", "open", "failed"}]
    /\ csession \in [Connects -> Sessions \cup {NoSession}]
    /\ transport \in [Connects -> {"none", "ready", "failed", "closed"}]
    /\ pc \in [Callers -> {"idle", "awaiting", "calling"}]
    /\ waits \in [Callers -> Connects \cup {NoConnect}]
    /\ target \in [Callers -> Sessions \cup {NoSession}]
    /\ \A k \in Callers : waits[k] \in Connects <=> pc[k] # "idle"

\* No two clients meet on a session: a connect never finds it bound.  It would
\* fail there and close the session under the client that works on it.
OneClient == \A c \in Connects : transport[c] # "failed"

\* A call goes to the client of the session it was routed to, the one of its
\* owner's device, although the map may change while it waits.
RightClient ==
    \A k \in Callers : pc[k] # "idle" => csession[waits[k]] = target[k]

\* #entries is what close() has to close: the open clients, all of them and no
\* dead ones, whichever of session, transport and registry goes first.
EntriesAreOpen ==
    \A c \in Connects :
        c \in entries <=> cstate[c] = "open" /\ transport[c] = "ready"

\* A session that serves calls is not stuck with a client that is dead: what
\* #bySession has for it is open or still connecting.
ReadyHasLiveClient ==
    \A s \in Sessions :
        session[s] = "ready" /\ pending[s] # NoConnect =>
            /\ transport[pending[s]] = "ready" /\ binding[s] = pending[s]
            /\ cstate[pending[s]] \in {"connecting", "open"}

\* No client outlives close(), not even one that was connecting when it took its
\* snapshot of #entries.
NoneOutlivesClose ==
    closed => \A c \in Connects : transport[c] = "ready" => cstate[c] = "connecting"

\* The transport of a connect that has begun has its session's callbacks until it
\* closes, and then the session is not ready either.
TransportAgrees(c) ==
    /\ cstate[c] = "free" <=> transport[c] = "none"
    /\ cstate[c] = "failed" => transport[c] = "closed"
    /\ cstate[c] # "free" =>
          /\ csession[c] \in Sessions
          /\ transport[c] # "ready" => session[csession[c]] # "ready"
    /\ \A s \in Sessions :
          binding[s] = c <=> transport[c] = "ready" /\ csession[c] = s

TransportsAgree == \A c \in Connects : TransportAgrees(c)

\* #bySession has connects of the session it has them for, and one that a ready
\* session is bound to is there.
MapAgrees ==
    \A s \in Sessions :
        /\ pending[s] # NoConnect =>
              cstate[pending[s]] # "free" /\ csession[pending[s]] = s
        /\ session[s] = "ready" /\ binding[s] # NoConnect => pending[s] = binding[s]

\* A caller awaits a connect that has begun, and calls one that is open.
CallersAgree ==
    \A k \in Callers :
        /\ pc[k] # "idle" => cstate[waits[k]] # "free"
        /\ pc[k] = "calling" => cstate[waits[k]] = "open"

\* What holds between any two awaits.
Inv ==
    /\ TypeOK /\ OneClient /\ RightClient /\ EntriesAreOpen /\ ReadyHasLiveClient
    /\ NoneOutlivesClose /\ TransportsAgree /\ MapAgrees /\ CallersAgree
    /\ closing => closed
=============================================================================
