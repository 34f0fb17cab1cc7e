--------------------------- MODULE DeviceSessions ---------------------------
(***************************************************************************)
(* One server runtime (apps/server/src/server-runtime.ts) with its bridge  *)
(* gateway, its device session registry, its credential store and its      *)
(* per-device lifecycle lock.                                              *)
(*                                                                         *)
(* Three kinds of asynchronous tasks interleave at their awaits:           *)
(*   - a handshake: the handling of one bridge.hello frame, which verifies *)
(*     the credential, takes a ready lease, verifies again and registers;  *)
(*   - an operation: one run of runCredentialLifecycleOperation, which     *)
(*     revokes, rotates or issues the credential of a device;              *)
(*   - a heartbeat: the validation that follows a pong.                    *)
(* stop() runs beside them.  A step of the model is the code between two   *)
(* awaits, or one read or write of the credential store.                   *)
(*                                                                         *)
(* A credential generation of a device is its version number: the id and   *)
(* the secret are drawn afresh with every version.  Session ids are fresh, *)
(* as the agent draws them, so sessions.has() of the gateway is false.     *)
(***************************************************************************)
EXTENDS Integers, Sequences, FiniteSets

CONSTANTS
    Devices,        \* device ids
    Connections,    \* bridge sockets, each used once
    Handshakes,     \* bridge.hello frames, each handled once
    Operations,     \* calls of runCredentialLifecycleOperation, each made once
    MaxGeneration,  \* bound: no credential beyond this version is created
    None            \* no connection, no device

ASSUME FiniteTasks ==
    /\ IsFiniteSet(Handshakes)
    /\ IsFiniteSet(Operations)
ASSUME NoneIsNothing == None \notin Connections \cup Devices
ASSUME MaxGenerationPositive == MaxGeneration \in Nat \ {0}

VARIABLES
    \* gateway: connections and the sessions bound to them
    conn,       \* connection.state, "new" before the socket is opened
    sdev,       \* session.identity.deviceId of the connection's session
    sgen,       \* the generation the session was registered with
    lapsed,     \* now - lastSeenAt of the session reached the heartbeat timeout
    hb,         \* heartbeat validation: "idle", "read", "seen", "failed"
    hbSeen,     \* the active generation the validation has read
    \* gateway: handshake tasks
    hpc, hconn, hdev, hsec, hok,
    \* credential store
    active,     \* the active version of a device, 0 when there is none
    version,    \* the last version created for a device
    \* device session registry: byDeviceId
    registry,
    \* runtime counters
    mutationCount, authCount, readyCount,
    \* lifecycle operations and the per-device lock
    opc, okind, odev, osnap, ocommitted, lockQueue,
    \* runtime.stop()
    stopPc

connVars == <<conn, sdev, sgen, lapsed, hb, hbSeen>>
hsVars   == <<hpc, hconn, hdev, hsec, hok>>
credVars == <<active, version>>
opVars   == <<opc, okind, odev, osnap, ocommitted, lockQueue>>
vars     == <<connVars, hsVars, credVars, registry,
              mutationCount, authCount, readyCount, opVars, stopPc>>

Generations == 0..MaxGeneration
Unread      == -1       \* the snapshot promise has not resolved yet
Kinds       == {"revoke", "rotate", "complete"}

ConnStates      == {"new", "handshaking", "ready", "closing", "closed"}
HandshakePhases == {"idle", "verify", "verified", "authenticated",
                    "validate", "validated", "done"}
OperationPhases == {"idle", "queued", "leaseWait", "leaseGo", "body", "evict",
                    "publish", "authWait", "authGo", "released", "done"}

Stopping == stopPc # "running"

-----------------------------------------------------------------------------
(* Helpers. *)

\* failConnection / closeConnection: they return at once unless the
\* connection is still handshaking or ready.
Closing(state, c) ==
    IF c # None /\ state[c] \in {"handshaking", "ready"}
    THEN [state EXCEPT ![c] = "closing"] ELSE state

\* A counter kept in a Map: the entry is dropped when it reaches zero.
Decremented(n) == IF n > 1 THEN n - 1 ELSE 0

\* The operations on d that wait in phase "from" resume in phase "to".
Woken(d, from, to) ==
    [o \in Operations |->
        IF odev[o] = d /\ opc[o] = from THEN to ELSE opc[o]]

\* endAuthentication: the last verification in flight wakes the waiters.
EndAuthentication(d) ==
    /\ authCount' = [authCount EXCEPT ![d] = Decremented(@)]
    /\ opc' = IF Decremented(authCount[d]) = 0
              THEN Woken(d, "authWait", "authGo") ELSE opc

\* Mutant: the waiters are not woken.
ReleaseReadyLeaseSilently(d) ==
    /\ readyCount' = [readyCount EXCEPT ![d] = Decremented(@)]
    /\ opc' = opc

\* Mutant: the lease is not given back.
ReleaseReadyLeaseLeaks(d) == UNCHANGED <<readyCount, opc>>

\* The release function returned by beginSessionReady.
ReleaseReadyLease(d) ==
    /\ readyCount' = [readyCount EXCEPT ![d] = Decremented(@)]
    /\ opc' = IF Decremented(readyCount[d]) = 0
              THEN Woken(d, "leaseWait", "leaseGo") ELSE opc

\* DeviceSessionRegistry.evictSession: only the session's own entry goes.
Evicted(c) ==
    [d \in Devices |-> IF registry[d] = c THEN None ELSE registry[d]]

\* Mutant: the entry goes and the connection stays.
EvictGenerationKeepsOpen(d, g) ==
    /\ registry' = [registry EXCEPT ![d] =
                      IF @ # None /\ sgen[@] = g THEN None ELSE @]
    /\ UNCHANGED conn

\* evictCredentialGeneration: the registered session of d goes and is closed
\* when it was registered with generation g.
EvictGeneration(d, g) ==
    IF registry[d] # None /\ sgen[registry[d]] = g
    THEN /\ registry' = [registry EXCEPT ![d] = None]
         /\ conn' = Closing(conn, registry[d])
    ELSE UNCHANGED <<registry, conn>>

MutationActive(d) == mutationCount[d] > 0

-----------------------------------------------------------------------------
Init ==
    /\ conn = [c \in Connections |-> "new"]
    /\ sdev = [c \in Connections |-> None] /\ sgen = [c \in Connections |-> 0]
    /\ lapsed = [c \in Connections |-> FALSE]
    /\ hb = [c \in Connections |-> "idle"]
    /\ hbSeen = [c \in Connections |-> 0]
    /\ hpc = [h \in Handshakes |-> "idle"]
    /\ hconn = [h \in Handshakes |-> None]
    /\ hdev = [h \in Handshakes |-> None]
    /\ hsec = [h \in Handshakes |-> 0]
    /\ hok = [h \in Handshakes |-> FALSE]
    /\ active \in [Devices -> 0..1] /\ version = active
    /\ registry = [d \in Devices |-> None]
    /\ mutationCount = [d \in Devices |-> 0]
    /\ authCount = [d \in Devices |-> 0]
    /\ readyCount = [d \in Devices |-> 0]
    /\ opc = [o \in Operations |-> "idle"]
    /\ okind = [o \in Operations |-> "none"]
    /\ odev = [o \in Operations |-> None]
    /\ osnap = [o \in Operations |-> Unread]
    /\ ocommitted = [o \in Operations |-> FALSE]
    /\ lockQueue = [d \in Devices |-> <<>>]
    /\ stopPc = "running"

-----------------------------------------------------------------------------
(* Connections. *)

Open(c) ==
    /\ conn[c] = "new"
    /\ conn' = [conn EXCEPT ![c] = "handshaking"]
    /\ UNCHANGED <<sdev, sgen, lapsed, hb, hbSeen, hsVars, credVars, registry,
                   mutationCount, authCount, readyCount, opVars, stopPc>>

\* The server side starts to close: a handshake or heartbeat timeout, an
\* unexpected or invalid frame, a bridge.close frame, a failed send.
BeginClose(c) ==
    /\ conn[c] \in {"handshaking", "ready"}
    /\ conn' = Closing(conn, c)
    /\ UNCHANGED <<sdev, sgen, lapsed, hb, hbSeen, hsVars, credVars, registry,
                   mutationCount, authCount, readyCount, opVars, stopPc>>

\* Mutant: onSessionClosed does not evict.
SocketClosedOnly(c) ==
    /\ conn[c] \in {"handshaking", "ready", "closing"}
    /\ conn' = [conn EXCEPT ![c] = "closed"]
    /\ UNCHANGED <<sdev, sgen, lapsed, hb, hbSeen, hsVars, credVars, registry,
                   mutationCount, authCount, readyCount, opVars, stopPc>>

\* The socket's close event, whichever side closed: finalizeConnection and
\* the runtime's onSessionClosed.
SocketClosed(c) ==
    /\ conn[c] \in {"handshaking", "ready", "closing"}
    /\ conn' = [conn EXCEPT ![c] = "closed"]
    /\ registry' = Evicted(c)
    /\ UNCHANGED <<sdev, sgen, lapsed, hb, hbSeen, hsVars, credVars,
                   mutationCount, authCount, readyCount, opVars, stopPc>>

-----------------------------------------------------------------------------
(* The handshake task of one bridge.hello frame. *)

\* handleMessage up to the first await of authenticateDevice.  The client
\* presents the secret of some generation it was ever given.
Hello(h, c, d, g) ==
    /\ hpc[h] = "idle" /\ conn[c] = "handshaking"
    /\ g \in 1..version[d]
    /\ hconn' = [hconn EXCEPT ![h] = c]
    /\ hdev' = [hdev EXCEPT ![h] = d]
    /\ hsec' = [hsec EXCEPT ![h] = g]
    /\ IF Stopping \/ MutationActive(d)
       THEN /\ hpc' = [hpc EXCEPT ![h] = "done"]
            /\ conn' = Closing(conn, c)
            /\ UNCHANGED authCount
       ELSE /\ hpc' = [hpc EXCEPT ![h] = "verify"]
            /\ authCount' = [authCount EXCEPT ![d] = @ + 1]
            /\ UNCHANGED conn
    /\ UNCHANGED <<sdev, sgen, lapsed, hb, hbSeen, hok, credVars, registry,
                   mutationCount, readyCount, opVars, stopPc>>

\* The repository answers verify(): does the secret match the active record?
ReadCredential(h, from, to) ==
    /\ hpc[h] = from
    /\ hok' = [hok EXCEPT ![h] = (active[hdev[h]] = hsec[h])]
    /\ hpc' = [hpc EXCEPT ![h] = to]
    /\ UNCHANGED <<connVars, hconn, hdev, hsec, credVars, registry,
                   mutationCount, authCount, readyCount, opVars, stopPc>>

VerifyRead(h)   == ReadCredential(h, "verify", "verified")
ValidateRead(h) == ReadCredential(h, "validate", "validated")

\* authenticateDevice after its await, its finally block included.
Authenticate(h) ==
    /\ hpc[h] = "verified"
    /\ EndAuthentication(hdev[h])
    /\ IF hok[h] /\ ~Stopping /\ ~MutationActive(hdev[h])
       THEN /\ hpc' = [hpc EXCEPT ![h] = "authenticated"]
            /\ UNCHANGED conn
       ELSE /\ hpc' = [hpc EXCEPT ![h] = "done"]
            /\ conn' = Closing(conn, hconn[h])
    /\ UNCHANGED <<sdev, sgen, lapsed, hb, hbSeen, hconn, hdev, hsec, hok,
                   credVars, registry, mutationCount, readyCount,
                   okind, odev, osnap, ocommitted, lockQueue, stopPc>>

\* handleMessage from the answer of authenticate() to the first await of
\* validateSessionReady().
TakeReadyLease(h) ==
    /\ hpc[h] = "authenticated"
    /\ \/ /\ conn[hconn[h]] # "handshaking"
          /\ hpc' = [hpc EXCEPT ![h] = "done"]
          /\ UNCHANGED <<conn, readyCount>>
       \/ /\ conn[hconn[h]] = "handshaking"
          /\ Stopping \/ MutationActive(hdev[h])
          /\ hpc' = [hpc EXCEPT ![h] = "done"]
          /\ conn' = Closing(conn, hconn[h])
          /\ UNCHANGED readyCount
       \/ /\ conn[hconn[h]] = "handshaking"
          /\ ~Stopping /\ ~MutationActive(hdev[h])
          /\ hpc' = [hpc EXCEPT ![h] = "validate"]
          /\ readyCount' = [readyCount EXCEPT ![hdev[h]] = @ + 1]
          /\ UNCHANGED conn
    /\ UNCHANGED <<sdev, sgen, lapsed, hb, hbSeen, hconn, hdev, hsec, hok,
                   credVars, registry, mutationCount, authCount, opVars,
                   stopPc>>

\* DeviceSessionRegistry.register, called from onSession: the new session
\* takes the device's entry and the one it replaces is closed.
Register(c, d, g) ==
    /\ registry' = [registry EXCEPT ![d] = c]
    /\ sgen' = [sgen EXCEPT ![c] = g]
    /\ lapsed' = [lapsed EXCEPT ![c] = FALSE]

\* handleMessage after validateSessionReady(): the session becomes ready, the
\* ack is sent, onSession registers it.  Sending the ack may fail before
\* onSession is called; the runtime's own onSession hook may fail after.
BecomeReady(h) ==
    LET c == hconn[h]
        d == hdev[h]
    IN  /\ hpc[h] = "validated"
        /\ hpc' = [hpc EXCEPT ![h] = "done"]
        /\ ReleaseReadyLease(d)
        /\ \/ /\ ~hok[h]
              /\ conn' = Closing(conn, c)
              /\ UNCHANGED <<sdev, sgen, lapsed, registry>>
           \/ /\ hok[h] /\ conn[c] # "handshaking"
              /\ UNCHANGED <<conn, sdev, sgen, lapsed, registry>>
           \/ /\ hok[h] /\ conn[c] = "handshaking"
              /\ sdev' = [sdev EXCEPT ![c] = d]
              /\ \/ /\ conn' = [conn EXCEPT ![c] = "closing"]
                    /\ UNCHANGED <<sgen, lapsed, registry>>
                 \/ \E state \in {"ready", "closing"} :
                       /\ conn' = [Closing(conn, registry[d])
                                      EXCEPT ![c] = state]
                       /\ Register(c, d, hsec[h])
        /\ UNCHANGED <<hb, hbSeen, hconn, hdev, hsec, hok, credVars,
                       mutationCount, authCount, okind, odev, osnap,
                       ocommitted, lockQueue, stopPc>>

-----------------------------------------------------------------------------
(* Heartbeats. *)

\* isLive(): the session is ready and was seen within the heartbeat timeout.
IsLive(c) == conn[c] = "ready" /\ ~lapsed[c]

\* Time passes: the registered session was last seen a heartbeat timeout ago.
Lapse(c) ==
    /\ \E d \in Devices : registry[d] = c
    /\ ~lapsed[c]
    /\ lapsed' = [lapsed EXCEPT ![c] = TRUE]
    /\ UNCHANGED <<conn, sdev, sgen, hb, hbSeen, hsVars, credVars, registry,
                   mutationCount, authCount, readyCount, opVars, stopPc>>

\* handlePong accepts the nonce; onHeartbeat runs to its await, or throws
\* because the session is not registered.
Pong(c) ==
    /\ conn[c] = "ready" /\ hb[c] = "idle"
    /\ hb' = [hb EXCEPT ![c] = IF registry[sdev[c]] = c THEN "read"
                                                        ELSE "failed"]
    /\ UNCHANGED <<conn, sdev, sgen, lapsed, hbSeen, hsVars, credVars,
                   registry, mutationCount, authCount, readyCount, opVars,
                   stopPc>>

\* credentialRepository.getActive answers.
HeartbeatRead(c) ==
    /\ hb[c] = "read"
    /\ hb' = [hb EXCEPT ![c] = "seen"]
    /\ hbSeen' = [hbSeen EXCEPT ![c] = active[sdev[c]]]
    /\ UNCHANGED <<conn, sdev, sgen, lapsed, hsVars, credVars, registry,
                   mutationCount, authCount, readyCount, opVars, stopPc>>

\* onHeartbeat after its await.  A generation that is no longer the active
\* one evicts the session; markHeartbeat refuses a session that is not
\* registered any more or not live.
HeartbeatValidate(c) ==
    /\ hb[c] = "seen"
    /\ IF hbSeen[c] # sgen[c]
       THEN /\ registry' = Evicted(c)
            /\ hb' = [hb EXCEPT ![c] = "failed"]
       ELSE /\ hb' = [hb EXCEPT ![c] =
                        IF registry[sdev[c]] = c /\ IsLive(c)
                        THEN "idle" ELSE "failed"]
            /\ UNCHANGED registry
    /\ UNCHANGED <<conn, sdev, sgen, lapsed, hbSeen, hsVars, credVars,
                   mutationCount, authCount, readyCount, opVars, stopPc>>

\* The rejection reaches the catch of handlePong.
HeartbeatFail(c) ==
    /\ hb[c] = "failed"
    /\ hb' = [hb EXCEPT ![c] = "idle"]
    /\ conn' = Closing(conn, c)
    /\ UNCHANGED <<sdev, sgen, lapsed, hbSeen, hsVars, credVars, registry,
                   mutationCount, authCount, readyCount, opVars, stopPc>>

-----------------------------------------------------------------------------
(* Credential lifecycle operations.  "complete" stands for the operations   *)
(* of the pairing completion: issue, recovery rotation, acknowledgement.    *)

\* beginCredentialMutation (which throws when stopping) and the call of
\* runExclusive, up to its await of the previous holder.
BeginOperation(o, k, d) ==
    /\ opc[o] = "idle" /\ ~Stopping
    /\ opc' = [opc EXCEPT ![o] = "queued"]
    /\ okind' = [okind EXCEPT ![o] = k]
    /\ odev' = [odev EXCEPT ![o] = d]
    /\ mutationCount' = [mutationCount EXCEPT ![d] = @ + 1]
    /\ lockQueue' = [lockQueue EXCEPT ![d] = Append(@, o)]
    /\ UNCHANGED <<connVars, hsVars, credVars, registry, authCount,
                   readyCount, osnap, ocommitted, stopPc>>

\* revoke and rotate ask for the active generation before they queue; the
\* answer may come at any time before they use it.
ReadSnapshot(o) ==
    /\ okind[o] \in {"revoke", "rotate"} /\ osnap[o] = Unread
    /\ opc[o] \in {"queued", "leaseWait", "leaseGo", "body"}
    /\ osnap' = [osnap EXCEPT ![o] = active[odev[o]]]
    /\ UNCHANGED <<connVars, hsVars, credVars, registry, mutationCount,
                   authCount, readyCount, opc, okind, odev, ocommitted,
                   lockQueue, stopPc>>

\* The lock is granted in FIFO order; waitForSessionReadyDrain is called.
AcquireLock(o) ==
    LET d == odev[o] IN
    /\ opc[o] = "queued"
    /\ lockQueue[d] # <<>> /\ Head(lockQueue[d]) = o
    /\ opc' = [opc EXCEPT ![o] = IF Stopping \/ readyCount[d] = 0
                                 THEN "leaseGo" ELSE "leaseWait"]
    /\ UNCHANGED <<connVars, hsVars, credVars, registry, mutationCount,
                   authCount, readyCount, okind, odev, osnap, ocommitted,
                   lockQueue, stopPc>>

\* Mutant: verifications in flight are not drained.
AuthDrainPhaseUndrained(d) == "authGo"

\* The finally block of runCredentialLifecycleOperation: the phase an
\* operation goes to when its body is over.
AuthDrainPhase(d) ==
    IF Stopping \/ authCount[d] = 0 THEN "authGo" ELSE "authWait"

\* The ready leases have drained; a stopping runtime skips the body.
EnterBody(o) ==
    /\ opc[o] = "leaseGo"
    /\ opc' = [opc EXCEPT ![o] = IF Stopping THEN AuthDrainPhase(odev[o])
                                             ELSE "body"]
    /\ UNCHANGED <<connVars, hsVars, credVars, registry, mutationCount,
                   authCount, readyCount, okind, odev, osnap, ocommitted,
                   lockQueue, stopPc>>

\* The credential store commits a new active version of d, or none (0).
Commit(o, d, old, new) ==
    /\ active' = [active EXCEPT ![d] = new]
    /\ version' = [version EXCEPT ![d] = IF new = 0 THEN @ ELSE new]
    /\ osnap' = [osnap EXCEPT ![o] = old]
    /\ ocommitted' = [ocommitted EXCEPT ![o] = TRUE]
    /\ opc' = [opc EXCEPT ![o] = "evict"]

\* The body has nothing to change, or throws: the snapshot was rejected, the
\* compare-and-set lost, the clock ran backwards, the store failed.
LeaveBody(o) ==
    /\ opc' = [opc EXCEPT ![o] = AuthDrainPhase(odev[o])]
    /\ UNCHANGED <<credVars, osnap, ocommitted>>

\* The compare-and-set of revoke and rotate on the snapshot.
MutateExpected(o) ==
    LET d == odev[o] IN
    /\ opc[o] = "body" /\ okind[o] \in {"revoke", "rotate"}
    /\ osnap[o] # Unread
    /\ \/ LeaveBody(o)
       \/ /\ osnap[o] # 0 /\ active[d] = osnap[o]
          /\ okind[o] = "revoke"
          /\ Commit(o, d, osnap[o], 0)
       \/ /\ osnap[o] # 0 /\ active[d] = osnap[o]
          /\ okind[o] = "rotate" /\ version[d] < MaxGeneration
          /\ Commit(o, d, osnap[o], version[d] + 1)
    /\ UNCHANGED <<connVars, hsVars, registry, mutationCount, authCount,
                   readyCount, okind, odev, lockQueue, stopPc>>

\* The body of a completion: it issues when no credential is active, rotates
\* the active one when it recovers, and changes nothing when it acknowledges
\* or fails.  (After an issue the eviction that follows finds no generation.)
Complete(o) ==
    LET d == odev[o] IN
    /\ opc[o] = "body" /\ okind[o] = "complete"
    /\ \/ LeaveBody(o)
       \/ /\ version[d] < MaxGeneration
          /\ Commit(o, d, active[d], version[d] + 1)
    /\ UNCHANGED <<connVars, hsVars, registry, mutationCount, authCount,
                   readyCount, okind, odev, lockQueue, stopPc>>

\* Mutant: the eviction is left to the bus.
InvalidateOnlyPublishes(o) ==
    /\ opc[o] = "evict"
    /\ opc' = [opc EXCEPT ![o] = "publish"]
    /\ UNCHANGED <<connVars, hsVars, credVars, registry, mutationCount,
                   authCount, readyCount, okind, odev, osnap, ocommitted,
                   lockQueue, stopPc>>

\* invalidateCredentialGeneration up to the publication.
Invalidate(o) ==
    /\ opc[o] = "evict"
    /\ opc' = [opc EXCEPT ![o] = "publish"]
    /\ EvictGeneration(odev[o], osnap[o])
    /\ UNCHANGED <<sdev, sgen, lapsed, hb, hbSeen, hsVars, credVars,
                   mutationCount, authCount, readyCount, okind, odev, osnap,
                   ocommitted, lockQueue, stopPc>>

\* The bus calls the runtime's own subscriber (which ignores the event when
\* stopping), or the publication is given up after its timeout.
Publish(o) ==
    /\ opc[o] = "publish"
    /\ opc' = [opc EXCEPT ![o] = AuthDrainPhase(odev[o])]
    /\ \/ ~Stopping /\ EvictGeneration(odev[o], osnap[o])
       \/ UNCHANGED <<registry, conn>>
    /\ UNCHANGED <<sdev, sgen, lapsed, hb, hbSeen, hsVars, credVars,
                   mutationCount, authCount, readyCount, okind, odev, osnap,
                   ocommitted, lockQueue, stopPc>>

\* Verifications in flight have drained: the lock is released.
ReleaseLock(o) ==
    /\ opc[o] = "authGo"
    /\ opc' = [opc EXCEPT ![o] = "released"]
    /\ lockQueue' = [lockQueue EXCEPT ![odev[o]] = Tail(@)]
    /\ UNCHANGED <<connVars, hsVars, credVars, registry, mutationCount,
                   authCount, readyCount, okind, odev, osnap, ocommitted,
                   stopPc>>

\* The outer finally: endCredentialMutation, and the call returns.
EndOperation(o) ==
    /\ opc[o] = "released"
    /\ opc' = [opc EXCEPT ![o] = "done"]
    /\ mutationCount' = [mutationCount EXCEPT ![odev[o]] = Decremented(@)]
    /\ UNCHANGED <<connVars, hsVars, credVars, registry, authCount,
                   readyCount, okind, odev, osnap, ocommitted, lockQueue,
                   stopPc>>

-----------------------------------------------------------------------------
(* runtime.stop() *)

\* stop() to its first await: all drain waiters are resolved.
Stop ==
    /\ stopPc = "running"
    /\ stopPc' = "stopping"
    /\ opc' = [o \in Operations |->
                 CASE opc[o] = "leaseWait" -> "leaseGo"
                   [] opc[o] = "authWait"  -> "authGo"
                   [] OTHER                -> opc[o]]
    /\ UNCHANGED <<connVars, hsVars, credVars, registry, mutationCount,
                   authCount, readyCount, okind, odev, osnap, ocommitted,
                   lockQueue>>

\* gateway.stop(): every connection begins to close ...
StopConnections ==
    /\ stopPc = "stopping"
    /\ stopPc' = "closing"
    /\ conn' = [c \in Connections |->
                  IF conn[c] \in {"handshaking", "ready"}
                  THEN "closing" ELSE conn[c]]
    /\ UNCHANGED <<sdev, sgen, lapsed, hb, hbSeen, hsVars, credVars, registry,
                   mutationCount, authCount, readyCount, opVars>>

\* ... and is finalized without waiting for the peer, which evicts its
\* session.  Sockets opened in between are left to the native server's stop.
FinalizeConnections ==
    /\ stopPc = "closing"
    /\ stopPc' = "finalized"
    /\ conn' = [c \in Connections |->
                  IF conn[c] = "closing" THEN "closed" ELSE conn[c]]
    /\ registry' = [d \in Devices |->
                      IF registry[d] # None /\ conn[registry[d]] = "closing"
                      THEN None ELSE registry[d]]
    /\ UNCHANGED <<sdev, sgen, lapsed, hb, hbSeen, hsVars, credVars,
                   mutationCount, authCount, readyCount, opVars>>

\* The registry and the counters are cleared.
StopClear ==
    /\ stopPc = "finalized"
    /\ stopPc' = "stopped"
    /\ registry' = [d \in Devices |-> None]
    /\ mutationCount' = [d \in Devices |-> 0]
    /\ authCount' = [d \in Devices |-> 0]
    /\ readyCount' = [d \in Devices |-> 0]
    /\ UNCHANGED <<connVars, hsVars, credVars, opVars>>

-----------------------------------------------------------------------------
ConnectionStep(c) ==
    \/ Open(c) \/ BeginClose(c) \/ SocketClosed(c) \/ Lapse(c)
    \/ Pong(c) \/ HeartbeatRead(c) \/ HeartbeatValidate(c) \/ HeartbeatFail(c)

HandshakeStep(h) ==
    \/ \E c \in Connections, d \in Devices, g \in Generations :
            Hello(h, c, d, g)
    \/ VerifyRead(h) \/ Authenticate(h) \/ TakeReadyLease(h)
    \/ ValidateRead(h) \/ BecomeReady(h)

OperationStep(o) ==
    \/ \E k \in Kinds, d \in Devices : BeginOperation(o, k, d)
    \/ ReadSnapshot(o) \/ AcquireLock(o) \/ EnterBody(o)
    \/ MutateExpected(o) \/ Complete(o) \/ Invalidate(o) \/ Publish(o)
    \/ ReleaseLock(o) \/ EndOperation(o)

StopStep == Stop \/ StopConnections \/ FinalizeConnections \/ StopClear

Next ==
    \/ \E c \in Connections : ConnectionStep(c)
    \/ \E h \in Handshakes : HandshakeStep(h)
    \/ \E o \in Operations : OperationStep(o)
    \/ StopStep

Spec == Init /\ [][Next]_vars

\* Started promises are continued, store calls are answered, a closing socket
\* is closed by the network stack, and stop() runs to its end.  Nothing forces
\* a client to connect, a peer to answer, a caller to call, or time to pass.
Fairness ==
    /\ \A c \in Connections :
          /\ WF_vars(conn[c] = "closing" /\ SocketClosed(c))
          /\ WF_vars(HeartbeatRead(c)) /\ WF_vars(HeartbeatValidate(c))
          /\ WF_vars(HeartbeatFail(c))
    /\ \A h \in Handshakes :
          /\ WF_vars(VerifyRead(h)) /\ WF_vars(Authenticate(h))
          /\ WF_vars(TakeReadyLease(h)) /\ WF_vars(ValidateRead(h))
          /\ WF_vars(BecomeReady(h))
    /\ \A o \in Operations :
          /\ WF_vars(ReadSnapshot(o)) /\ WF_vars(AcquireLock(o))
          /\ WF_vars(EnterBody(o)) /\ WF_vars(MutateExpected(o))
          /\ WF_vars(Complete(o)) /\ WF_vars(Invalidate(o))
          /\ WF_vars(Publish(o)) /\ WF_vars(ReleaseLock(o))
          /\ WF_vars(EndOperation(o))
    /\ WF_vars(StopConnections) /\ WF_vars(FinalizeConnections)
    /\ WF_vars(StopClear)

FairSpec == Spec /\ Fairness

-----------------------------------------------------------------------------
(* Phases. *)

\* A handshake that holds a ready lease.
Leased(h) == hpc[h] \in {"validate", "validated"}

\* A handshake counted by authCount.
Authenticating(h) == hpc[h] \in {"verify", "verified"}

\* An operation that holds a mutation marker.
Marked(o) == opc[o] \notin {"idle", "done"}

\* An operation that holds the lifecycle lock.
Locked(o) == opc[o] \in {"leaseWait", "leaseGo", "body", "evict", "publish",
                         "authWait", "authGo"}

\* An operation whose commit is not followed by its eviction yet.
Evicting(o) == opc[o] = "evict"

\* A revoke or rotate that has invalidated the generation it replaced.
Invalidated(o) ==
    ocommitted[o] /\ opc[o] \in {"publish", "authWait", "authGo",
                                 "released", "done"}

-----------------------------------------------------------------------------
(* Properties. *)

TypeOK ==
    /\ conn \in [Connections -> ConnStates]
    /\ sdev \in [Connections -> Devices \cup {None}]
    /\ sgen \in [Connections -> Generations]
    /\ lapsed \in [Connections -> BOOLEAN]
    /\ hb \in [Connections -> {"idle", "read", "seen", "failed"}]
    /\ hbSeen \in [Connections -> Generations]
    /\ hpc \in [Handshakes -> HandshakePhases]
    /\ hconn \in [Handshakes -> Connections \cup {None}]
    /\ hdev \in [Handshakes -> Devices \cup {None}]
    /\ hsec \in [Handshakes -> Generations]
    /\ hok \in [Handshakes -> BOOLEAN]
    /\ active \in [Devices -> Generations]
    /\ version \in [Devices -> Generations]
    /\ registry \in [Devices -> Connections \cup {None}]
    /\ mutationCount \in [Devices -> Nat]
    /\ authCount \in [Devices -> Nat]
    /\ readyCount \in [Devices -> Nat]
    /\ opc \in [Operations -> OperationPhases]
    /\ okind \in [Operations -> Kinds \cup {"none"}]
    /\ odev \in [Operations -> Devices \cup {None}]
    /\ osnap \in [Operations -> Generations \cup {Unread}]
    /\ ocommitted \in [Operations -> BOOLEAN]
    /\ lockQueue \in [Devices -> Seq(Operations)]
    /\ stopPc \in {"running", "stopping", "closing", "finalized", "stopped"}

\* A registered session was authenticated with the generation that is active
\* now, except between the commit of an operation on its device and that
\* operation's eviction: no interleaving of verifications, leases and
\* mutations registers a session whose credential has already been replaced.
RegisteredIsActive ==
    \A d \in Devices : registry[d] # None =>
        \/ sgen[registry[d]] = active[d]
        \/ \E o \in Operations :
              Evicting(o) /\ odev[o] = d /\ osnap[o] = sgen[registry[d]]

\* The credential of a device is replaced only while no handshake holds a
\* ready lease on it, even when stop() wakes the waiters (the drain of
\* waitForSessionReadyDrain and the marker checked by beginSessionReady).
LeaseExcludesMutation ==
    \A o \in Operations, h \in Handshakes :
        opc[o] \in {"body", "evict"} /\ Leased(h) => odev[o] # hdev[h]

\* Once a revoke or rotate has invalidated a generation, no session of the
\* device is ready with it, at whatever point its handshake was; a session
\* whose heartbeat has just been refused is about to be closed by the catch
\* of handlePong.
RevokedIsNotReady ==
    \A o \in Operations, c \in Connections :
        Invalidated(o) /\ conn[c] = "ready" /\ sdev[c] = odev[o]
                       /\ sgen[c] = osnap[o] => hb[c] = "failed"

\* A ready session is the registered session of its device: a session that is
\* replaced, evicted or invalidated is closed in the same step, unless its
\* refused heartbeat is about to close it.
ReadyIsRegistered ==
    \A c \in Connections :
        conn[c] = "ready" => registry[sdev[c]] = c \/ hb[c] = "failed"

\* stop() leaves nothing behind: when it has returned no connection is ready
\* and no session is registered, and no handshake or operation still in
\* flight can bring one back.
StoppedIsEmpty ==
    stopPc = "stopped" =>
        /\ \A d \in Devices : registry[d] = None
        /\ \A c \in Connections : conn[c] # "ready"

\* A verification that lets its handshake go on is still right when it does:
\* authenticateDevice re-checks the marker after its await, and the marker is
\* released only when the verifications it overlapped have drained.
AuthenticatedIsFresh ==
    [][\A h \in Handshakes :
          hpc[h] = "verified" /\ hpc'[h] = "authenticated"
              => active[hdev[h]] = hsec[h]]_vars

\* Every operation that takes the mutation marker returns, so the marker, the
\* lock and the drains never block a device for ever, stop() or not.
OperationsReturn ==
    \A o \in Operations : (opc[o] = "queued") ~> (opc[o] = "done")

\* A session that stopped being ready leaves the registry.
ClosedLeavesRegistry ==
    \A c \in Connections, d \in Devices :
        (registry[d] = c /\ conn[c] # "ready") ~> (registry[d] # c)

-----------------------------------------------------------------------------
(* The inductive invariant behind the theorems of DeviceSessionsProofs. *)

LeaseSet(d) == {h \in Handshakes : Leased(h) /\ hdev[h] = d}
MarkSet(d)  == {o \in Operations : Marked(o) /\ odev[o] = d}

\* Tasks that have started know their connection, device and kind; sessions
\* and registry entries point at each other.
Bindings ==
    /\ \A h \in Handshakes : hpc[h] # "idle" =>
          /\ hconn[h] \in Connections /\ hdev[h] \in Devices /\ hsec[h] # 0
          /\ conn[hconn[h]] # "new"
    /\ \A o \in Operations : opc[o] # "idle" =>
          odev[o] \in Devices /\ okind[o] \in Kinds
    /\ \A c \in Connections :
          /\ conn[c] = "ready" => sdev[c] \in Devices
          /\ hb[c] # "idle" => /\ conn[c] \notin {"new", "handshaking"}
                              /\ sdev[c] \in Devices
    /\ \A d \in Devices : registry[d] # None =>
          /\ conn[registry[d]] \in {"ready", "closing"}
          /\ sdev[registry[d]] = d /\ sgen[registry[d]] # 0

\* The counters count: a release that is missing, doubled or misdirected in
\* any of the try/finally blocks would break it.
CountsAreExact ==
    stopPc # "stopped" => \A d \in Devices :
        /\ readyCount[d] = Cardinality(LeaseSet(d))
        /\ mutationCount[d] = Cardinality(MarkSet(d))

\* The lock holder is the head of its device's queue.
LockIsExclusive ==
    \A o \in Operations : Locked(o) =>
        lockQueue[odev[o]] # <<>> /\ Head(lockQueue[odev[o]]) = o

\* When the drain lets an operation of a running server go on, no ready lease
\* of its device is held.
DrainedMeansNoLease ==
    \A o \in Operations, h \in Handshakes :
        opc[o] = "leaseGo" /\ ~Stopping /\ Leased(h) => odev[o] # hdev[h]

\* The second verification of a handshake stays right until it registers.
ValidatedIsActive ==
    \A h \in Handshakes :
        hpc[h] = "validated" /\ hok[h] => active[hdev[h]] = hsec[h]

\* A generation that an operation has replaced is never active again, and no
\* two operations replace the same one.
ReplacedForever ==
    /\ \A d \in Devices : active[d] <= version[d]
    /\ \A o \in Operations : ocommitted[o] =>
          osnap[o] \in Generations /\ opc[o] # "idle"
    /\ \A o \in Operations : opc[o] = "evict" => ocommitted[o]
    /\ \A o \in Operations : ocommitted[o] /\ osnap[o] # 0 =>
          osnap[o] <= version[odev[o]] /\ active[odev[o]] # osnap[o]
    /\ \A o, p \in Operations :
          ocommitted[o] /\ ocommitted[p] /\ odev[o] = odev[p]
              /\ osnap[o] = osnap[p] /\ osnap[o] # 0 => o = p

\* Once gateway.stop() has closed the connections, none is or becomes ready.
ShutDown ==
    stopPc \in {"closing", "finalized", "stopped"} =>
        /\ \A c \in Connections : conn[c] # "ready"
        /\ \A h \in Handshakes : hpc[h] \notin {"idle", "done"} =>
              conn[hconn[h]] \in {"closing", "closed"}

\* All of this at every await of the runtime: the safety properties and what
\* makes them inductive.
IInv ==
    /\ TypeOK
    /\ Bindings
    /\ CountsAreExact
    /\ LockIsExclusive
    /\ DrainedMeansNoLease
    /\ LeaseExcludesMutation
    /\ ValidatedIsActive
    /\ ReplacedForever
    /\ RegisteredIsActive
    /\ ReadyIsRegistered
    /\ ShutDown
    /\ StoppedIsEmpty
=============================================================================
