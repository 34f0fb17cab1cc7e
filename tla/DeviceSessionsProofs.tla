------------------------ MODULE DeviceSessionsProofs ------------------------
(***************************************************************************)
(* Proofs about DeviceSessions.  IInv is inductive, and Inv, which adds    *)
(* what the refinement needs, is inductive relative to it; the safety      *)
(* properties and the refinement of CredentialSessions are consequences.   *)
(***************************************************************************)
EXTENDS DeviceSessionsRefinement, TLAPS, FiniteSetTheorems

USE DEF connVars, hsVars, credVars, opVars

-----------------------------------------------------------------------------
(* What the helpers return. *)

\* Closing changes one connection at most, from handshaking or ready.
LEMMA ClosingLemma ==
    ASSUME conn \in [Connections -> ConnStates], NEW c
    PROVE  /\ Closing(conn, c) \in [Connections -> ConnStates]
           /\ \A b \in Connections :
                 \/ Closing(conn, c)[b] = conn[b]
                 \/ /\ b = c /\ conn[b] \in {"handshaking", "ready"}
                    /\ Closing(conn, c)[b] = "closing"
           /\ c \in Connections => Closing(conn, c)[c] # "ready"
BY NoneIsNothing DEF Closing, ConnStates

\* Waking waiters changes no operation but those in the waiting phase.
LEMMA WokenLemma ==
    ASSUME opc \in [Operations -> OperationPhases],
           NEW d, NEW from, NEW to \in OperationPhases
    PROVE  /\ Woken(d, from, to) \in [Operations -> OperationPhases]
           /\ \A o \in Operations :
                 Woken(d, from, to)[o] =
                    IF odev[o] = d /\ opc[o] = from THEN to ELSE opc[o]
BY DEF Woken

-----------------------------------------------------------------------------
(* Frame lemmas: what a step may do without disturbing an invariant. *)

\* The counters stay exact when no lease or marker is taken or given back.
LEMMA CountsFrame ==
    ASSUME CountsAreExact,
           UNCHANGED <<readyCount, mutationCount>>,
           stopPc' # "stopped" => stopPc # "stopped",
           \A h \in Handshakes : /\ Leased(h)' <=> Leased(h)
                                 /\ Leased(h) => hdev'[h] = hdev[h],
           \A o \in Operations : /\ Marked(o)' <=> Marked(o)
                                 /\ Marked(o) => odev'[o] = odev[o]
    PROVE  CountsAreExact'
<1>1. ASSUME NEW d \in Devices
      PROVE  LeaseSet(d)' = LeaseSet(d) /\ MarkSet(d)' = MarkSet(d)
    BY DEF LeaseSet, MarkSet
<1> QED BY <1>1 DEF CountsAreExact

\* Registered sessions stay authenticated with the active generation when
\* entries only disappear and no eviction is skipped.
LEMMA RegisteredFrame ==
    ASSUME RegisteredIsActive,
           UNCHANGED <<active, sgen>>,
           \A d \in Devices : registry'[d] \in {registry[d], None},
           \A o \in Operations :
              Evicting(o) => Evicting(o)' /\ odev'[o] = odev[o]
                                          /\ osnap'[o] = osnap[o]
    PROVE  RegisteredIsActive'
BY DEF RegisteredIsActive

\* Ready sessions stay registered when none becomes ready and none that stays
\* ready loses its entry.
LEMMA ReadyFrame ==
    ASSUME ReadyIsRegistered, sdev' = sdev,
           \A c \in Connections : conn'[c] = "ready" =>
              /\ conn[c] = "ready"
              /\ hb[c] = "failed" => hb'[c] = "failed"
              /\ registry[sdev[c]] = c =>
                    registry'[sdev[c]] = c \/ hb'[c] = "failed"
    PROVE  ReadyIsRegistered'
BY DEF ReadyIsRegistered

\* The lock, the drain and the exclusion survive a step that starts no lease
\* and moves no operation into a phase they speak of.
LEMMA PhaseFrame ==
    ASSUME LockIsExclusive, DrainedMeansNoLease, LeaseExcludesMutation,
           lockQueue' = lockQueue, Stopping => Stopping',
           \A h \in Handshakes : Leased(h)' => Leased(h) /\ hdev'[h] = hdev[h],
           \A o \in Operations :
              /\ Locked(o)' => Locked(o) /\ odev'[o] = odev[o]
              /\ opc'[o] = "leaseGo" => opc[o] = "leaseGo" \/ Stopping'
              /\ opc'[o] \in {"body", "evict"} => opc[o] \in {"body", "evict"}
    PROVE  (LockIsExclusive /\ DrainedMeansNoLease /\ LeaseExcludesMutation)'
<1>1. LockIsExclusive'
    BY DEF LockIsExclusive
<1>2. DrainedMeansNoLease'
    BY DEF DrainedMeansNoLease, Locked, Stopping
<1>3. LeaseExcludesMutation'
    BY DEF LeaseExcludesMutation, Locked
<1> QED BY <1>1, <1>2, <1>3

\* What has been replaced stays replaced when the store is not written.
LEMMA StoreFrame ==
    ASSUME ReplacedForever, UNCHANGED <<active, version, ocommitted>>,
           \A o \in Operations :
              /\ ocommitted[o] => odev'[o] = odev[o] /\ osnap'[o] = osnap[o]
              /\ opc'[o] = "evict" => opc[o] = "evict"
              /\ opc'[o] = "idle" => opc[o] = "idle"
    PROVE  ReplacedForever'
BY DEF ReplacedForever

\* A validated handshake stays valid when the store is not written.
LEMMA ValidatedFrame ==
    ASSUME ValidatedIsActive, active' = active,
           \A h \in Handshakes : hpc'[h] = "validated" =>
              /\ hpc[h] = "validated" /\ hok'[h] = hok[h]
              /\ hdev'[h] = hdev[h] /\ hsec'[h] = hsec[h]
    PROVE  ValidatedIsActive'
BY DEF ValidatedIsActive

\* What an eviction does to the bindings.
LEMMA EvictionBindings ==
    ASSUME TypeOK, Bindings, NEW d, NEW g,
           EvictGeneration(d, g) \/ UNCHANGED <<registry, conn>>,
           UNCHANGED <<sdev, sgen, hb, hpc, hconn, hdev, hsec, odev, okind>>,
           \A o \in Operations : opc'[o] # "idle" => opc[o] # "idle"
    PROVE  Bindings'
<1>1. \A b \in Connections :
         \/ conn'[b] = conn[b]
         \/ conn[b] \in {"handshaking", "ready"} /\ conn'[b] = "closing"
    BY ClosingLemma DEF TypeOK, EvictGeneration
<1>2. \A e \in Devices : registry'[e] \in {registry[e], None}
    BY DEF TypeOK, EvictGeneration
<1> QED BY <1>1, <1>2, NoneIsNothing DEF TypeOK, Bindings

\* What an eviction leaves of the types.
LEMMA EvictionTypes ==
    ASSUME TypeOK, NEW d, NEW g,
           EvictGeneration(d, g) \/ UNCHANGED <<registry, conn>>
    PROVE  /\ conn' \in [Connections -> ConnStates]
           /\ registry' \in [Devices -> Connections \cup {None}]
<1>1. conn' = conn \/ conn' = Closing(conn, registry[d])
    BY DEF EvictGeneration
<1>2. conn' \in [Connections -> ConnStates]
    BY <1>1, ClosingLemma DEF TypeOK
<1>3. registry' \in [Devices -> Connections \cup {None}]
    BY DEF TypeOK, EvictGeneration
<1> QED BY <1>2, <1>3

\* The sets of tasks that the counters count are finite.
LEMMA TasksAreFinite ==
    /\ \A S \in SUBSET Handshakes : IsFiniteSet(S) /\ Cardinality(S) \in Nat
    /\ \A S \in SUBSET Operations : IsFiniteSet(S) /\ Cardinality(S) \in Nat
BY FiniteTasks, FS_Subset, FS_CardinalityType

\* No marker is counted for d, so no operation on d is under way.
LEMMA NoMark ==
    ASSUME TypeOK, CountsAreExact, ~Stopping, NEW d \in Devices,
           ~MutationActive(d)
    PROVE  \A o \in Operations : odev[o] = d => ~Marked(o)
<1>1. mutationCount[d] = 0 /\ mutationCount[d] = Cardinality(MarkSet(d))
    BY DEF TypeOK, CountsAreExact, MutationActive, Stopping
<1>2. MarkSet(d) = {}
    BY <1>1, TasksAreFinite, FS_EmptySet DEF MarkSet
<1> QED BY <1>2 DEF MarkSet

\* No lease is counted for d, so no handshake on d holds one.
LEMMA NoLease ==
    ASSUME CountsAreExact, stopPc # "stopped", NEW d \in Devices,
           readyCount[d] = 0
    PROVE  \A h \in Handshakes : Leased(h) => hdev[h] # d
<1>1. LeaseSet(d) = {}
    BY TasksAreFinite, FS_EmptySet DEF LeaseSet, CountsAreExact
<1> QED BY <1>1 DEF LeaseSet

-----------------------------------------------------------------------------
(* One lemma per action: connections and heartbeats. *)

\* A socket is opened: no invariant speaks of the step but the type.
LEMMA OpenPreserves ==
    ASSUME IInv, NEW c \in Connections, Open(c)
    PROVE  IInv'
<1>1. TypeOK'
    BY NoneIsNothing DEF IInv, TypeOK, Bindings, ConnStates,
       HandshakePhases, OperationPhases, Generations, Unread, Kinds, Open
<1>2. Bindings'
    BY NoneIsNothing DEF IInv, TypeOK, Bindings, Open
<1>3. CountsAreExact'
    BY CountsFrame DEF IInv, TypeOK, Leased, Marked, Open
<1>4. (LockIsExclusive /\ DrainedMeansNoLease /\ LeaseExcludesMutation)'
    BY PhaseFrame DEF IInv, TypeOK, Leased, Locked, Stopping, Open
<1>5. ValidatedIsActive'
    BY ValidatedFrame DEF IInv, TypeOK, Open
<1>6. ReplacedForever'
    BY StoreFrame DEF IInv, TypeOK, Open
<1>7. RegisteredIsActive'
    BY RegisteredFrame DEF IInv, TypeOK, Evicting, Open
<1>8. ReadyIsRegistered'
    BY ReadyFrame, NoneIsNothing DEF IInv, TypeOK, Bindings, Open
<1>9. (ShutDown /\ StoppedIsEmpty)'
    BY NoneIsNothing DEF IInv, TypeOK, Bindings, ShutDown, StoppedIsEmpty,
       Open
<1> QED BY <1>1, <1>2, <1>3, <1>4, <1>5, <1>6, <1>7, <1>8, <1>9 DEF IInv

\* A connection that begins to close stops being ready.
LEMMA BeginClosePreserves ==
    ASSUME IInv, NEW c \in Connections, BeginClose(c)
    PROVE  IInv'
<1>1. TypeOK'
    BY NoneIsNothing DEF IInv, TypeOK, Bindings, ConnStates,
       HandshakePhases, OperationPhases, Generations, Unread, Kinds,
       BeginClose, Closing
<1>2. Bindings'
    BY NoneIsNothing DEF IInv, TypeOK, Bindings, BeginClose, Closing
<1>3. CountsAreExact'
    BY CountsFrame DEF IInv, TypeOK, Leased, Marked, BeginClose, Closing
<1>4. (LockIsExclusive /\ DrainedMeansNoLease /\ LeaseExcludesMutation)'
    BY PhaseFrame DEF IInv, TypeOK, Leased, Locked, Stopping, BeginClose,
       Closing
<1>5. ValidatedIsActive'
    BY ValidatedFrame DEF IInv, TypeOK, BeginClose, Closing
<1>6. ReplacedForever'
    BY StoreFrame DEF IInv, TypeOK, BeginClose, Closing
<1>7. RegisteredIsActive'
    BY RegisteredFrame DEF IInv, TypeOK, Evicting, BeginClose, Closing
<1>8. ReadyIsRegistered'
    BY ReadyFrame, NoneIsNothing DEF IInv, TypeOK, Bindings, BeginClose,
       Closing
<1>9. (ShutDown /\ StoppedIsEmpty)'
    BY NoneIsNothing DEF IInv, TypeOK, Bindings, ShutDown, StoppedIsEmpty,
       BeginClose, Closing
<1> QED BY <1>1, <1>2, <1>3, <1>4, <1>5, <1>6, <1>7, <1>8, <1>9 DEF IInv

\* A closed connection is evicted in the same step.
LEMMA SocketClosedPreserves ==
    ASSUME IInv, NEW c \in Connections, SocketClosed(c)
    PROVE  IInv'
<1>1. TypeOK'
    BY NoneIsNothing DEF IInv, TypeOK, Bindings, ConnStates,
       HandshakePhases, OperationPhases, Generations, Unread, Kinds,
       SocketClosed, Evicted
<1>2. Bindings'
    BY NoneIsNothing DEF IInv, TypeOK, Bindings, SocketClosed, Evicted
<1>3. CountsAreExact'
    BY CountsFrame DEF IInv, TypeOK, Leased, Marked, SocketClosed, Evicted
<1>4. (LockIsExclusive /\ DrainedMeansNoLease /\ LeaseExcludesMutation)'
    BY PhaseFrame DEF IInv, TypeOK, Leased, Locked, Stopping, SocketClosed,
       Evicted
<1>5. ValidatedIsActive'
    BY ValidatedFrame DEF IInv, TypeOK, SocketClosed, Evicted
<1>6. ReplacedForever'
    BY StoreFrame DEF IInv, TypeOK, SocketClosed, Evicted
<1>7. RegisteredIsActive'
    BY RegisteredFrame DEF IInv, TypeOK, Evicting, SocketClosed, Evicted
<1>8. ReadyIsRegistered'
    BY ReadyFrame, NoneIsNothing DEF IInv, TypeOK, Bindings, SocketClosed,
       Evicted
<1>9. (ShutDown /\ StoppedIsEmpty)'
    BY NoneIsNothing DEF IInv, TypeOK, Bindings, ShutDown, StoppedIsEmpty,
       SocketClosed, Evicted
<1> QED BY <1>1, <1>2, <1>3, <1>4, <1>5, <1>6, <1>7, <1>8, <1>9 DEF IInv

\* Time passes.
LEMMA LapsePreserves ==
    ASSUME IInv, NEW c \in Connections, Lapse(c)
    PROVE  IInv'
<1>1. TypeOK'
    BY NoneIsNothing DEF IInv, TypeOK, Bindings, ConnStates,
       HandshakePhases, OperationPhases, Generations, Unread, Kinds, Lapse
<1>2. Bindings'
    BY NoneIsNothing DEF IInv, TypeOK, Bindings, Lapse
<1>3. CountsAreExact'
    BY CountsFrame DEF IInv, TypeOK, Leased, Marked, Lapse
<1>4. (LockIsExclusive /\ DrainedMeansNoLease /\ LeaseExcludesMutation)'
    BY PhaseFrame DEF IInv, TypeOK, Leased, Locked, Stopping, Lapse
<1>5. ValidatedIsActive'
    BY ValidatedFrame DEF IInv, TypeOK, Lapse
<1>6. ReplacedForever'
    BY StoreFrame DEF IInv, TypeOK, Lapse
<1>7. RegisteredIsActive'
    BY RegisteredFrame DEF IInv, TypeOK, Evicting, Lapse
<1>8. ReadyIsRegistered'
    BY ReadyFrame, NoneIsNothing DEF IInv, TypeOK, Bindings, Lapse
<1>9. (ShutDown /\ StoppedIsEmpty)'
    BY NoneIsNothing DEF IInv, TypeOK, Bindings, ShutDown, StoppedIsEmpty,
       Lapse
<1> QED BY <1>1, <1>2, <1>3, <1>4, <1>5, <1>6, <1>7, <1>8, <1>9 DEF IInv

\* A heartbeat starts its validation.
LEMMA PongPreserves ==
    ASSUME IInv, NEW c \in Connections, Pong(c)
    PROVE  IInv'
<1>1. TypeOK'
    BY NoneIsNothing DEF IInv, TypeOK, Bindings, ConnStates,
       HandshakePhases, OperationPhases, Generations, Unread, Kinds, Pong
<1>2. Bindings'
    BY NoneIsNothing DEF IInv, TypeOK, Bindings, Pong
<1>3. CountsAreExact'
    BY CountsFrame DEF IInv, TypeOK, Leased, Marked, Pong
<1>4. (LockIsExclusive /\ DrainedMeansNoLease /\ LeaseExcludesMutation)'
    BY PhaseFrame DEF IInv, TypeOK, Leased, Locked, Stopping, Pong
<1>5. ValidatedIsActive'
    BY ValidatedFrame DEF IInv, TypeOK, Pong
<1>6. ReplacedForever'
    BY StoreFrame DEF IInv, TypeOK, Pong
<1>7. RegisteredIsActive'
    BY RegisteredFrame DEF IInv, TypeOK, Evicting, Pong
<1>8. ReadyIsRegistered'
    BY ReadyFrame, NoneIsNothing DEF IInv, TypeOK, Bindings, Pong
<1>9. (ShutDown /\ StoppedIsEmpty)'
    BY DEF IInv, ShutDown, StoppedIsEmpty, Pong
<1> QED BY <1>1, <1>2, <1>3, <1>4, <1>5, <1>6, <1>7, <1>8, <1>9 DEF IInv

\* A heartbeat reads the store.
LEMMA HeartbeatReadPreserves ==
    ASSUME IInv, NEW c \in Connections, HeartbeatRead(c)
    PROVE  IInv'
<1>1. TypeOK'
    BY NoneIsNothing DEF IInv, TypeOK, Bindings, ConnStates,
       HandshakePhases, OperationPhases, Generations, Unread, Kinds,
       HeartbeatRead
<1>2. Bindings'
    BY NoneIsNothing DEF IInv, TypeOK, Bindings, HeartbeatRead
<1>3. CountsAreExact'
    BY CountsFrame DEF IInv, TypeOK, Leased, Marked, HeartbeatRead
<1>4. (LockIsExclusive /\ DrainedMeansNoLease /\ LeaseExcludesMutation)'
    BY PhaseFrame DEF IInv, TypeOK, Leased, Locked, Stopping, HeartbeatRead
<1>5. ValidatedIsActive'
    BY ValidatedFrame DEF IInv, TypeOK, HeartbeatRead
<1>6. ReplacedForever'
    BY StoreFrame DEF IInv, TypeOK, HeartbeatRead
<1>7. RegisteredIsActive'
    BY RegisteredFrame DEF IInv, TypeOK, Evicting, HeartbeatRead
<1>8. ReadyIsRegistered'
    BY ReadyFrame, NoneIsNothing DEF IInv, TypeOK, Bindings, HeartbeatRead
<1>9. (ShutDown /\ StoppedIsEmpty)'
    BY NoneIsNothing DEF IInv, TypeOK, Bindings, ShutDown, StoppedIsEmpty,
       HeartbeatRead
<1> QED BY <1>1, <1>2, <1>3, <1>4, <1>5, <1>6, <1>7, <1>8, <1>9 DEF IInv

\* A heartbeat evicts its session only together with its failure.
LEMMA HeartbeatValidatePreserves ==
    ASSUME IInv, NEW c \in Connections, HeartbeatValidate(c)
    PROVE  IInv'
<1>1. TypeOK'
  <2>1. registry' \in [Devices -> Connections \cup {None}]
    BY DEF IInv, TypeOK, HeartbeatValidate, Evicted
  <2>2. hb' \in [Connections -> {"idle", "read", "seen", "failed"}]
    <3>1. \E p \in {"idle", "failed"} : hb' = [hb EXCEPT ![c] = p]
      BY DEF HeartbeatValidate
    <3> QED BY <3>1 DEF IInv, TypeOK
  <2> QED BY <2>1, <2>2 DEF IInv, TypeOK, HeartbeatValidate
<1>2. Bindings'
    BY NoneIsNothing DEF IInv, TypeOK, Bindings, HeartbeatValidate, Evicted,
       IsLive
<1>3. CountsAreExact'
    BY CountsFrame DEF IInv, TypeOK, Leased, Marked, HeartbeatValidate,
       Evicted, IsLive
<1>4. (LockIsExclusive /\ DrainedMeansNoLease /\ LeaseExcludesMutation)'
    BY PhaseFrame DEF IInv, TypeOK, Leased, Locked, Stopping,
       HeartbeatValidate, Evicted, IsLive
<1>5. ValidatedIsActive'
    BY ValidatedFrame DEF IInv, TypeOK, HeartbeatValidate, Evicted, IsLive
<1>6. ReplacedForever'
    BY StoreFrame DEF IInv, TypeOK, HeartbeatValidate, Evicted, IsLive
<1>7. RegisteredIsActive'
    BY RegisteredFrame DEF IInv, TypeOK, Evicting, HeartbeatValidate,
       Evicted, IsLive
<1>8. ReadyIsRegistered'
    BY ReadyFrame, NoneIsNothing DEF IInv, TypeOK, Bindings,
       HeartbeatValidate, Evicted, IsLive
<1>9. (ShutDown /\ StoppedIsEmpty)'
    BY NoneIsNothing DEF IInv, TypeOK, Bindings, ShutDown, StoppedIsEmpty,
       HeartbeatValidate, Evicted, IsLive
<1> QED BY <1>1, <1>2, <1>3, <1>4, <1>5, <1>6, <1>7, <1>8, <1>9 DEF IInv

\* A failed heartbeat closes its connection.
LEMMA HeartbeatFailPreserves ==
    ASSUME IInv, NEW c \in Connections, HeartbeatFail(c)
    PROVE  IInv'
<1>1. TypeOK'
    BY NoneIsNothing DEF IInv, TypeOK, Bindings, ConnStates,
       HandshakePhases, OperationPhases, Generations, Unread, Kinds,
       HeartbeatFail, Closing
<1>2. Bindings'
    BY NoneIsNothing DEF IInv, TypeOK, Bindings, HeartbeatFail, Closing
<1>3. CountsAreExact'
    BY CountsFrame DEF IInv, TypeOK, Leased, Marked, HeartbeatFail, Closing
<1>4. (LockIsExclusive /\ DrainedMeansNoLease /\ LeaseExcludesMutation)'
    BY PhaseFrame DEF IInv, TypeOK, Leased, Locked, Stopping, HeartbeatFail,
       Closing
<1>5. ValidatedIsActive'
    BY ValidatedFrame DEF IInv, TypeOK, HeartbeatFail, Closing
<1>6. ReplacedForever'
    BY StoreFrame DEF IInv, TypeOK, HeartbeatFail, Closing
<1>7. RegisteredIsActive'
    BY RegisteredFrame DEF IInv, TypeOK, Evicting, HeartbeatFail, Closing
<1>8. ReadyIsRegistered'
    BY ReadyFrame, NoneIsNothing DEF IInv, TypeOK, Bindings, HeartbeatFail,
       Closing
<1>9. (ShutDown /\ StoppedIsEmpty)'
    BY NoneIsNothing DEF IInv, TypeOK, Bindings, ShutDown, StoppedIsEmpty,
       HeartbeatFail, Closing
<1> QED BY <1>1, <1>2, <1>3, <1>4, <1>5, <1>6, <1>7, <1>8, <1>9 DEF IInv

-----------------------------------------------------------------------------
(* Handshakes. *)

\* A handshake starts: it holds no lease yet.
LEMMA HelloPreserves ==
    ASSUME IInv, NEW h \in Handshakes, NEW c \in Connections,
           NEW d \in Devices, NEW g \in Generations, Hello(h, c, d, g)
    PROVE  IInv'
<1>1. TypeOK'
  <2>1. conn' \in [Connections -> ConnStates]
    BY ClosingLemma DEF IInv, TypeOK, Hello
  <2>2. /\ hpc' \in [Handshakes -> HandshakePhases]
        /\ authCount' \in [Devices -> Nat]
    <3>1. \E p \in {"done", "verify"} : hpc' = [hpc EXCEPT ![h] = p]
      BY DEF Hello
    <3>2. authCount' = authCount \/ authCount' = [authCount EXCEPT ![d] = @ + 1]
      BY DEF Hello
    <3>3. hpc' \in [Handshakes -> HandshakePhases]
      BY <3>1 DEF IInv, TypeOK, HandshakePhases
    <3>4. authCount' \in [Devices -> Nat]
      <4>1. authCount \in [Devices -> Nat] /\ authCount[d] + 1 \in Nat
        BY DEF IInv, TypeOK
      <4> QED BY <3>2, <4>1
    <3> QED BY <3>3, <3>4
  <2>3. /\ hconn' \in [Handshakes -> Connections \cup {None}]
        /\ hdev' \in [Handshakes -> Devices \cup {None}]
        /\ hsec' \in [Handshakes -> Generations]
    BY DEF IInv, TypeOK, Hello
  <2> QED BY <2>1, <2>2, <2>3 DEF IInv, TypeOK, Hello
<1>2. Bindings'
  <2>1. \A b \in Connections :
           conn'[b] = conn[b] \/ (b = c /\ conn'[b] = "closing")
    BY ClosingLemma DEF IInv, TypeOK, Hello
  <2>2. \A i \in Handshakes : i # h =>
           /\ hpc'[i] = hpc[i] /\ hconn'[i] = hconn[i]
           /\ hdev'[i] = hdev[i] /\ hsec'[i] = hsec[i]
    BY DEF IInv, TypeOK, Hello
  <2>3. hconn'[h] = c /\ hdev'[h] = d /\ hsec'[h] = g /\ g # 0
    BY DEF IInv, TypeOK, Hello, Generations
  <2>4. /\ conn[c] = "handshaking"
        /\ UNCHANGED <<registry, sdev, sgen, hb, opc, odev, okind>>
    BY DEF Hello
  <2>5. \A i \in Handshakes : hpc'[i] # "idle" =>
           /\ hconn'[i] \in Connections /\ hdev'[i] \in Devices
           /\ hsec'[i] # 0 /\ conn'[hconn'[i]] # "new"
    BY <2>1, <2>2, <2>3, <2>4 DEF IInv, Bindings
  <2>6. \A e \in Devices : registry[e] # None => registry[e] # c
    BY <2>4, NoneIsNothing DEF IInv, Bindings
  <2>7. \A e \in Devices : registry[e] # None =>
           registry[e] \in Connections
    BY DEF IInv, TypeOK
  <2> QED BY <2>1, <2>4, <2>5, <2>6, <2>7 DEF IInv, Bindings
<1>3. CountsAreExact'
    BY CountsFrame DEF IInv, TypeOK, Leased, Marked, Hello, Closing,
       Stopping, MutationActive
<1>4. (LockIsExclusive /\ DrainedMeansNoLease /\ LeaseExcludesMutation)'
    BY PhaseFrame DEF IInv, TypeOK, Leased, Locked, Stopping, Hello,
       Closing, Stopping, MutationActive
<1>5. ValidatedIsActive'
    BY ValidatedFrame DEF IInv, TypeOK, Hello, Closing, Stopping,
       MutationActive
<1>6. ReplacedForever'
    BY StoreFrame DEF IInv, TypeOK, Hello, Closing, Stopping, MutationActive
<1>7. RegisteredIsActive'
    BY RegisteredFrame DEF IInv, TypeOK, Evicting, Hello, Closing, Stopping,
       MutationActive
<1>8. ReadyIsRegistered'
    BY ReadyFrame, NoneIsNothing DEF IInv, TypeOK, Bindings, Hello, Closing,
       Stopping, MutationActive
<1>9. (ShutDown /\ StoppedIsEmpty)'
  <2>1. \A b \in Connections :
           conn'[b] = conn[b] \/ (b = c /\ conn'[b] = "closing")
    BY ClosingLemma DEF IInv, TypeOK, Hello
  <2>2. /\ \A i \in Handshakes : i # h =>
              hpc'[i] = hpc[i] /\ hconn'[i] = hconn[i]
        /\ Stopping => hpc'[h] = "done"
        /\ UNCHANGED <<stopPc, registry>>
    BY DEF IInv, TypeOK, Hello
  <2>3. \A i \in Handshakes :
           hpc[i] # "idle" => hconn[i] \in Connections
    BY DEF IInv, Bindings
  <2>4. ShutDown'
    BY <2>1, <2>2, <2>3 DEF IInv, ShutDown, Stopping
  <2>5. StoppedIsEmpty'
    BY <2>1, <2>2 DEF IInv, StoppedIsEmpty
  <2> QED BY <2>4, <2>5
<1> QED BY <1>1, <1>2, <1>3, <1>4, <1>5, <1>6, <1>7, <1>8, <1>9 DEF IInv

\* The first verification reads the store.
LEMMA VerifyReadPreserves ==
    ASSUME IInv, NEW h \in Handshakes, VerifyRead(h)
    PROVE  IInv'
<1>1. TypeOK'
    BY NoneIsNothing DEF IInv, TypeOK, Bindings, ConnStates,
       HandshakePhases, OperationPhases, Generations, Unread, Kinds,
       VerifyRead, ReadCredential
<1>2. Bindings'
    BY NoneIsNothing DEF IInv, TypeOK, Bindings, VerifyRead, ReadCredential
<1>3. CountsAreExact'
    BY CountsFrame DEF IInv, TypeOK, Leased, Marked, VerifyRead,
       ReadCredential
<1>4. (LockIsExclusive /\ DrainedMeansNoLease /\ LeaseExcludesMutation)'
    BY PhaseFrame DEF IInv, TypeOK, Leased, Locked, Stopping, VerifyRead,
       ReadCredential
<1>5. ValidatedIsActive'
    BY ValidatedFrame DEF IInv, TypeOK, VerifyRead, ReadCredential
<1>6. ReplacedForever'
    BY StoreFrame DEF IInv, TypeOK, VerifyRead, ReadCredential
<1>7. RegisteredIsActive'
    BY RegisteredFrame DEF IInv, TypeOK, Evicting, VerifyRead,
       ReadCredential
<1>8. ReadyIsRegistered'
    BY ReadyFrame, NoneIsNothing DEF IInv, TypeOK, Bindings, VerifyRead,
       ReadCredential
<1>9. (ShutDown /\ StoppedIsEmpty)'
    BY NoneIsNothing DEF IInv, TypeOK, Bindings, ShutDown, StoppedIsEmpty,
       VerifyRead, ReadCredential
<1> QED BY <1>1, <1>2, <1>3, <1>4, <1>5, <1>6, <1>7, <1>8, <1>9 DEF IInv

\* Authentication takes no lease.
LEMMA AuthenticatePreserves ==
    ASSUME IInv, NEW h \in Handshakes, Authenticate(h)
    PROVE  IInv'
<1>1. TypeOK'
  <2>1. conn' \in [Connections -> ConnStates]
    BY ClosingLemma DEF IInv, TypeOK, Authenticate
  <2>2. opc' \in [Operations -> OperationPhases]
    BY DEF IInv, TypeOK, Authenticate, EndAuthentication, Woken,
           OperationPhases
  <2>3. authCount' \in [Devices -> Nat]
    <3>1. authCount' = [authCount EXCEPT ![hdev[h]] = Decremented(@)]
      BY DEF Authenticate, EndAuthentication
    <3>2. hdev[h] \in Devices
      BY DEF IInv, Bindings, Authenticate
    <3> QED BY <3>1, <3>2 DEF IInv, TypeOK, Decremented
  <2>4. hpc' \in [Handshakes -> HandshakePhases]
    <3>1. \E p \in {"done", "authenticated"} : hpc' = [hpc EXCEPT ![h] = p]
      BY DEF Authenticate
    <3> QED BY <3>1 DEF IInv, TypeOK, HandshakePhases
  <2> QED BY <2>1, <2>2, <2>3, <2>4 DEF IInv, TypeOK, Authenticate
<1>2. Bindings'
  <2>1. \A b \in Connections :
           \/ conn'[b] = conn[b]
           \/ conn[b] \in {"handshaking", "ready"} /\ conn'[b] = "closing"
    BY ClosingLemma DEF IInv, TypeOK, Authenticate
  <2>2. \A o \in Operations : opc[o] = "idle" => opc'[o] = "idle"
    BY DEF IInv, TypeOK, Authenticate, EndAuthentication, Woken
  <2>3. \A o \in Operations : opc'[o] # "idle" => opc[o] # "idle"
    BY <2>2
  <2>4. \A i \in Handshakes : hpc'[i] # "idle" => hpc[i] # "idle"
    BY DEF IInv, TypeOK, Authenticate
  <2>5. UNCHANGED <<sdev, sgen, hb, hconn, hdev, hsec, registry, odev, okind>>
    BY DEF Authenticate
  <2> QED BY <2>1, <2>3, <2>4, <2>5, NoneIsNothing DEF IInv, TypeOK, Bindings
<1>3. CountsAreExact'
    BY CountsFrame DEF IInv, TypeOK, Leased, Marked, Authenticate,
       EndAuthentication, Woken, Closing, Decremented
<1>4. (LockIsExclusive /\ DrainedMeansNoLease /\ LeaseExcludesMutation)'
    BY PhaseFrame DEF IInv, TypeOK, Leased, Locked, Stopping, Authenticate,
       EndAuthentication, Woken, Closing, Decremented
<1>5. ValidatedIsActive'
    BY ValidatedFrame DEF IInv, TypeOK, Authenticate, EndAuthentication,
       Woken, Closing, Decremented
<1>6. ReplacedForever'
    BY StoreFrame DEF IInv, TypeOK, Authenticate, EndAuthentication, Woken,
       Closing, Decremented
<1>7. RegisteredIsActive'
    BY RegisteredFrame DEF IInv, TypeOK, Evicting, Authenticate,
       EndAuthentication, Woken, Closing, Decremented
<1>8. ReadyIsRegistered'
    BY ReadyFrame, NoneIsNothing DEF IInv, TypeOK, Bindings, Authenticate,
       EndAuthentication, Woken, Closing, Decremented
<1>9. (ShutDown /\ StoppedIsEmpty)'
  <2>1. \A b \in Connections : conn'[b] = conn[b] \/ conn'[b] = "closing"
    BY ClosingLemma DEF IInv, TypeOK, Authenticate
  <2>2. \A i \in Handshakes :
           hpc'[i] \notin {"idle", "done"} => hpc[i] \notin {"idle", "done"}
    BY DEF IInv, TypeOK, Authenticate
  <2>3. \A i \in Handshakes :
           hpc[i] # "idle" => hconn[i] \in Connections
    BY DEF IInv, Bindings
  <2>4. UNCHANGED <<hconn, registry, stopPc>>
    BY DEF Authenticate
  <2>5. ShutDown'
    BY <2>1, <2>2, <2>3, <2>4 DEF IInv, ShutDown
  <2>6. StoppedIsEmpty'
    BY <2>1, <2>4 DEF IInv, StoppedIsEmpty
  <2> QED BY <2>5, <2>6
<1> QED BY <1>1, <1>2, <1>3, <1>4, <1>5, <1>6, <1>7, <1>8, <1>9 DEF IInv

\* A lease is taken where no operation is under way.
LEMMA TakeReadyLeasePreserves ==
    ASSUME IInv, NEW h \in Handshakes, TakeReadyLease(h)
    PROVE  IInv'
<1> DEFINE d == hdev[h]
<1>1. /\ hpc[h] = "authenticated" /\ hconn[h] \in Connections /\ d \in Devices
      /\ hpc'[h] \in {"done", "validate"}
      /\ \A i \in Handshakes : i # h => hpc'[i] = hpc[i]
    BY DEF IInv, TypeOK, Bindings, TakeReadyLease
<1>2. \A b \in Connections :
         \/ conn'[b] = conn[b]
         \/ conn[b] \in {"handshaking", "ready"} /\ conn'[b] = "closing"
    BY ClosingLemma DEF IInv, TypeOK, TakeReadyLease
<1>3. TypeOK'
  <2>1. conn' \in [Connections -> ConnStates]
    BY ClosingLemma DEF IInv, TypeOK, TakeReadyLease
  <2>2. hpc' \in [Handshakes -> HandshakePhases]
    <3>1. \E p \in {"done", "validate"} : hpc' = [hpc EXCEPT ![h] = p]
      BY DEF TakeReadyLease
    <3> QED BY <3>1 DEF IInv, TypeOK, HandshakePhases
  <2>3. readyCount' \in [Devices -> Nat]
    BY DEF IInv, TypeOK, TakeReadyLease
  <2> QED BY <2>1, <2>2, <2>3 DEF IInv, TypeOK, TakeReadyLease
<1>4. Bindings'
  <2>1. UNCHANGED <<sdev, sgen, hb, hconn, hdev, hsec, registry, opc, odev,
                    okind>>
    BY DEF TakeReadyLease
  <2> QED BY <1>1, <1>2, <2>1, NoneIsNothing DEF IInv, TypeOK, Bindings
<1>5. CountsAreExact'
  <2>1. CASE UNCHANGED readyCount /\ hpc'[h] = "done"
    BY <1>1, <2>1, CountsFrame DEF IInv, TakeReadyLease, Leased, Marked
  <2>2. CASE /\ readyCount' = [readyCount EXCEPT ![d] = @ + 1]
             /\ hpc'[h] = "validate"
    <3>1. UNCHANGED <<hdev, opc, odev, mutationCount, stopPc>>
      BY DEF TakeReadyLease
    <3>2. \A e \in Devices :
             /\ LeaseSet(e)' = IF e = d THEN LeaseSet(e) \cup {h}
                                        ELSE LeaseSet(e)
             /\ MarkSet(e)' = MarkSet(e)
      BY <1>1, <2>2, <3>1 DEF LeaseSet, MarkSet, Leased, Marked
    <3>3. h \notin LeaseSet(d)
      BY <1>1 DEF LeaseSet, Leased
    <3>4. \A e \in Devices : readyCount'[e] = IF e = d THEN readyCount[e] + 1
                                                     ELSE readyCount[e]
      BY <2>2 DEF IInv, TypeOK
    <3>5. ASSUME stopPc # "stopped", NEW e \in Devices
          PROVE  readyCount'[e] = Cardinality(LeaseSet(e)')
      <4>1. readyCount[e] = Cardinality(LeaseSet(e))
        BY <3>5 DEF IInv, CountsAreExact
      <4>2. IsFiniteSet(LeaseSet(e))
        BY TasksAreFinite DEF LeaseSet
      <4>3. CASE e = d
        <5>1. Cardinality(LeaseSet(e) \cup {h}) = Cardinality(LeaseSet(e)) + 1
          BY <4>2, <4>3, <3>3, FS_AddElement
        <5> QED BY <5>1, <4>1, <4>3, <3>2, <3>4
      <4>4. CASE e # d
        BY <4>1, <4>4, <3>2, <3>4
      <4> QED BY <4>3, <4>4
    <3>6. ASSUME stopPc # "stopped", NEW e \in Devices
          PROVE  mutationCount'[e] = Cardinality(MarkSet(e)')
      BY <3>1, <3>2, <3>6 DEF IInv, CountsAreExact
    <3> QED BY <3>1, <3>5, <3>6 DEF CountsAreExact
  <2> QED BY <1>1, <2>1, <2>2 DEF IInv, TypeOK, TakeReadyLease
<1>6. (LockIsExclusive /\ DrainedMeansNoLease /\ LeaseExcludesMutation)'
  <2>1. CASE hpc'[h] = "done"
    BY <1>1, <2>1, PhaseFrame
       DEF IInv, TakeReadyLease, Leased, Locked, Stopping
  <2>2. CASE hpc'[h] = "validate"
    <3>1. ~Stopping /\ ~MutationActive(d)
      BY <2>2 DEF IInv, TypeOK, TakeReadyLease
    <3>2. \A o \in Operations : odev[o] = d => ~Marked(o)
      BY <1>1, <3>1, NoMark DEF IInv
    <3>3. UNCHANGED <<hdev, opc, odev, lockQueue, stopPc>>
      BY DEF TakeReadyLease
    <3>4. LockIsExclusive'
      BY <3>3 DEF IInv, LockIsExclusive, Locked
    <3>5. (DrainedMeansNoLease /\ LeaseExcludesMutation)'
      BY <1>1, <3>2, <3>3 DEF IInv, DrainedMeansNoLease,
         LeaseExcludesMutation, Leased, Marked, Stopping
    <3> QED BY <3>4, <3>5
  <2> QED BY <1>1, <2>1, <2>2
<1>7. ValidatedIsActive'
    BY <1>1, ValidatedFrame DEF IInv, TakeReadyLease
<1>8. ReplacedForever'
    BY StoreFrame DEF IInv, TakeReadyLease
<1>9. RegisteredIsActive'
    BY RegisteredFrame DEF IInv, TakeReadyLease, Evicting
<1>10. ReadyIsRegistered'
    BY <1>2, ReadyFrame DEF IInv, TakeReadyLease
<1>11. (ShutDown /\ StoppedIsEmpty)'
  <2>1. UNCHANGED <<hconn, registry, stopPc>>
    BY DEF TakeReadyLease
  <2>2. \A i \in Handshakes :
           hpc'[i] \notin {"idle", "done"} => hpc[i] \notin {"idle", "done"}
    BY <1>1
  <2>3. \A i \in Handshakes :
           hpc[i] # "idle" => hconn[i] \in Connections
    BY DEF IInv, Bindings
  <2>4. ShutDown'
    BY <1>2, <2>1, <2>2, <2>3 DEF IInv, ShutDown
  <2>5. StoppedIsEmpty'
    BY <1>2, <2>1 DEF IInv, StoppedIsEmpty
  <2> QED BY <2>4, <2>5
<1> QED BY <1>3, <1>4, <1>5, <1>6, <1>7, <1>8, <1>9, <1>10, <1>11 DEF IInv

\* The second verification is right when it is made.
LEMMA ValidateReadPreserves ==
    ASSUME IInv, NEW h \in Handshakes, ValidateRead(h)
    PROVE  IInv'
<1>1. TypeOK'
    BY NoneIsNothing DEF IInv, TypeOK, Bindings, ConnStates,
       HandshakePhases, OperationPhases, Generations, Unread, Kinds,
       ValidateRead, ReadCredential
<1>2. Bindings'
    BY NoneIsNothing DEF IInv, TypeOK, Bindings, ValidateRead,
       ReadCredential
<1>3. CountsAreExact'
    BY CountsFrame DEF IInv, TypeOK, Leased, Marked, ValidateRead,
       ReadCredential
<1>4. (LockIsExclusive /\ DrainedMeansNoLease /\ LeaseExcludesMutation)'
    BY PhaseFrame DEF IInv, TypeOK, Leased, Locked, Stopping, ValidateRead,
       ReadCredential
<1>5. ValidatedIsActive'
  <2>1. /\ hpc' = [hpc EXCEPT ![h] = "validated"]
        /\ hok' = [hok EXCEPT ![h] = (active[hdev[h]] = hsec[h])]
        /\ UNCHANGED <<hdev, hsec, active>>
    BY DEF ValidateRead, ReadCredential, credVars
  <2>2. /\ hpc \in [Handshakes -> HandshakePhases]
        /\ hok \in [Handshakes -> BOOLEAN]
    BY DEF IInv, TypeOK
  <2>3. hok'[h] = (active[hdev[h]] = hsec[h])
    BY <2>1, <2>2
  <2>4. \A i \in Handshakes \ {h} : hpc'[i] = hpc[i] /\ hok'[i] = hok[i]
    BY <2>1, <2>2
  <2> QED BY <2>1, <2>3, <2>4 DEF IInv, ValidatedIsActive
<1>6. ReplacedForever'
    BY StoreFrame DEF IInv, ValidateRead, ReadCredential
<1>7. RegisteredIsActive'
    BY RegisteredFrame DEF IInv, TypeOK, Evicting, ValidateRead,
       ReadCredential
<1>8. ReadyIsRegistered'
    BY ReadyFrame, NoneIsNothing DEF IInv, TypeOK, Bindings, ValidateRead,
       ReadCredential
<1>9. (ShutDown /\ StoppedIsEmpty)'
    BY NoneIsNothing DEF IInv, TypeOK, Bindings, ShutDown, StoppedIsEmpty,
       ValidateRead, ReadCredential
<1> QED BY <1>1, <1>2, <1>3, <1>4, <1>5, <1>6, <1>7, <1>8, <1>9 DEF IInv

\* A handshake gives its lease back and may register its session.
LEMMA BecomeReadyPreserves ==
    ASSUME IInv, NEW h \in Handshakes, BecomeReady(h)
    PROVE  IInv'
<1> DEFINE c == hconn[h]
           d == hdev[h]
           Registers == /\ conn[c] = "handshaking" /\ hok[h]
                        /\ sdev' = [sdev EXCEPT ![c] = d]
                        /\ registry' = [registry EXCEPT ![d] = c]
                        /\ sgen' = [sgen EXCEPT ![c] = hsec[h]]
                        /\ lapsed' = [lapsed EXCEPT ![c] = FALSE]
                        /\ \E state \in {"ready", "closing"} :
                              conn' = [Closing(conn, registry[d])
                                          EXCEPT ![c] = state]
           AckFails == /\ conn[c] = "handshaking"
                       /\ sdev' = [sdev EXCEPT ![c] = d]
                       /\ conn' = [conn EXCEPT ![c] = "closing"]
                       /\ UNCHANGED <<sgen, lapsed, registry>>
           Refused == /\ conn' = Closing(conn, c) \/ conn' = conn
                      /\ UNCHANGED <<sdev, sgen, lapsed, registry>>
<1>1. Registers \/ AckFails \/ Refused
    BY DEF BecomeReady, Register
<1>2. /\ hpc[h] = "validated" /\ c \in Connections /\ d \in Devices
      /\ hsec[h] \in Generations /\ hsec[h] # 0
      /\ hpc' = [hpc EXCEPT ![h] = "done"]
      /\ ReleaseReadyLease(d)
      /\ UNCHANGED <<hb, hbSeen, hconn, hdev, hsec, hok, credVars,
                     mutationCount, authCount, okind, odev, osnap,
                     ocommitted, lockQueue, stopPc>>
    BY DEF IInv, TypeOK, Bindings, BecomeReady
<1>3. \A i \in Handshakes : hpc'[i] = IF i = h THEN "done" ELSE hpc[i]
    BY <1>2 DEF IInv, TypeOK
<1>4. \A o \in Operations :
         opc'[o] = opc[o] \/ (/\ odev[o] = d /\ opc[o] = "leaseWait"
                              /\ opc'[o] = "leaseGo"
                              /\ Decremented(readyCount[d]) = 0)
    BY <1>2 DEF ReleaseReadyLease, Woken
<1>5. \A e \in Devices : registry[e] # None =>
         registry[e] \in Connections /\ sdev[registry[e]] = e
         /\ conn[registry[e]] \in {"ready", "closing"}
    BY DEF IInv, TypeOK, Bindings
<1>6. /\ conn' \in [Connections -> ConnStates]
      /\ \A b \in Connections :
            \/ conn'[b] = conn[b]
            \/ conn[b] \in {"handshaking", "ready"} /\ conn'[b] = "closing"
            \/ b = c /\ Registers
      /\ Registers => /\ conn'[c] \in {"ready", "closing"}
                      /\ registry[d] # None /\ registry[d] # c =>
                            conn'[registry[d]] # "ready"
  <2>1. CASE Registers
    <3>1. Closing(conn, registry[d]) \in [Connections -> ConnStates]
      BY ClosingLemma DEF IInv, TypeOK
    <3>2. PICK state \in {"ready", "closing"} :
             conn' = [Closing(conn, registry[d]) EXCEPT ![c] = state]
      BY <2>1
    <3>3. \A b \in Connections :
             \/ Closing(conn, registry[d])[b] = conn[b]
             \/ /\ conn[b] \in {"handshaking", "ready"}
                /\ Closing(conn, registry[d])[b] = "closing"
      BY ClosingLemma DEF IInv, TypeOK
    <3>4. registry[d] \in Connections =>
             Closing(conn, registry[d])[registry[d]] # "ready"
      BY ClosingLemma DEF IInv, TypeOK
    <3>5. registry[d] # None => registry[d] \in Connections
      BY <1>2, <1>5
    <3> QED BY <1>2, <2>1, <3>1, <3>2, <3>3, <3>4, <3>5 DEF ConnStates
  <2>2. CASE AckFails
    BY <1>2, <2>2 DEF IInv, TypeOK, ConnStates
  <2>3. CASE Refused /\ ~Registers
    <3>1. CASE conn' = Closing(conn, c)
      BY <3>1, <2>3, <1>2, ClosingLemma DEF IInv, TypeOK
    <3>2. CASE conn' = conn
      BY <3>2, <2>3 DEF IInv, TypeOK
    <3> QED BY <2>3, <3>1, <3>2
  <2> QED BY <1>1, <2>1, <2>2, <2>3
<1>7. /\ \A b \in Connections :
            \/ sdev'[b] = sdev[b]
            \/ b = c /\ sdev'[b] = d /\ conn[c] = "handshaking"
      /\ Registers => sdev'[c] = d
      /\ \A b \in Connections :
            IF Registers /\ b = c THEN sgen'[b] = hsec[h]
                                  ELSE sgen'[b] = sgen[b]
      /\ \A e \in Devices :
            IF Registers /\ e = d THEN registry'[e] = c
                                  ELSE registry'[e] = registry[e]
  <2>1. CASE Registers
    BY <1>2, <2>1 DEF IInv, TypeOK
  <2>2. CASE ~Registers
    BY <1>1, <1>2, <2>2 DEF IInv, TypeOK
  <2> QED BY <2>1, <2>2
<1> HIDE DEF Registers
<1>8. \A e \in Devices : registry[e] # c \/ conn[c] \in {"ready", "closing"}
    BY <1>2, <1>5, NoneIsNothing
<1>9. Registers => conn[c] = "handshaking" /\ hok[h]
    BY DEF Registers
<1>10. TypeOK'
  <2>1. /\ sdev' \in [Connections -> Devices \cup {None}]
        /\ sgen' \in [Connections -> Generations]
        /\ lapsed' \in [Connections -> BOOLEAN]
        /\ registry' \in [Devices -> Connections \cup {None}]
    <3>1. CASE Registers
      BY <1>2, <3>1 DEF IInv, TypeOK, Registers
    <3>2. CASE ~Registers
      BY <1>1, <1>2, <3>2 DEF IInv, TypeOK
    <3> QED BY <3>1, <3>2
  <2>2. /\ opc' \in [Operations -> OperationPhases]
        /\ readyCount' \in [Devices -> Nat]
    <3>1. opc' \in [Operations -> OperationPhases]
      BY <1>2 DEF IInv, TypeOK, ReleaseReadyLease, Woken, OperationPhases
    <3>2. readyCount' \in [Devices -> Nat]
      BY <1>2 DEF IInv, TypeOK, ReleaseReadyLease, Decremented
    <3> QED BY <3>1, <3>2
  <2>3. hpc' \in [Handshakes -> HandshakePhases]
    BY <1>2 DEF IInv, TypeOK, HandshakePhases
  <2> QED BY <1>2, <1>6, <2>1, <2>2, <2>3 DEF IInv, TypeOK
<1>11. Bindings'
  <2>1. \A i \in Handshakes : hpc'[i] # "idle" =>
           /\ hconn'[i] \in Connections /\ hdev'[i] \in Devices
           /\ hsec'[i] # 0 /\ conn'[hconn'[i]] # "new"
    BY <1>2, <1>3, <1>6 DEF IInv, Bindings
  <2>2. \A o \in Operations : opc'[o] # "idle" =>
           odev'[o] \in Devices /\ okind'[o] \in Kinds
    BY <1>2, <1>4 DEF IInv, Bindings
  <2>3. \A b \in Connections :
           /\ conn'[b] = "ready" => sdev'[b] \in Devices
           /\ hb'[b] # "idle" => /\ conn'[b] \notin {"new", "handshaking"}
                                /\ sdev'[b] \in Devices
    BY <1>2, <1>6, <1>7 DEF IInv, Bindings
  <2>4. \A e \in Devices : registry'[e] # None =>
           /\ conn'[registry'[e]] \in {"ready", "closing"}
           /\ sdev'[registry'[e]] = e /\ sgen'[registry'[e]] # 0
    <3>1. SUFFICES ASSUME NEW e \in Devices, registry'[e] # None
                   PROVE  /\ conn'[registry'[e]] \in {"ready", "closing"}
                          /\ sdev'[registry'[e]] = e
                          /\ sgen'[registry'[e]] # 0
      OBVIOUS
    <3>2. CASE Registers /\ e = d
      BY <1>2, <1>6, <1>7, <3>2
    <3>3. CASE ~(Registers /\ e = d)
      <4>1. registry'[e] = registry[e]
        BY <1>7, <3>3
      <4>2. registry[e] # c \/ ~Registers
        BY <1>8, <1>9
      <4>3. sgen[registry[e]] # 0
        BY <3>1, <4>1 DEF IInv, Bindings
      <4> QED BY <1>5, <1>6, <1>7, <3>1, <4>1, <4>2, <4>3
    <3> QED BY <3>2, <3>3
  <2> QED BY <2>1, <2>2, <2>3, <2>4 DEF Bindings
<1>12. /\ h \in LeaseSet(d)
       /\ \A e \in Devices : LeaseSet(e)' = IF e = d THEN LeaseSet(e) \ {h}
                                                    ELSE LeaseSet(e)
    BY <1>2, <1>3 DEF LeaseSet, Leased
<1>12a. \A e \in Devices :
           IF e = d
           THEN /\ Cardinality(LeaseSet(e)) \in Nat \ {0}
                /\ Cardinality(LeaseSet(e)') = Cardinality(LeaseSet(e)) - 1
           ELSE Cardinality(LeaseSet(e)') = Cardinality(LeaseSet(e))
  <2>1. SUFFICES ASSUME NEW e \in Devices
        PROVE  IF e = d
           THEN /\ Cardinality(LeaseSet(e)) \in Nat \ {0}
                /\ Cardinality(LeaseSet(e)') = Cardinality(LeaseSet(e)) - 1
           ELSE Cardinality(LeaseSet(e)') = Cardinality(LeaseSet(e))
    OBVIOUS
  <2>2. IsFiniteSet(LeaseSet(e)) /\ Cardinality(LeaseSet(e)) \in Nat
    BY TasksAreFinite DEF LeaseSet
  <2>3. CASE e = d
    <3>1. Cardinality(LeaseSet(e) \ {h}) = Cardinality(LeaseSet(e)) - 1
      BY <1>12, <2>2, <2>3, FS_RemoveElement
    <3>2. Cardinality(LeaseSet(e)) # 0
      BY <1>12, <2>2, <2>3, FS_EmptySet
    <3> QED BY <1>12, <2>2, <2>3, <3>1, <3>2
  <2>4. CASE e # d
    BY <1>12, <2>4
  <2> QED BY <2>3, <2>4
<1>13. stopPc # "stopped" => readyCount[d] = Cardinality(LeaseSet(d))
    BY <1>2 DEF IInv, CountsAreExact
<1>14. CountsAreExact'
  <2>1. \A e \in Devices : MarkSet(e)' = MarkSet(e)
    BY <1>2, <1>4 DEF MarkSet, Marked
  <2>2. \A e \in Devices : readyCount'[e] = IF e = d
           THEN Decremented(readyCount[e]) ELSE readyCount[e]
    BY <1>2 DEF IInv, TypeOK, ReleaseReadyLease
  <2>3. ASSUME stopPc # "stopped", NEW e \in Devices
        PROVE  readyCount'[e] = Cardinality(LeaseSet(e)')
    <3>1. readyCount[e] = Cardinality(LeaseSet(e))
      BY <2>3 DEF IInv, CountsAreExact
    <3> QED BY <1>12a, <2>2, <3>1 DEF Decremented
  <2>4. ASSUME stopPc # "stopped", NEW e \in Devices
        PROVE  mutationCount'[e] = Cardinality(MarkSet(e)')
    BY <1>2, <2>1, <2>4 DEF IInv, CountsAreExact
  <2> QED BY <1>2, <2>3, <2>4 DEF CountsAreExact
<1>15. (LockIsExclusive /\ DrainedMeansNoLease /\ LeaseExcludesMutation)'
  <2>1. LockIsExclusive'
    BY <1>2, <1>4 DEF IInv, LockIsExclusive, Locked
  <2>2. LeaseExcludesMutation'
    BY <1>2, <1>3, <1>4 DEF IInv, LeaseExcludesMutation, Leased
  <2>3. ASSUME NEW o \in Operations, NEW i \in Handshakes,
               opc'[o] = "leaseGo", ~Stopping, Leased(i)'
        PROVE  odev[o] # hdev[i]
    <3>1. Leased(i)
      BY <1>3, <2>3 DEF Leased
    <3>2. CASE opc[o] = "leaseGo"
      BY <2>3, <3>1, <3>2 DEF IInv, DrainedMeansNoLease
    <3>3. CASE odev[o] = d /\ Decremented(readyCount[d]) = 0
      <4>1. Cardinality(LeaseSet(d)') = 0
        BY <1>2, <1>12a, <1>13, <2>3, <3>3 DEF Stopping, Decremented
      <4>2. LeaseSet(d)' = {}
        <5>1. IsFiniteSet(LeaseSet(d) \ {h})
          BY TasksAreFinite DEF LeaseSet
        <5> QED BY <1>2, <1>12, <4>1, <5>1, FS_EmptySet
      <4> QED BY <1>2, <2>3, <3>3, <4>2 DEF LeaseSet
    <3> QED BY <1>4, <2>3, <3>2, <3>3
  <2>4. DrainedMeansNoLease'
    BY <1>2, <2>3 DEF DrainedMeansNoLease, Stopping
  <2> QED BY <2>1, <2>2, <2>4
<1>16. ValidatedIsActive'
    BY <1>2, <1>3, ValidatedFrame DEF IInv
<1>17. ReplacedForever'
    BY <1>2, <1>4, StoreFrame DEF IInv
<1>18. RegisteredIsActive'
  <2>1. SUFFICES ASSUME NEW e \in Devices, registry'[e] # None
                 PROVE  \/ sgen'[registry'[e]] = active[e]
                        \/ \E o \in Operations :
                              Evicting(o)' /\ odev[o] = e
                                 /\ osnap[o] = sgen'[registry'[e]]
    BY <1>2 DEF RegisteredIsActive
  <2>2. CASE Registers /\ e = d
    BY <1>2, <1>7, <1>9, <2>2 DEF IInv, ValidatedIsActive
  <2>3. CASE ~(Registers /\ e = d)
    <3>1. registry'[e] = registry[e]
      BY <1>7, <2>3
    <3>2. sgen'[registry[e]] = sgen[registry[e]]
      BY <1>5, <1>7, <1>8, <1>9, <2>1, <3>1
    <3>3. \A o \in Operations : Evicting(o) => Evicting(o)'
      BY <1>4 DEF Evicting
    <3> QED BY <2>1, <3>1, <3>2, <3>3 DEF IInv, RegisteredIsActive
  <2> QED BY <2>2, <2>3
<1>19. ReadyIsRegistered'
  <2>1. SUFFICES ASSUME NEW b \in Connections, conn'[b] = "ready"
                 PROVE  registry'[sdev'[b]] = b \/ hb[b] = "failed"
    BY <1>2 DEF ReadyIsRegistered
  <2>2. CASE Registers /\ b = c
    BY <1>2, <1>7, <2>2
  <2>3. CASE ~(Registers /\ b = c)
    <3>1. conn[b] = "ready" /\ sdev'[b] = sdev[b] /\ sdev[b] \in Devices
      BY <1>6, <1>7, <2>1, <2>3 DEF IInv, Bindings
    <3>2. registry[sdev[b]] = b \/ hb[b] = "failed"
      BY <3>1 DEF IInv, ReadyIsRegistered
    <3>3. Registers /\ sdev[b] = d /\ registry[d] = b => FALSE
      BY <1>6, <2>1, <2>3, NoneIsNothing
    <3> QED BY <1>7, <3>1, <3>2, <3>3
  <2> QED BY <2>2, <2>3
<1>20. (ShutDown /\ StoppedIsEmpty)'
  <2>1. stopPc \in {"closing", "finalized", "stopped"} => ~Registers
    BY <1>2, <1>9 DEF IInv, ShutDown
  <2>2. \A i \in Handshakes : hpc'[i] \notin {"idle", "done"} =>
           hpc[i] \notin {"idle", "done"} /\ hconn[i] \in Connections
    BY <1>3 DEF IInv, Bindings
  <2>3. ShutDown'
    BY <1>2, <1>6, <2>1, <2>2 DEF IInv, ShutDown
  <2>4. StoppedIsEmpty'
    BY <1>2, <1>6, <1>7, <2>1 DEF IInv, StoppedIsEmpty
  <2> QED BY <2>3, <2>4
<1> QED BY <1>10, <1>11, <1>14, <1>15, <1>16, <1>17, <1>18, <1>19, <1>20
        DEF IInv

-----------------------------------------------------------------------------
(* Lifecycle operations. *)

\* An operation is counted and queued.
LEMMA BeginOperationPreserves ==
    ASSUME IInv, NEW o \in Operations, NEW k \in Kinds, NEW d \in Devices,
           BeginOperation(o, k, d)
    PROVE  IInv'
<1>1. /\ opc[o] = "idle" /\ ~Stopping
      /\ \A p \in Operations :
            /\ opc'[p] = IF p = o THEN "queued" ELSE opc[p]
            /\ odev'[p] = IF p = o THEN d ELSE odev[p]
            /\ okind'[p] = IF p = o THEN k ELSE okind[p]
      /\ \A e \in Devices : /\ mutationCount'[e] = IF e = d
                                                   THEN mutationCount[e] + 1
                                                   ELSE mutationCount[e]
                            /\ lockQueue'[e] = IF e = d
                                               THEN Append(lockQueue[e], o)
                                               ELSE lockQueue[e]
    BY DEF IInv, TypeOK, BeginOperation
<1>2. UNCHANGED <<connVars, hsVars, credVars, registry, authCount, readyCount,
                  osnap, ocommitted, stopPc>>
    BY DEF BeginOperation
<1>3. \A e \in Devices : lockQueue[e] \in Seq(Operations)
    BY DEF IInv, TypeOK
<1>4. TypeOK'
  <2>1. /\ opc' \in [Operations -> OperationPhases]
        /\ odev' \in [Operations -> Devices \cup {None}]
        /\ okind' \in [Operations -> Kinds \cup {"none"}]
    BY DEF IInv, TypeOK, BeginOperation, OperationPhases
  <2>2. mutationCount' \in [Devices -> Nat]
    BY DEF IInv, TypeOK, BeginOperation
  <2>3. lockQueue' \in [Devices -> Seq(Operations)]
    <3>1. Append(lockQueue[d], o) \in Seq(Operations)
      BY <1>3
    <3> QED BY <3>1 DEF IInv, TypeOK, BeginOperation
  <2> QED BY <1>2, <2>1, <2>2, <2>3 DEF IInv, TypeOK
<1>5. Bindings'
    BY <1>1, <1>2 DEF IInv, Bindings
<1>6. CountsAreExact'
  <2>1. \A e \in Devices :
           /\ LeaseSet(e)' = LeaseSet(e)
           /\ MarkSet(e)' = IF e = d THEN MarkSet(e) \cup {o} ELSE MarkSet(e)
    BY <1>1, <1>2 DEF LeaseSet, MarkSet, Leased, Marked
  <2>2. o \notin MarkSet(d)
    BY <1>1 DEF MarkSet, Marked
  <2>3. ASSUME stopPc # "stopped", NEW e \in Devices
        PROVE  mutationCount'[e] = Cardinality(MarkSet(e)')
    <3>1. mutationCount[e] = Cardinality(MarkSet(e))
      BY <2>3 DEF IInv, CountsAreExact
    <3>2. IsFiniteSet(MarkSet(e))
      BY TasksAreFinite DEF MarkSet
    <3>3. CASE e = d
      <4>1. Cardinality(MarkSet(e) \cup {o}) = Cardinality(MarkSet(e)) + 1
        BY <3>2, <3>3, <2>2, FS_AddElement
      <4> QED BY <4>1, <3>1, <3>3, <2>1, <1>1
    <3>4. CASE e # d
      BY <3>1, <3>4, <2>1, <1>1
    <3> QED BY <3>3, <3>4
  <2>4. ASSUME stopPc # "stopped", NEW e \in Devices
        PROVE  readyCount'[e] = Cardinality(LeaseSet(e)')
    BY <1>2, <2>1, <2>4 DEF IInv, CountsAreExact
  <2> QED BY <1>2, <2>3, <2>4 DEF CountsAreExact
<1>7. LockIsExclusive'
  <2>1. SUFFICES ASSUME NEW p \in Operations, Locked(p)'
                 PROVE  /\ lockQueue'[odev'[p]] # <<>>
                        /\ Head(lockQueue'[odev'[p]]) = p
    BY DEF LockIsExclusive
  <2>2. p # o /\ Locked(p)
    BY <1>1, <2>1 DEF Locked
  <2>3. /\ odev'[p] = odev[p] /\ odev[p] \in Devices
        /\ lockQueue[odev[p]] # <<>> /\ Head(lockQueue[odev[p]]) = p
    BY <1>1, <2>2 DEF IInv, Bindings, LockIsExclusive, Locked
  <2>4. /\ Append(lockQueue[odev[p]], o) # <<>>
        /\ Head(Append(lockQueue[odev[p]], o)) = Head(lockQueue[odev[p]])
    BY <1>3, <2>3
  <2> QED BY <1>1, <2>3, <2>4
<1>8. (DrainedMeansNoLease /\ LeaseExcludesMutation)'
    BY <1>1, <1>2
       DEF IInv, DrainedMeansNoLease, LeaseExcludesMutation, Leased, Stopping
<1>9. ValidatedIsActive'
    BY <1>2, ValidatedFrame DEF IInv
<1>10. ReplacedForever'
  <2>1. \A p \in Operations : ocommitted[p] => p # o
    BY <1>1 DEF IInv, ReplacedForever
  <2> QED BY <1>1, <1>2, <2>1, StoreFrame DEF IInv
<1>11. RegisteredIsActive'
    BY <1>1, <1>2, RegisteredFrame DEF IInv, Evicting
<1>12. ReadyIsRegistered'
    BY <1>2, ReadyFrame DEF IInv
<1>13. (ShutDown /\ StoppedIsEmpty)'
    BY <1>2 DEF IInv, ShutDown, StoppedIsEmpty
<1> QED BY <1>4, <1>5, <1>6, <1>7, <1>8, <1>9, <1>10, <1>11, <1>12, <1>13
        DEF IInv

\* The snapshot is read once, by an operation that has not committed.
LEMMA ReadSnapshotPreserves ==
    ASSUME IInv, NEW o \in Operations, ReadSnapshot(o)
    PROVE  IInv'
<1>1. TypeOK'
    BY NoneIsNothing DEF IInv, TypeOK, Bindings, ConnStates,
       HandshakePhases, OperationPhases, Generations, Unread, Kinds,
       ReadSnapshot
<1>2. Bindings'
    BY NoneIsNothing DEF IInv, TypeOK, Bindings, ReadSnapshot
<1>3. CountsAreExact'
    BY CountsFrame DEF IInv, TypeOK, Leased, Marked, ReadSnapshot
<1>4. (LockIsExclusive /\ DrainedMeansNoLease /\ LeaseExcludesMutation)'
    BY PhaseFrame DEF IInv, TypeOK, Leased, Locked, Stopping, ReadSnapshot
<1>5. ValidatedIsActive'
    BY ValidatedFrame DEF IInv, TypeOK, ReadSnapshot
<1>6. ReplacedForever'
    BY StoreFrame DEF IInv, TypeOK, ReplacedForever, ReadSnapshot, Unread,
       Generations
<1>7. RegisteredIsActive'
    BY RegisteredFrame DEF IInv, TypeOK, Evicting, ReadSnapshot
<1>8. ReadyIsRegistered'
    BY ReadyFrame, NoneIsNothing DEF IInv, TypeOK, Bindings, ReadSnapshot
<1>9. (ShutDown /\ StoppedIsEmpty)'
    BY NoneIsNothing DEF IInv, TypeOK, Bindings, ShutDown, StoppedIsEmpty,
       ReadSnapshot
<1> QED BY <1>1, <1>2, <1>3, <1>4, <1>5, <1>6, <1>7, <1>8, <1>9 DEF IInv

\* The lock is taken by the head of the queue, and passes the drain only
\* where no lease is held.
LEMMA AcquireLockPreserves ==
    ASSUME IInv, NEW o \in Operations, AcquireLock(o)
    PROVE  IInv'
<1>1. /\ opc[o] = "queued" /\ odev[o] \in Devices
      /\ lockQueue[odev[o]] # <<>> /\ Head(lockQueue[odev[o]]) = o
      /\ \A p \in Operations : p # o => opc'[p] = opc[p]
      /\ opc'[o] \in {"leaseGo", "leaseWait"}
      /\ opc'[o] = "leaseGo" => Stopping \/ readyCount[odev[o]] = 0
    BY DEF IInv, TypeOK, Bindings, AcquireLock
<1>2. UNCHANGED <<connVars, hsVars, credVars, registry, mutationCount,
                  authCount, readyCount, okind, odev, osnap, ocommitted,
                  lockQueue, stopPc>>
    BY DEF AcquireLock
<1>3. TypeOK'
  <2>1. opc' \in [Operations -> OperationPhases]
    BY DEF IInv, TypeOK, AcquireLock, OperationPhases
  <2> QED BY <1>2, <2>1 DEF IInv, TypeOK
<1>4. Bindings'
    BY <1>1, <1>2 DEF IInv, Bindings
<1>5. CountsAreExact'
    BY <1>1, <1>2, CountsFrame DEF IInv, Leased, Marked
<1>6. LockIsExclusive'
    BY <1>1, <1>2 DEF IInv, LockIsExclusive, Locked
<1>7. DrainedMeansNoLease'
  <2>1. ASSUME ~Stopping, opc'[o] = "leaseGo"
        PROVE  \A h \in Handshakes : Leased(h) => hdev[h] # odev[o]
    BY <1>1, <2>1, NoLease DEF IInv, Stopping
  <2> QED BY <1>1, <1>2, <2>1 DEF IInv, DrainedMeansNoLease, Leased, Stopping
<1>8. LeaseExcludesMutation'
    BY <1>1, <1>2 DEF IInv, LeaseExcludesMutation, Leased
<1>9. ValidatedIsActive'
    BY <1>2, ValidatedFrame DEF IInv
<1>10. ReplacedForever'
    BY <1>1, <1>2, StoreFrame DEF IInv
<1>11. RegisteredIsActive'
    BY <1>1, <1>2, RegisteredFrame DEF IInv, Evicting
<1>12. ReadyIsRegistered'
    BY <1>2, ReadyFrame DEF IInv
<1>13. (ShutDown /\ StoppedIsEmpty)'
    BY <1>2 DEF IInv, ShutDown, StoppedIsEmpty
<1> QED BY <1>3, <1>4, <1>5, <1>6, <1>7, <1>8, <1>9, <1>10, <1>11, <1>12,
           <1>13 DEF IInv

\* A body starts where the drain left no lease.
LEMMA EnterBodyPreserves ==
    ASSUME IInv, NEW o \in Operations, EnterBody(o)
    PROVE  IInv'
<1>1. TypeOK'
    BY NoneIsNothing DEF IInv, TypeOK, Bindings, ConnStates,
       HandshakePhases, OperationPhases, Generations, Unread, Kinds,
       EnterBody, AuthDrainPhase
<1>2. Bindings'
    BY NoneIsNothing DEF IInv, TypeOK, Bindings, EnterBody, AuthDrainPhase
<1>3. CountsAreExact'
    BY CountsFrame DEF IInv, TypeOK, Leased, Marked, EnterBody,
       AuthDrainPhase
<1>4. (LockIsExclusive /\ DrainedMeansNoLease /\ LeaseExcludesMutation)'
  <2>1. opc[o] = "leaseGo"
    BY DEF EnterBody
  <2>2. \A p \in Operations : p # o => opc'[p] = opc[p]
    BY DEF IInv, TypeOK, EnterBody
  <2>3. (opc'[o] = "body" /\ ~Stopping) \/ opc'[o] \in {"authGo", "authWait"}
    BY DEF IInv, TypeOK, EnterBody, AuthDrainPhase
  <2>4. UNCHANGED <<hpc, hdev, odev, lockQueue, stopPc>>
    BY DEF EnterBody
  <2>5. LockIsExclusive'
    BY <2>1, <2>2, <2>4 DEF IInv, LockIsExclusive, Locked
  <2>6. DrainedMeansNoLease'
    BY <2>2, <2>3, <2>4 DEF IInv, DrainedMeansNoLease, Stopping, Leased
  <2>7. LeaseExcludesMutation'
    BY <2>1, <2>2, <2>3, <2>4
       DEF IInv, DrainedMeansNoLease, LeaseExcludesMutation, Leased
  <2> QED BY <2>5, <2>6, <2>7
<1>5. ValidatedIsActive'
    BY ValidatedFrame DEF IInv, TypeOK, EnterBody, AuthDrainPhase
<1>6. ReplacedForever'
    BY StoreFrame DEF IInv, TypeOK, EnterBody, AuthDrainPhase
<1>7. RegisteredIsActive'
    BY RegisteredFrame DEF IInv, TypeOK, Evicting, EnterBody, AuthDrainPhase
<1>8. ReadyIsRegistered'
    BY ReadyFrame, NoneIsNothing DEF IInv, TypeOK, Bindings, EnterBody,
       AuthDrainPhase
<1>9. (ShutDown /\ StoppedIsEmpty)'
    BY NoneIsNothing DEF IInv, TypeOK, Bindings, ShutDown, StoppedIsEmpty,
       EnterBody, AuthDrainPhase
<1> QED BY <1>1, <1>2, <1>3, <1>4, <1>5, <1>6, <1>7, <1>8, <1>9 DEF IInv

\* The end of a body, with or without a commit.
LEMMA BodyPreserves ==
    ASSUME IInv, NEW o \in Operations, opc[o] = "body",
           NEW new \in Generations,
           new = 0 \/ new = version[odev[o]] + 1,
           LeaveBody(o) \/ (/\ active[odev[o]] = 0 => new # 0
                            /\ Commit(o, odev[o], active[odev[o]], new)),
           UNCHANGED <<connVars, hsVars, registry, mutationCount, authCount,
                       readyCount, okind, odev, lockQueue, stopPc>>
    PROVE  IInv'
<1> DEFINE d == odev[o]
<1>1. d \in Devices /\ active[d] \in Generations /\ version[d] \in Generations
    BY DEF IInv, TypeOK, Bindings
<1>2. /\ \A p \in Operations : p # o => opc'[p] = opc[p]
      /\ opc'[o] \in {"authGo", "authWait", "evict"}
      /\ opc' \in [Operations -> OperationPhases]
    BY DEF IInv, TypeOK, LeaveBody, Commit, AuthDrainPhase, OperationPhases
<1>3. TypeOK'
  <2>1. /\ active' \in [Devices -> Generations]
        /\ version' \in [Devices -> Generations]
    <3>1. CASE LeaveBody(o)
      BY <3>1 DEF IInv, TypeOK, LeaveBody
    <3>2. CASE Commit(o, d, active[d], new)
      <4>1. version' \in [Devices -> Generations]
        BY <3>2 DEF IInv, TypeOK, Commit
      <4>2. active' \in [Devices -> Generations]
        BY <3>2 DEF IInv, TypeOK, Commit
      <4> QED BY <4>1, <4>2
    <3> QED BY <3>1, <3>2
  <2>2. /\ osnap' \in [Operations -> Generations \cup {Unread}]
        /\ ocommitted' \in [Operations -> BOOLEAN]
    BY <1>1 DEF IInv, TypeOK, LeaveBody, Commit
  <2> QED BY <1>2, <2>1, <2>2 DEF IInv, TypeOK
<1>4. Bindings'
    BY <1>2 DEF IInv, Bindings
<1>5. CountsAreExact'
    BY <1>2, CountsFrame DEF IInv, Leased, Marked
<1>6. (LockIsExclusive /\ DrainedMeansNoLease /\ LeaseExcludesMutation)'
    BY <1>2, PhaseFrame DEF IInv, Leased, Locked, Stopping
<1>7. ASSUME LeaveBody(o)
      PROVE  (ValidatedIsActive /\ ReplacedForever /\ RegisteredIsActive)'
  <2>1. ValidatedIsActive'
    BY <1>7, ValidatedFrame DEF IInv, LeaveBody
  <2>2. opc'[o] # "evict"
    BY <1>7 DEF IInv, TypeOK, LeaveBody, AuthDrainPhase
  <2>3. ReplacedForever'
    BY <1>2, <1>7, <2>2, StoreFrame DEF IInv, LeaveBody
  <2>4. RegisteredIsActive'
    BY <1>2, <1>7, RegisteredFrame DEF IInv, LeaveBody, Evicting
  <2> QED BY <2>1, <2>3, <2>4
<1>8. ASSUME active[d] = 0 => new # 0, Commit(o, d, active[d], new)
      PROVE  (ValidatedIsActive /\ ReplacedForever /\ RegisteredIsActive)'
  <2>1. /\ \A e \in Devices :
              /\ active'[e] = IF e = d THEN new ELSE active[e]
              /\ version'[e] = IF e = d /\ new # 0 THEN new ELSE version[e]
        /\ \A p \in Operations :
              /\ osnap'[p] = IF p = o THEN active[d] ELSE osnap[p]
              /\ ocommitted'[p] <=> p = o \/ ocommitted[p]
              /\ opc'[p] = IF p = o THEN "evict" ELSE opc[p]
    BY <1>8 DEF IInv, TypeOK, Commit
  <2>2. ValidatedIsActive'
    <3>1. \A h \in Handshakes : Leased(h) => hdev[h] # d
      BY DEF IInv, LeaseExcludesMutation
    <3>2. \A h \in Handshakes : hpc[h] = "validated" =>
             hdev[h] \in Devices /\ hdev[h] # d
      BY <3>1 DEF IInv, Bindings, Leased
    <3> QED BY <2>1, <3>2 DEF IInv, ValidatedIsActive
  <2>3. ReplacedForever'
    <3>1. \A e \in Devices : active'[e] <= version'[e]
      BY <1>1, <2>1 DEF IInv, ReplacedForever, Generations
    <3>2. \A p \in Operations : ocommitted'[p] =>
             osnap'[p] \in Generations /\ opc'[p] # "idle"
      BY <1>1, <2>1 DEF IInv, ReplacedForever
    <3>3. \A p \in Operations : opc'[p] = "evict" => ocommitted'[p]
      BY <2>1 DEF IInv, ReplacedForever
    <3>4. \A p \in Operations : ocommitted[p] => odev[p] \in Devices
      BY DEF IInv, Bindings, ReplacedForever
    <3>5. ASSUME NEW p \in Operations, ocommitted'[p], osnap'[p] # 0
          PROVE  osnap'[p] <= version'[odev[p]] /\ active'[odev[p]] # osnap'[p]
      <4>1. CASE p = o
        BY <1>1, <2>1, <3>5, <4>1 DEF IInv, ReplacedForever, Generations
      <4>2. CASE p # o
        <5>1. /\ osnap[p] \in Generations /\ odev[p] \in Devices
              /\ osnap[p] <= version[odev[p]] /\ active[odev[p]] # osnap[p]
          BY <2>1, <3>4, <3>5, <4>2 DEF IInv, ReplacedForever
        <5>2. version[odev[p]] \in Generations
          BY <5>1 DEF IInv, TypeOK
        <5> QED BY <1>1, <2>1, <3>5, <4>2, <5>1, <5>2 DEF Generations
      <4> QED BY <4>1, <4>2
    <3>6. ASSUME NEW p \in Operations, NEW q \in Operations,
                 ocommitted'[p], ocommitted'[q], odev[p] = odev[q],
                 osnap'[p] = osnap'[q], osnap'[p] # 0
          PROVE  p = q
      BY <2>1, <3>6 DEF IInv, ReplacedForever
    <3> QED BY <3>1, <3>2, <3>3, <3>5, <3>6 DEF ReplacedForever
  <2>4. RegisteredIsActive'
    <3>1. \A p \in Operations : Evicting(p) => odev[p] # d
      <4>1. \A p \in Operations : opc[p] = "evict" /\ odev[p] = d => p = o
        BY DEF IInv, LockIsExclusive, Locked
      <4> QED BY <4>1 DEF Evicting
    <3>2. SUFFICES ASSUME NEW e \in Devices, registry[e] # None
                   PROVE  \/ sgen[registry[e]] = active'[e]
                          \/ \E p \in Operations :
                                Evicting(p)' /\ odev[p] = e
                                   /\ osnap'[p] = sgen[registry[e]]
      BY DEF RegisteredIsActive
    <3>3. CASE e = d
      <4>1. sgen[registry[e]] = active[d]
        BY <3>1, <3>2, <3>3 DEF IInv, RegisteredIsActive
      <4>2. Evicting(o)' /\ osnap'[o] = active[d]
        BY <2>1 DEF Evicting
      <4> QED BY <3>3, <4>1, <4>2
    <3>4. CASE e # d
      <4>1. active'[e] = active[e]
        BY <2>1, <3>4
      <4>2. \A p \in Operations : odev[p] = e =>
               osnap'[p] = osnap[p] /\ (Evicting(p) => Evicting(p)')
        BY <2>1, <3>4 DEF Evicting
      <4> QED BY <3>2, <4>1, <4>2 DEF IInv, RegisteredIsActive
    <3> QED BY <3>3, <3>4
  <2> QED BY <2>2, <2>3, <2>4
<1>9. ReadyIsRegistered'
    BY ReadyFrame DEF IInv
<1>10. (ShutDown /\ StoppedIsEmpty)'
    BY DEF IInv, ShutDown, StoppedIsEmpty
<1> QED BY <1>3, <1>4, <1>5, <1>6, <1>7, <1>8, <1>9, <1>10 DEF IInv

\* revoke and rotate commit the end of the generation they compared with.
LEMMA MutateExpectedPreserves ==
    ASSUME IInv, NEW o \in Operations, MutateExpected(o)
    PROVE  IInv'
<1>1. opc[o] = "body" /\ odev[o] \in Devices /\ version[odev[o]] \in Generations
    BY DEF IInv, TypeOK, Bindings, MutateExpected
<1>2. UNCHANGED <<connVars, hsVars, registry, mutationCount, authCount,
                  readyCount, okind, odev, lockQueue, stopPc>>
    BY DEF MutateExpected
<1>3. 0 \in Generations /\ MaxGeneration \in Nat
    BY MaxGenerationPositive DEF Generations
<1>4. CASE LeaveBody(o)
    BY <1>1, <1>2, <1>3, <1>4, BodyPreserves
<1>5. CASE /\ osnap[o] # 0 /\ active[odev[o]] = osnap[o]
           /\ Commit(o, odev[o], osnap[o], 0)
    BY <1>1, <1>2, <1>3, <1>5, BodyPreserves
<1>6. CASE /\ osnap[o] # 0 /\ active[odev[o]] = osnap[o]
           /\ version[odev[o]] < MaxGeneration
           /\ Commit(o, odev[o], osnap[o], version[odev[o]] + 1)
  <2>1. version[odev[o]] + 1 \in Generations
    BY <1>1, <1>3, <1>6 DEF Generations
  <2> QED BY <1>1, <1>2, <1>6, <2>1, BodyPreserves
<1> QED BY <1>4, <1>5, <1>6 DEF MutateExpected

\* A completion issues or rotates.
LEMMA CompletePreserves ==
    ASSUME IInv, NEW o \in Operations, Complete(o)
    PROVE  IInv'
<1>1. opc[o] = "body" /\ odev[o] \in Devices /\ version[odev[o]] \in Generations
    BY DEF IInv, TypeOK, Bindings, Complete
<1>2. UNCHANGED <<connVars, hsVars, registry, mutationCount, authCount,
                  readyCount, okind, odev, lockQueue, stopPc>>
    BY DEF Complete
<1>3. 0 \in Generations /\ MaxGeneration \in Nat
    BY MaxGenerationPositive DEF Generations
<1>4. CASE LeaveBody(o)
    BY <1>1, <1>2, <1>3, <1>4, BodyPreserves
<1>5. CASE /\ version[odev[o]] < MaxGeneration
           /\ Commit(o, odev[o], active[odev[o]], version[odev[o]] + 1)
  <2>1. version[odev[o]] + 1 \in Generations /\ version[odev[o]] + 1 # 0
    BY <1>1, <1>3, <1>5 DEF Generations
  <2> QED BY <1>1, <1>2, <1>5, <2>1, BodyPreserves
<1> QED BY <1>4, <1>5 DEF Complete

\* The eviction removes what the commit made stale.
LEMMA InvalidatePreserves ==
    ASSUME IInv, NEW o \in Operations, Invalidate(o)
    PROVE  IInv'
<1> DEFINE d == odev[o]
<1>1. /\ opc[o] = "evict" /\ d \in Devices
      /\ \A p \in Operations : opc'[p] = IF p = o THEN "publish" ELSE opc[p]
      /\ opc' \in [Operations -> OperationPhases]
      /\ EvictGeneration(d, osnap[o])
    BY DEF IInv, TypeOK, Bindings, Invalidate, OperationPhases
<1>2. UNCHANGED <<sdev, sgen, lapsed, hb, hbSeen, hsVars, credVars,
                  mutationCount, authCount, readyCount, okind, odev, osnap,
                  ocommitted, lockQueue, stopPc>>
    BY DEF Invalidate
<1>3. TypeOK'
    BY <1>1, <1>2, EvictionTypes DEF IInv, TypeOK
<1>4. Bindings'
    BY <1>1, <1>2, EvictionBindings DEF IInv
<1>5. CountsAreExact'
    BY <1>1, <1>2, CountsFrame DEF IInv, Leased, Marked
<1>6. (LockIsExclusive /\ DrainedMeansNoLease /\ LeaseExcludesMutation)'
    BY <1>1, <1>2, PhaseFrame DEF IInv, Leased, Locked, Stopping
<1>7. ValidatedIsActive'
    BY <1>2, ValidatedFrame DEF IInv
<1>8. ReplacedForever'
    BY <1>1, <1>2, StoreFrame DEF IInv
<1>9. \A e \in Devices :
         \/ registry'[e] = None
         \/ /\ registry'[e] = registry[e]
            /\ e = d => sgen[registry[e]] # osnap[o]
    BY <1>1 DEF IInv, TypeOK, EvictGeneration
<1>10. RegisteredIsActive'
  <2>1. SUFFICES ASSUME NEW e \in Devices, registry'[e] # None
                 PROVE  \/ sgen[registry'[e]] = active[e]
                        \/ \E p \in Operations :
                              Evicting(p)' /\ odev[p] = e
                                 /\ osnap[p] = sgen[registry'[e]]
    BY <1>2 DEF RegisteredIsActive
  <2>2. registry'[e] = registry[e] /\ registry[e] # None
    BY <1>9, <2>1
  <2>3. CASE sgen[registry[e]] = active[e]
    BY <2>2, <2>3
  <2>4. CASE \E p \in Operations :
                Evicting(p) /\ odev[p] = e /\ osnap[p] = sgen[registry[e]]
    <3>1. PICK p \in Operations :
             Evicting(p) /\ odev[p] = e /\ osnap[p] = sgen[registry[e]]
      BY <2>4
    <3>2. p # o
      BY <1>9, <2>1, <2>2, <3>1
    <3> QED BY <1>1, <2>2, <3>1, <3>2 DEF Evicting
  <2> QED BY <2>2, <2>3, <2>4 DEF IInv, RegisteredIsActive
<1>11. \A b \in Connections :
         \/ conn'[b] = conn[b]
         \/ conn[b] \in {"handshaking", "ready"} /\ conn'[b] = "closing"
    BY <1>1, ClosingLemma DEF IInv, TypeOK, EvictGeneration
<1>12. ReadyIsRegistered'
    BY ReadyFrame, NoneIsNothing DEF IInv, TypeOK, Bindings, Invalidate,
       EvictGeneration, Closing
<1>13. (ShutDown /\ StoppedIsEmpty)'
  <2>1. ShutDown'
    BY <1>2, <1>11 DEF IInv, Bindings, ShutDown
  <2>2. StoppedIsEmpty'
    BY <1>2, <1>9, <1>11 DEF IInv, StoppedIsEmpty
  <2> QED BY <2>1, <2>2
<1> QED BY <1>3, <1>4, <1>5, <1>6, <1>7, <1>8, <1>10, <1>12, <1>13 DEF IInv

\* A publication only removes entries.
LEMMA PublishPreserves ==
    ASSUME IInv, NEW o \in Operations, Publish(o)
    PROVE  IInv'
<1>1. TypeOK'
  <2>1. /\ conn' \in [Connections -> ConnStates]
        /\ registry' \in [Devices -> Connections \cup {None}]
    BY EvictionTypes DEF IInv, Publish
  <2>2. opc' \in [Operations -> OperationPhases]
    BY DEF IInv, TypeOK, Publish, AuthDrainPhase, OperationPhases
  <2> QED BY <2>1, <2>2 DEF IInv, TypeOK, Publish
<1>2. Bindings'
    BY EvictionBindings DEF IInv, TypeOK, Publish, AuthDrainPhase
<1>3. CountsAreExact'
    BY CountsFrame DEF IInv, TypeOK, Leased, Marked, Publish,
       EvictGeneration, Closing, AuthDrainPhase
<1>4. (LockIsExclusive /\ DrainedMeansNoLease /\ LeaseExcludesMutation)'
    BY PhaseFrame DEF IInv, TypeOK, Leased, Locked, Stopping, Publish,
       EvictGeneration, Closing, AuthDrainPhase
<1>5. ValidatedIsActive'
    BY ValidatedFrame DEF IInv, TypeOK, Publish, EvictGeneration, Closing,
       AuthDrainPhase
<1>6. ReplacedForever'
    BY StoreFrame DEF IInv, TypeOK, Publish, EvictGeneration, Closing,
       AuthDrainPhase
<1>7. RegisteredIsActive'
    BY RegisteredFrame DEF IInv, TypeOK, Evicting, Publish, EvictGeneration,
       Closing, AuthDrainPhase
<1>8. ReadyIsRegistered'
    BY ReadyFrame, NoneIsNothing DEF IInv, TypeOK, Bindings, Publish,
       EvictGeneration, Closing, AuthDrainPhase
<1>9. (ShutDown /\ StoppedIsEmpty)'
    BY NoneIsNothing DEF IInv, TypeOK, Bindings, ShutDown, StoppedIsEmpty,
       Publish, EvictGeneration, Closing, AuthDrainPhase
<1> QED BY <1>1, <1>2, <1>3, <1>4, <1>5, <1>6, <1>7, <1>8, <1>9 DEF IInv

\* The lock goes to the next in the queue.
LEMMA ReleaseLockPreserves ==
    ASSUME IInv, NEW o \in Operations, ReleaseLock(o)
    PROVE  IInv'
<1> DEFINE d == odev[o]
<1>1. /\ opc[o] = "authGo" /\ d \in Devices
      /\ \A p \in Operations : opc'[p] = IF p = o THEN "released" ELSE opc[p]
      /\ \A e \in Devices : lockQueue'[e] = IF e = d THEN Tail(lockQueue[e])
                                                     ELSE lockQueue[e]
    BY DEF IInv, TypeOK, Bindings, ReleaseLock
<1>2. UNCHANGED <<connVars, hsVars, credVars, registry, mutationCount,
                  authCount, readyCount, okind, odev, osnap, ocommitted,
                  stopPc>>
    BY DEF ReleaseLock
<1>3. lockQueue[d] # <<>> /\ Head(lockQueue[d]) = o
    BY <1>1 DEF IInv, LockIsExclusive, Locked
<1>4. TypeOK'
  <2>1. opc' \in [Operations -> OperationPhases]
    BY DEF IInv, TypeOK, ReleaseLock, OperationPhases
  <2>2. lockQueue' \in [Devices -> Seq(Operations)]
    <3>1. lockQueue[d] \in Seq(Operations)
      BY <1>1 DEF IInv, TypeOK
    <3>2. Tail(lockQueue[d]) \in Seq(Operations)
      BY <1>3, <3>1
    <3> QED BY <3>2 DEF IInv, TypeOK, ReleaseLock
  <2> QED BY <1>2, <2>1, <2>2 DEF IInv, TypeOK
<1>5. Bindings'
    BY <1>1, <1>2 DEF IInv, Bindings
<1>6. CountsAreExact'
    BY <1>1, <1>2, CountsFrame DEF IInv, Leased, Marked
<1>7. LockIsExclusive'
  <2>1. SUFFICES ASSUME NEW p \in Operations, Locked(p)'
                 PROVE  /\ lockQueue'[odev[p]] # <<>>
                        /\ Head(lockQueue'[odev[p]]) = p
    BY <1>2 DEF LockIsExclusive
  <2>2. p # o /\ Locked(p) /\ odev[p] \in Devices
    BY <1>1, <2>1 DEF Locked, IInv, Bindings
  <2>3. lockQueue[odev[p]] # <<>> /\ Head(lockQueue[odev[p]]) = p
    BY <2>2 DEF IInv, LockIsExclusive
  <2>4. odev[p] # d
    BY <1>3, <2>2, <2>3
  <2> QED BY <1>1, <2>2, <2>3, <2>4
<1>8. (DrainedMeansNoLease /\ LeaseExcludesMutation)'
    BY <1>1, <1>2
       DEF IInv, DrainedMeansNoLease, LeaseExcludesMutation, Leased, Stopping
<1>9. ValidatedIsActive'
    BY <1>2, ValidatedFrame DEF IInv
<1>10. ReplacedForever'
    BY <1>1, <1>2, StoreFrame DEF IInv
<1>11. RegisteredIsActive'
    BY <1>1, <1>2, RegisteredFrame DEF IInv, Evicting
<1>12. ReadyIsRegistered'
    BY <1>2, ReadyFrame DEF IInv
<1>13. (ShutDown /\ StoppedIsEmpty)'
    BY <1>2 DEF IInv, ShutDown, StoppedIsEmpty
<1> QED BY <1>4, <1>5, <1>6, <1>7, <1>8, <1>9, <1>10, <1>11, <1>12, <1>13
        DEF IInv

\* The marker is given back once.
LEMMA EndOperationPreserves ==
    ASSUME IInv, NEW o \in Operations, EndOperation(o)
    PROVE  IInv'
<1> DEFINE d == odev[o]
<1>1. /\ opc[o] = "released" /\ d \in Devices
      /\ \A p \in Operations : opc'[p] = IF p = o THEN "done" ELSE opc[p]
      /\ \A e \in Devices : mutationCount'[e] =
            IF e = d THEN Decremented(mutationCount[e]) ELSE mutationCount[e]
    BY DEF IInv, TypeOK, Bindings, EndOperation
<1>2. UNCHANGED <<connVars, hsVars, credVars, registry, authCount, readyCount,
                  okind, odev, osnap, ocommitted, lockQueue, stopPc>>
    BY DEF EndOperation
<1>3. TypeOK'
  <2>1. opc' \in [Operations -> OperationPhases]
    BY DEF IInv, TypeOK, EndOperation, OperationPhases
  <2>2. mutationCount' \in [Devices -> Nat]
    <3>1. mutationCount[d] \in Nat /\ Decremented(mutationCount[d]) \in Nat
      BY <1>1 DEF IInv, TypeOK, Decremented
    <3> QED BY <3>1 DEF IInv, TypeOK, EndOperation
  <2> QED BY <1>2, <2>1, <2>2 DEF IInv, TypeOK
<1>4. Bindings'
    BY <1>1, <1>2 DEF IInv, Bindings
<1>5. CountsAreExact'
  <2>1. \A e \in Devices :
           /\ LeaseSet(e)' = LeaseSet(e)
           /\ MarkSet(e)' = IF e = d THEN MarkSet(e) \ {o} ELSE MarkSet(e)
    BY <1>1, <1>2 DEF LeaseSet, MarkSet, Leased, Marked
  <2>2. o \in MarkSet(d)
    BY <1>1 DEF MarkSet, Marked
  <2>3. ASSUME stopPc # "stopped", NEW e \in Devices
        PROVE  mutationCount'[e] = Cardinality(MarkSet(e)')
    <3>1. mutationCount[e] = Cardinality(MarkSet(e))
      BY <2>3 DEF IInv, CountsAreExact
    <3>2. IsFiniteSet(MarkSet(e)) /\ Cardinality(MarkSet(e)) \in Nat
      BY TasksAreFinite DEF MarkSet
    <3>3. CASE e = d
      <4>1. Cardinality(MarkSet(e) \ {o}) = Cardinality(MarkSet(e)) - 1
        BY <3>2, <3>3, <2>2, FS_RemoveElement
      <4>2. Cardinality(MarkSet(e)) # 0
        BY <3>2, <3>3, <2>2, FS_EmptySet
      <4>3. mutationCount'[e] = mutationCount[e] - 1
        BY <4>2, <3>1, <3>2, <3>3, <1>1 DEF Decremented
      <4> QED BY <4>1, <4>3, <3>1, <3>3, <2>1
    <3>4. CASE e # d
      BY <3>1, <3>4, <2>1, <1>1
    <3> QED BY <3>3, <3>4
  <2>4. ASSUME stopPc # "stopped", NEW e \in Devices
        PROVE  readyCount'[e] = Cardinality(LeaseSet(e)')
    BY <1>2, <2>1, <2>4 DEF IInv, CountsAreExact
  <2> QED BY <1>2, <2>3, <2>4 DEF CountsAreExact
<1>6. (LockIsExclusive /\ DrainedMeansNoLease /\ LeaseExcludesMutation)'
    BY <1>1, <1>2, PhaseFrame DEF IInv, Leased, Locked, Stopping
<1>7. ValidatedIsActive'
    BY <1>2, ValidatedFrame DEF IInv
<1>8. ReplacedForever'
    BY <1>1, <1>2, StoreFrame DEF IInv
<1>9. RegisteredIsActive'
    BY <1>1, <1>2, RegisteredFrame DEF IInv, Evicting
<1>10. ReadyIsRegistered'
    BY <1>2, ReadyFrame DEF IInv
<1>11. (ShutDown /\ StoppedIsEmpty)'
    BY <1>2 DEF IInv, ShutDown, StoppedIsEmpty
<1> QED BY <1>3, <1>4, <1>5, <1>6, <1>7, <1>8, <1>9, <1>10, <1>11 DEF IInv

-----------------------------------------------------------------------------
(* stop() *)

\* stop() wakes the waiters.
LEMMA StopPreserves ==
    ASSUME IInv, Stop
    PROVE  IInv'
<1>1. TypeOK'
  <2>1. opc' \in [Operations -> OperationPhases]
    BY DEF IInv, TypeOK, Stop, OperationPhases
  <2> QED BY <2>1 DEF IInv, TypeOK, Stop
<1>2. Bindings'
    BY NoneIsNothing DEF IInv, TypeOK, Bindings, Stop
<1>3. CountsAreExact'
    BY CountsFrame DEF IInv, TypeOK, Leased, Marked, Stop
<1>4. (LockIsExclusive /\ DrainedMeansNoLease /\ LeaseExcludesMutation)'
    BY PhaseFrame DEF IInv, TypeOK, Leased, Locked, Stopping, Stop
<1>5. ValidatedIsActive'
    BY ValidatedFrame DEF IInv, TypeOK, Stop
<1>6. ReplacedForever'
    BY StoreFrame DEF IInv, TypeOK, Stop
<1>7. RegisteredIsActive'
    BY RegisteredFrame DEF IInv, TypeOK, Evicting, Stop
<1>8. ReadyIsRegistered'
    BY ReadyFrame, NoneIsNothing DEF IInv, TypeOK, Bindings, Stop
<1>9. (ShutDown /\ StoppedIsEmpty)'
    BY NoneIsNothing DEF IInv, TypeOK, Bindings, ShutDown, StoppedIsEmpty,
       Stop
<1> QED BY <1>1, <1>2, <1>3, <1>4, <1>5, <1>6, <1>7, <1>8, <1>9 DEF IInv

\* gateway.stop() leaves no connection ready.
LEMMA StopConnectionsPreserves ==
    ASSUME IInv, StopConnections
    PROVE  IInv'
<1>1. TypeOK'
    BY NoneIsNothing DEF IInv, TypeOK, Bindings, ConnStates,
       HandshakePhases, OperationPhases, Generations, Unread, Kinds,
       StopConnections
<1>2. Bindings'
    BY NoneIsNothing DEF IInv, TypeOK, Bindings, StopConnections
<1>3. CountsAreExact'
    BY CountsFrame DEF IInv, TypeOK, Leased, Marked, StopConnections
<1>4. (LockIsExclusive /\ DrainedMeansNoLease /\ LeaseExcludesMutation)'
    BY PhaseFrame DEF IInv, TypeOK, Leased, Locked, Stopping,
       StopConnections
<1>5. ValidatedIsActive'
    BY ValidatedFrame DEF IInv, TypeOK, StopConnections
<1>6. ReplacedForever'
    BY StoreFrame DEF IInv, TypeOK, StopConnections
<1>7. RegisteredIsActive'
    BY RegisteredFrame DEF IInv, TypeOK, Evicting, StopConnections
<1>8. ReadyIsRegistered'
    BY ReadyFrame, NoneIsNothing DEF IInv, TypeOK, Bindings, StopConnections
<1>9. (ShutDown /\ StoppedIsEmpty)'
  <2>1. \A b \in Connections :
           conn'[b] = IF conn[b] \in {"handshaking", "ready"}
                      THEN "closing" ELSE conn[b]
    BY DEF StopConnections
  <2>2. \A b \in Connections : conn'[b] # "ready"
    BY <2>1
  <2>3. \A i \in Handshakes : hpc[i] # "idle" =>
           hconn[i] \in Connections /\ conn'[hconn[i]] \in {"closing", "closed"}
    BY <2>1 DEF IInv, TypeOK, ConnStates, Bindings
  <2>4. UNCHANGED <<hpc, hconn>> /\ stopPc' = "closing"
    BY DEF StopConnections
  <2>5. ShutDown'
    BY <2>2, <2>3, <2>4 DEF ShutDown
  <2>6. StoppedIsEmpty'
    BY <2>4 DEF StoppedIsEmpty
  <2> QED BY <2>5, <2>6
<1> QED BY <1>1, <1>2, <1>3, <1>4, <1>5, <1>6, <1>7, <1>8, <1>9 DEF IInv

\* Finalizing evicts what was closing.
LEMMA FinalizeConnectionsPreserves ==
    ASSUME IInv, FinalizeConnections
    PROVE  IInv'
<1>1. TypeOK'
    BY NoneIsNothing DEF IInv, TypeOK, Bindings, ConnStates,
       HandshakePhases, OperationPhases, Generations, Unread, Kinds,
       FinalizeConnections
<1>2. Bindings'
    BY NoneIsNothing DEF IInv, TypeOK, Bindings, FinalizeConnections
<1>3. CountsAreExact'
    BY CountsFrame DEF IInv, TypeOK, Leased, Marked, FinalizeConnections
<1>4. (LockIsExclusive /\ DrainedMeansNoLease /\ LeaseExcludesMutation)'
    BY PhaseFrame DEF IInv, TypeOK, Leased, Locked, Stopping,
       FinalizeConnections
<1>5. ValidatedIsActive'
    BY ValidatedFrame DEF IInv, TypeOK, FinalizeConnections
<1>6. ReplacedForever'
    BY StoreFrame DEF IInv, TypeOK, FinalizeConnections
<1>7. RegisteredIsActive'
    BY RegisteredFrame DEF IInv, TypeOK, Evicting, FinalizeConnections
<1>8. ReadyIsRegistered'
    BY ReadyFrame, NoneIsNothing DEF IInv, TypeOK, Bindings,
       FinalizeConnections
<1>9. (ShutDown /\ StoppedIsEmpty)'
    BY NoneIsNothing DEF IInv, TypeOK, Bindings, ShutDown, StoppedIsEmpty,
       FinalizeConnections
<1> QED BY <1>1, <1>2, <1>3, <1>4, <1>5, <1>6, <1>7, <1>8, <1>9 DEF IInv

\* The counters are cleared when nothing is ready any more.
LEMMA StopClearPreserves ==
    ASSUME IInv, StopClear
    PROVE  IInv'
<1>1. TypeOK'
    BY NoneIsNothing DEF IInv, TypeOK, Bindings, ConnStates,
       HandshakePhases, OperationPhases, Generations, Unread, Kinds,
       StopClear
<1>2. Bindings'
    BY NoneIsNothing DEF IInv, TypeOK, Bindings, StopClear
<1>3. CountsAreExact'
    BY DEF CountsAreExact, StopClear
<1>4. (LockIsExclusive /\ DrainedMeansNoLease /\ LeaseExcludesMutation)'
    BY PhaseFrame DEF IInv, TypeOK, Leased, Locked, Stopping, StopClear
<1>5. ValidatedIsActive'
    BY ValidatedFrame DEF IInv, TypeOK, StopClear
<1>6. ReplacedForever'
    BY StoreFrame DEF IInv, TypeOK, StopClear
<1>7. RegisteredIsActive'
    BY RegisteredFrame DEF IInv, TypeOK, Evicting, StopClear
<1>8. ReadyIsRegistered'
    BY DEF IInv, ShutDown, ReadyIsRegistered, StopClear
<1>9. (ShutDown /\ StoppedIsEmpty)'
    BY NoneIsNothing DEF IInv, TypeOK, Bindings, ShutDown, StoppedIsEmpty,
       StopClear
<1> QED BY <1>1, <1>2, <1>3, <1>4, <1>5, <1>6, <1>7, <1>8, <1>9 DEF IInv

-----------------------------------------------------------------------------
(* IInv is inductive. *)

\* The inductive invariant holds initially.
LEMMA InitEstablishes == Init => IInv
<1> SUFFICES ASSUME Init PROVE IInv
    OBVIOUS
<1>1. 0 \in Generations /\ 0..1 \subseteq Generations
    BY MaxGenerationPositive DEF Generations
<1>2. TypeOK
  <2>1. \A d \in Devices : <<>> \in Seq(Operations)
    OBVIOUS
  <2>2. /\ active \in [Devices -> Generations]
        /\ version \in [Devices -> Generations]
    BY <1>1 DEF Init
  <2> QED BY <1>1, <2>1, <2>2 DEF Init, TypeOK, ConnStates, HandshakePhases,
             OperationPhases, Kinds, Unread
<1>3. /\ \A h \in Handshakes : hpc[h] = "idle"
      /\ \A o \in Operations : opc[o] = "idle" /\ ocommitted[o] = FALSE
      /\ \A c \in Connections : conn[c] = "new" /\ hb[c] = "idle"
      /\ \A d \in Devices : registry[d] = None
      /\ stopPc = "running"
    BY DEF Init
<1>4. Bindings
    BY <1>3 DEF Bindings
<1>5. CountsAreExact
  <2>1. \A d \in Devices : LeaseSet(d) = {} /\ MarkSet(d) = {}
    BY <1>3 DEF LeaseSet, MarkSet, Leased, Marked
  <2> QED BY <2>1, FS_EmptySet DEF Init, CountsAreExact
<1>6. LockIsExclusive /\ DrainedMeansNoLease /\ LeaseExcludesMutation
    BY <1>3 DEF LockIsExclusive, DrainedMeansNoLease, LeaseExcludesMutation,
       Locked
<1>7. ValidatedIsActive
    BY <1>3 DEF ValidatedIsActive
<1>8. ReplacedForever
  <2>1. \A d \in Devices : active[d] <= version[d]
    BY DEF Init
  <2> QED BY <1>3, <2>1 DEF ReplacedForever
<1>9. RegisteredIsActive /\ ReadyIsRegistered /\ ShutDown /\ StoppedIsEmpty
    BY <1>3 DEF RegisteredIsActive, ReadyIsRegistered, ShutDown,
       StoppedIsEmpty
<1> QED BY <1>2, <1>4, <1>5, <1>6, <1>7, <1>8, <1>9 DEF IInv

\* Every action preserves it, and so does a stuttering step.
LEMMA NextPreserves == IInv /\ [Next]_vars => IInv'
<1> SUFFICES ASSUME IInv, [Next]_vars PROVE IInv'
    OBVIOUS
<1>1. ASSUME NEW c \in Connections, ConnectionStep(c) PROVE IInv'
    BY <1>1, OpenPreserves, BeginClosePreserves, SocketClosedPreserves,
       LapsePreserves, PongPreserves, HeartbeatReadPreserves,
       HeartbeatValidatePreserves, HeartbeatFailPreserves DEF ConnectionStep
<1>2. ASSUME NEW h \in Handshakes, HandshakeStep(h) PROVE IInv'
    BY <1>2, HelloPreserves, VerifyReadPreserves, AuthenticatePreserves,
       TakeReadyLeasePreserves, ValidateReadPreserves, BecomeReadyPreserves
       DEF HandshakeStep
<1>3. ASSUME NEW o \in Operations, OperationStep(o) PROVE IInv'
    BY <1>3, BeginOperationPreserves, ReadSnapshotPreserves,
       AcquireLockPreserves, EnterBodyPreserves, MutateExpectedPreserves,
       CompletePreserves, InvalidatePreserves, PublishPreserves,
       ReleaseLockPreserves, EndOperationPreserves DEF OperationStep
<1>4. ASSUME StopStep PROVE IInv'
    BY <1>4, StopPreserves, StopConnectionsPreserves,
       FinalizeConnectionsPreserves, StopClearPreserves DEF StopStep
<1>5. CASE UNCHANGED vars
  <2>1. TypeOK' /\ Bindings'
    BY <1>5 DEF vars, IInv, TypeOK, Bindings
  <2>2. CountsAreExact'
    BY <1>5, CountsFrame DEF vars, IInv, Leased, Marked
  <2>3. (LockIsExclusive /\ DrainedMeansNoLease /\ LeaseExcludesMutation)'
    BY <1>5, PhaseFrame DEF vars, IInv, Leased, Locked, Stopping
  <2>4. (ValidatedIsActive /\ ReplacedForever)'
    BY <1>5, ValidatedFrame, StoreFrame DEF vars, IInv
  <2>5. (RegisteredIsActive /\ ReadyIsRegistered)'
    BY <1>5, RegisteredFrame, ReadyFrame DEF vars, IInv, Evicting
  <2>6. (ShutDown /\ StoppedIsEmpty)'
    BY <1>5 DEF vars, IInv, ShutDown, StoppedIsEmpty
  <2> QED BY <2>1, <2>2, <2>3, <2>4, <2>5, <2>6 DEF IInv
<1> QED BY <1>1, <1>2, <1>3, <1>4, <1>5 DEF Next

-----------------------------------------------------------------------------
(* What an operation has replaced is not seen before the eviction. *)

\* Of two operations on a device one holds the lock.
LEMMA OneEviction ==
    ASSUME IInv, NEW o \in Operations, NEW p \in Operations,
           Locked(o), Locked(p), odev[o] = odev[p]
    PROVE  o = p
BY DEF IInv, LockIsExclusive

\* A step that commits nothing, starts no eviction and registers no session.
LEMMA UnseenFrame ==
    ASSUME CommitIsUnseen, UNCHANGED <<active, version, sgen>>,
           \A d \in Devices : registry'[d] \in {registry[d], None},
           \A o \in Operations : odev[o] \notin Devices => ~Evicting(o)',
           \A o \in Operations : Evicting(o)' =>
              Evicting(o) /\ odev'[o] = odev[o] /\ osnap'[o] = osnap[o]
    PROVE  CommitIsUnseen'
BY DEF CommitIsUnseen

\* A commit is unseen: the session it makes stale was registered with the
\* generation it replaces.
LEMMA CommitKeepsUnseen ==
    ASSUME IInv, CommitIsUnseen, NEW o \in Operations,
           MutateExpected(o) \/ Complete(o)
    PROVE  CommitIsUnseen'
<1> DEFINE d == odev[o]
<1>1. /\ d \in Devices /\ active[d] \in {0, version[d]}
      /\ active[d] \in Generations /\ version[d] \in Nat
      /\ UNCHANGED <<registry, sgen, odev>> /\ opc[o] = "body"
    BY DEF MutateExpected, Complete, IInv, TypeOK, Bindings, CommitIsUnseen,
           Generations
<1>2. CASE LeaveBody(o)
    BY <1>1, <1>2, UnseenFrame DEF LeaveBody, AuthDrainPhase, Evicting, IInv,
       TypeOK, Bindings
<1>3. ASSUME NEW new, Commit(o, d, active[d], new),
             (new = 0 /\ active[d] # 0) \/ new = version[d] + 1
      PROVE  CommitIsUnseen'
  <2>1. /\ active'[d] = new /\ version'[d] = IF new = 0 THEN version[d] ELSE new
        /\ \A e \in Devices : e # d => active'[e] = active[e] /\ version'[e] = version[e]
      BY <1>1, <1>3 DEF Commit, IInv, TypeOK
  <2>2. /\ osnap'[o] = active[d]
        /\ \A p \in Operations : p # o => osnap'[p] = osnap[p] /\ opc'[p] = opc[p]
      BY <1>3 DEF Commit, IInv, TypeOK
  <2>3. new # active[d]
      BY <1>1, <1>3
  <2>4. \A p \in Operations : p # o /\ Evicting(p) => odev[p] # d
      BY <1>1, OneEviction DEF Evicting, Locked
  <2>5. registry[d] # None => sgen[registry[d]] = active[d]
      BY <1>1, <2>4 DEF IInv, RegisteredIsActive, Evicting
  <2>6. \A p \in Operations : Evicting(p) => odev[p] \in Devices
      BY DEF IInv, Bindings, Evicting
  <2> QED BY <1>1, <2>1, <2>2, <2>3, <2>4, <2>5, <2>6 DEF CommitIsUnseen, Evicting
<1>4. CASE MutateExpected(o)
    BY <1>2, <1>3, <1>4 DEF MutateExpected
<1>5. CASE Complete(o)
    BY <1>2, <1>3, <1>5 DEF Complete
<1> QED BY <1>4, <1>5

\* A session is registered while no operation on its device evicts.
LEMMA BecomeReadyKeepsUnseen ==
    ASSUME IInv, CommitIsUnseen, NEW h \in Handshakes, BecomeReady(h)
    PROVE  CommitIsUnseen'
<1> DEFINE c == hconn[h]
           d == hdev[h]
<1>1. /\ UNCHANGED <<active, version, odev, osnap>>
      /\ \A o \in Operations : Evicting(o)' => Evicting(o)
      /\ c \in Connections /\ d \in Devices
  <2>1. \A o \in Operations : Evicting(o)' => Evicting(o)
      BY WokenLemma DEF BecomeReady, ReleaseReadyLease, Evicting, IInv, TypeOK,
         OperationPhases, Woken
  <2> QED BY <2>1 DEF BecomeReady, IInv, Bindings
<1>2. CASE UNCHANGED <<sgen, registry>>
    BY <1>1, <1>2, UnseenFrame DEF IInv, Bindings, Evicting
<1>3. CASE Register(c, d, hsec[h]) /\ conn[c] = "handshaking"
  <2>1. \A o \in Operations : Evicting(o) => odev[o] \in Devices \ {d}
      BY DEF IInv, Bindings, LeaseExcludesMutation, BecomeReady, Leased, Evicting
  <2>2. \A e \in Devices : registry[e] # c
      BY <1>1, <1>3, NoneIsNothing DEF IInv, Bindings
  <2>3. \A e \in Devices \ {d} :
          /\ registry'[e] = registry[e]
          /\ registry[e] # None => sgen'[registry[e]] = sgen[registry[e]]
      BY <1>3, <2>2 DEF Register, IInv, TypeOK
  <2> QED BY <1>1, <2>1, <2>3 DEF CommitIsUnseen
<1> QED BY <1>2, <1>3 DEF BecomeReady

\* No step breaks CommitIsUnseen.
LEMMA NextKeepsUnseen ==
    ASSUME IInv, CommitIsUnseen, [Next]_vars
    PROVE  CommitIsUnseen'
<1>1. \A o \in Operations : Evicting(o) => odev[o] \in Devices
    BY DEF IInv, Bindings, Evicting
<1>2. ASSUME NEW c \in Connections, ConnectionStep(c) PROVE CommitIsUnseen'
    BY <1>1, <1>2, UnseenFrame DEF ConnectionStep, Open, BeginClose, SocketClosed,
       Lapse, Pong, HeartbeatRead, HeartbeatValidate, HeartbeatFail, Evicted,
       IInv, TypeOK, Evicting
<1>3. ASSUME NEW h \in Handshakes, NEW c \in Connections, NEW d \in Devices,
             NEW g \in Generations, Hello(h, c, d, g)
      PROVE  CommitIsUnseen'
    BY <1>1, <1>3, UnseenFrame DEF Hello, Evicting, IInv, TypeOK
<1>4. ASSUME NEW h \in Handshakes,
             VerifyRead(h) \/ Authenticate(h) \/ TakeReadyLease(h) \/ ValidateRead(h)
      PROVE  CommitIsUnseen'
  <2>1. UNCHANGED <<active, version, sgen, registry, odev, osnap>>
      BY <1>4 DEF VerifyRead, Authenticate, TakeReadyLease, ValidateRead,
         ReadCredential
  <2>2. \A o \in Operations : Evicting(o)' => Evicting(o)
      BY <1>4, WokenLemma DEF VerifyRead, Authenticate, TakeReadyLease,
         ValidateRead, ReadCredential, EndAuthentication, Evicting, IInv, TypeOK,
         OperationPhases, Woken
  <2> QED BY <1>1, <2>1, <2>2, UnseenFrame
<1>5. ASSUME NEW h \in Handshakes, HandshakeStep(h) PROVE CommitIsUnseen'
    BY <1>3, <1>4, <1>5, BecomeReadyKeepsUnseen DEF HandshakeStep
<1>6. ASSUME NEW o \in Operations, NEW k \in Kinds, NEW d \in Devices,
             BeginOperation(o, k, d)
      PROVE  CommitIsUnseen'
  <2>1. \A p \in Operations : Evicting(p)' => Evicting(p) /\ p # o
      BY <1>6 DEF BeginOperation, Evicting, IInv, TypeOK
  <2>2. \A p \in Operations : p # o => odev'[p] = odev[p]
      BY <1>6 DEF BeginOperation, IInv, TypeOK
  <2> QED BY <1>1, <1>6, <2>1, <2>2, UnseenFrame DEF BeginOperation
<1>7. ASSUME NEW o \in Operations, ReadSnapshot(o) PROVE CommitIsUnseen'
  <2>1. \A p \in Operations : Evicting(p) => p # o /\ osnap'[p] = osnap[p]
      BY <1>7 DEF ReadSnapshot, Evicting, IInv, TypeOK
  <2> QED BY <1>1, <1>7, <2>1, UnseenFrame DEF ReadSnapshot, Evicting
<1>8. ASSUME NEW o \in Operations,
             \/ AcquireLock(o) \/ EnterBody(o) \/ Invalidate(o) \/ Publish(o)
             \/ ReleaseLock(o) \/ EndOperation(o)
      PROVE  CommitIsUnseen'
  <2>1. /\ UNCHANGED <<active, version, sgen, odev, osnap>>
        /\ \A d \in Devices : registry'[d] \in {registry[d], None}
      BY <1>8 DEF AcquireLock, EnterBody, Invalidate, Publish, ReleaseLock,
         EndOperation, EvictGeneration, IInv, TypeOK
  <2>2. \A p \in Operations : Evicting(p)' => Evicting(p)
      BY <1>8 DEF AcquireLock, EnterBody, Invalidate, Publish, ReleaseLock,
         EndOperation, AuthDrainPhase, Evicting, IInv, TypeOK
  <2> QED BY <1>1, <2>1, <2>2, UnseenFrame
<1>9. ASSUME NEW o \in Operations, OperationStep(o) PROVE CommitIsUnseen'
    BY <1>6, <1>7, <1>8, <1>9, CommitKeepsUnseen DEF OperationStep
<1>10. CASE StopStep
  <2>1. /\ UNCHANGED <<active, version, sgen, odev, osnap>>
        /\ \A d \in Devices : registry'[d] \in {registry[d], None}
        /\ \A p \in Operations : Evicting(p)' => Evicting(p)
      BY <1>10 DEF StopStep, Stop, StopConnections, FinalizeConnections, StopClear,
         Evicting, IInv, TypeOK
  <2> QED BY <1>1, <2>1, UnseenFrame
<1>11. CASE UNCHANGED vars
    BY <1>1, <1>11, UnseenFrame DEF vars, Evicting
<1> QED BY <1>2, <1>5, <1>9, <1>10, <1>11 DEF Next

-----------------------------------------------------------------------------
(* The steps of the runtime are steps of CredentialSessions. *)

\* The runtime still opens sessions: stop() has not closed the connections.
Accepting == stopPc \in {"running", "stopping"}

SessionGen(d) == IF registry[d] = None THEN 0 ELSE sgen[registry[d]]

\* What is in force when an operation is between its commit and its eviction,
\* and when none is.
LEMMA InForceValues ==
    ASSUME IInv, CommitIsUnseen, NEW d \in Devices
    PROVE  /\ (\A p \in Operations : Evicting(p) => odev[p] # d) =>
                 InForce(d) = active[d] /\ IssuedSoFar(d) = version[d]
           /\ \A o \in Operations : Evicting(o) /\ odev[o] = d =>
                 /\ InForce(d) = osnap[o]
                 /\ IssuedSoFar(d) = IF active[d] # 0 THEN version[d] - 1 ELSE version[d]
<1>1. ASSUME \A p \in Operations : Evicting(p) => odev[p] # d
      PROVE  InForce(d) = active[d] /\ IssuedSoFar(d) = version[d]
  <2>1. EvictingOn(d) = {}
      BY <1>1 DEF EvictingOn
  <2> QED BY <2>1 DEF InForce, IssuedSoFar
<1>2. ASSUME NEW o \in Operations, Evicting(o), odev[o] = d
      PROVE  /\ InForce(d) = osnap[o]
             /\ IssuedSoFar(d) = IF active[d] # 0 THEN version[d] - 1 ELSE version[d]
  <2>1. EvictingOn(d) = {o}
      BY <1>2, OneEviction DEF EvictingOn, Evicting, Locked
  <2>2. (CHOOSE p \in {o} : TRUE) = o
      OBVIOUS
  <2> QED BY <2>1, <2>2 DEF InForce, IssuedSoFar
<1> QED BY <1>1, <1>2

\* What is in force for a device does not change when its credential does not
\* and no operation on it begins or ends its eviction.
LEMMA InForceFrame ==
    ASSUME NEW d \in Devices,
           active'[d] = active[d], version'[d] = version[d],
           EvictingOn(d)' = EvictingOn(d),
           \A o \in EvictingOn(d) : osnap'[o] = osnap[o]
    PROVE  InForce(d)' = InForce(d) /\ IssuedSoFar(d)' = IssuedSoFar(d)
<1> DEFINE e == CHOOSE o \in EvictingOn(d) : TRUE
<1>1. EvictingOn(d) # {} => e \in EvictingOn(d)
    OBVIOUS
<1>2. EvictingOn(d) # {} => osnap'[e] = osnap[e]
    BY <1>1
<1>3. InForce(d)' = IF EvictingOn(d) = {} THEN active[d] ELSE osnap'[e]
    BY DEF InForce
<1> QED BY <1>2, <1>3 DEF InForce, IssuedSoFar

\* A step that leaves what is in force and ends some sessions, or none.
LEMMA QuietStep ==
    ASSUME \A d \in Devices : InForce(d)' = InForce(d) /\ IssuedSoFar(d)' = IssuedSoFar(d),
           registry \in [Devices -> Connections \cup {None}],
           registry' \in [Devices -> Connections \cup {None}],
           sgen' = sgen, Accepting' = Accepting,
           \A d \in Devices : registry'[d] \in {registry[d], None}
    PROVE  Abstract!Next
<1> DEFINE D == {d \in Devices : registry'[d] = None}
<1>1. [d \in Devices |-> InForce(d)]' = [d \in Devices |-> InForce(d)]
    OBVIOUS
<1>2. [d \in Devices |-> IssuedSoFar(d)]' = [d \in Devices |-> IssuedSoFar(d)]
    OBVIOUS
<1>3. registry' = [d \in Devices |-> IF d \in D THEN None ELSE registry[d]]
    OBVIOUS
<1>4. [d \in Devices |-> SessionGen(d)]' =
          [d \in Devices |-> IF d \in D THEN 0 ELSE [u \in Devices |-> SessionGen(u)][d]]
    BY DEF SessionGen
<1>5. Abstract!Disconnect(D)
    BY <1>1, <1>2, <1>3, <1>4 DEF Abstract!Disconnect, SessionGen, Accepting
<1>6. D \in SUBSET Devices
    OBVIOUS
<1> HIDE DEF D
<1> QED BY <1>5, <1>6 DEF Abstract!Next, Abstract!Disconnect

\* The steps that touch neither the store nor an eviction.
LEMMA UncommittedStep ==
    ASSUME IInv, IInv', UNCHANGED <<active, version, sgen>>,
           Accepting' = Accepting,
           \A o \in Operations : Evicting(o)' <=> Evicting(o),
           \A o \in Operations : Evicting(o) =>
              odev'[o] = odev[o] /\ osnap'[o] = osnap[o],
           \A d \in Devices : registry'[d] \in {registry[d], None}
    PROVE  Abstract!Next
<1>1. ASSUME NEW d \in Devices
      PROVE  InForce(d)' = InForce(d) /\ IssuedSoFar(d)' = IssuedSoFar(d)
  <2>1. EvictingOn(d)' = EvictingOn(d)
      BY DEF EvictingOn
  <2>2. \A o \in EvictingOn(d) : osnap'[o] = osnap[o]
      BY DEF EvictingOn
  <2> QED BY <2>1, <2>2, InForceFrame
<1> QED BY <1>1, QuietStep DEF IInv, TypeOK

\* The commit of an operation is not seen from outside.
LEMMA CommitStep ==
    ASSUME IInv, IInv', CommitIsUnseen, NEW o \in Operations,
           MutateExpected(o) \/ Complete(o)
    PROVE  Abstract!Next
<1>0. PICK d \in Devices : d = odev[o]
    BY DEF MutateExpected, Complete, IInv, Bindings
<1>1. /\ odev[o] = d /\ active[d] \in {0, version[d]}
      /\ active[d] \in Generations /\ version[d] \in Nat
      /\ UNCHANGED <<registry, sgen, odev, stopPc>> /\ opc[o] = "body"
    BY <1>0 DEF MutateExpected, Complete, IInv, TypeOK, Bindings, CommitIsUnseen,
           Generations
<1>2. CASE LeaveBody(o)
  <2>1. \A p \in Operations : Evicting(p)' <=> Evicting(p)
      BY <1>1, <1>2 DEF LeaveBody, AuthDrainPhase, Evicting, IInv, TypeOK
  <2> QED BY <1>1, <1>2, <2>1, UncommittedStep DEF LeaveBody, Accepting
<1>3. ASSUME NEW new, Commit(o, d, active[d], new),
             new = 0 \/ new = version[d] + 1
      PROVE  Abstract!Next
  <2>1. /\ active'[d] = new /\ version'[d] = IF new = 0 THEN version[d] ELSE new
        /\ \A e \in Devices : e # d => active'[e] = active[e] /\ version'[e] = version[e]
      BY <1>1, <1>3 DEF Commit, IInv, TypeOK
  <2>2. /\ osnap'[o] = active[d] /\ opc'[o] = "evict"
        /\ \A p \in Operations : p # o => osnap'[p] = osnap[p] /\ opc'[p] = opc[p]
      BY <1>3 DEF Commit, IInv, TypeOK
  <2>3. \A p \in Operations : Evicting(p) => odev[p] # d /\ p # o
      BY <1>1, OneEviction DEF Evicting, Locked
  <2>4. ASSUME NEW e \in Devices
        PROVE  InForce(e)' = InForce(e) /\ IssuedSoFar(e)' = IssuedSoFar(e)
    <3>1. CASE e # d
      <4>1. EvictingOn(e)' = EvictingOn(e) /\ o \notin EvictingOn(e)
          BY <1>1, <2>2, <3>1 DEF EvictingOn, Evicting
      <4>2. \A p \in EvictingOn(e) : osnap'[p] = osnap[p]
          BY <2>2, <4>1 DEF EvictingOn
      <4> QED BY <2>1, <3>1, <4>1, <4>2, InForceFrame
    <3>2. CASE e = d
      <4>1. InForce(d) = active[d] /\ IssuedSoFar(d) = version[d]
          BY <1>1, <2>3, InForceValues
      <4>2. EvictingOn(d)' = {o}
          BY <1>1, <2>2, <2>3 DEF EvictingOn, Evicting
      <4>3. (CHOOSE p \in {o} : TRUE) = o
          OBVIOUS
      <4>4. InForce(d)' = active[d]
          BY <1>1, <2>2, <4>2, <4>3 DEF InForce
      <4>5. new # 0 => new - 1 = version[d]
          BY <1>1, <1>3
      <4>6. IssuedSoFar(d)' = version[d]
          BY <1>1, <2>1, <4>2, <4>5 DEF IssuedSoFar
      <4> QED BY <3>2, <4>1, <4>4, <4>6
    <3> QED BY <3>1, <3>2
  <2> QED BY <1>1, <2>4, QuietStep DEF IInv, TypeOK, Accepting
<1>4. CASE MutateExpected(o)
    BY <1>0, <1>2, <1>3, <1>4 DEF MutateExpected
<1>5. CASE Complete(o)
    BY <1>0, <1>2, <1>3, <1>5 DEF Complete
<1> QED BY <1>4, <1>5

\* The eviction is the step in which the credential is replaced.
LEMMA InvalidateStep ==
    ASSUME IInv, IInv', CommitIsUnseen, NEW o \in Operations, Invalidate(o)
    PROVE  Abstract!Next
<1> DEFINE d == odev[o]
<1>1. /\ d \in Devices /\ Evicting(o) /\ active[d] # osnap[o]
      /\ active[d] \in {0, version[d]} /\ version[d] \in Nat
      /\ UNCHANGED <<active, version, sgen, odev, osnap, stopPc>>
    BY DEF Invalidate, IInv, TypeOK, Bindings, CommitIsUnseen, Evicting, Generations
<1>2. /\ opc'[o] = "publish"
      /\ \A p \in Operations : p # o => opc'[p] = opc[p]
    BY DEF Invalidate, IInv, TypeOK
<1>3. \A p \in Operations : p # o /\ Evicting(p) => odev[p] # d
    BY <1>1, OneEviction DEF Evicting, Locked
<1>4. /\ InForce(d) = osnap[o]
      /\ IssuedSoFar(d) = IF active[d] # 0 THEN version[d] - 1 ELSE version[d]
    BY <1>1, InForceValues
<1>5. InForce(d)' = active[d] /\ IssuedSoFar(d)' = version[d]
  <2>1. EvictingOn(d)' = {}
      BY <1>1, <1>2, <1>3 DEF EvictingOn, Evicting
  <2> QED BY <1>1, <2>1 DEF InForce, IssuedSoFar
<1>6. ASSUME NEW e \in Devices, e # d
      PROVE  InForce(e)' = InForce(e) /\ IssuedSoFar(e)' = IssuedSoFar(e)
  <2>1. EvictingOn(e)' = EvictingOn(e)
      BY <1>1, <1>2, <1>6 DEF EvictingOn, Evicting
  <2> QED BY <1>1, <2>1, InForceFrame
<1>7. registry' = [registry EXCEPT ![d] = None]
    BY <1>1 DEF Invalidate, EvictGeneration, CommitIsUnseen, IInv, TypeOK
<1>8. [e \in Devices |-> SessionGen(e)]' =
          [[e \in Devices |-> SessionGen(e)] EXCEPT ![d] = 0]
    BY <1>1, <1>7 DEF SessionGen, IInv, TypeOK
<1>9. [e \in Devices |-> InForce(e)]' =
          [[e \in Devices |-> InForce(e)] EXCEPT ![d] = active[d]]
    BY <1>1, <1>5, <1>6
<1>10. CASE active[d] = 0
  <2>1. [e \in Devices |-> IssuedSoFar(e)]' = [e \in Devices |-> IssuedSoFar(e)]
      BY <1>1, <1>4, <1>5, <1>6, <1>10
  <2>2. Abstract!Replace(d, 0)
      BY <1>1, <1>4, <1>7, <1>8, <1>9, <1>10, <2>1
         DEF Abstract!Replace, SessionGen
  <2> QED BY <1>1, <2>2 DEF Abstract!Next
<1>11. CASE active[d] # 0
  <2> DEFINE issued == [e \in Devices |-> IssuedSoFar(e)]
  <2>1. issued[d] + 1 = active[d] /\ active[d] = version[d]
      BY <1>1, <1>4, <1>11
  <2>2. issued' = [issued EXCEPT ![d] = active[d]]
      BY <1>1, <1>5, <1>6, <2>1
  <2>3. Abstract!Replace(d, issued[d] + 1)
      BY <1>1, <1>4, <1>7, <1>8, <1>9, <1>11, <2>1, <2>2
         DEF Abstract!Replace, SessionGen
  <2> QED BY <1>1, <2>3 DEF Abstract!Next, Abstract!Replace
<1> QED BY <1>10, <1>11

\* A handshake that becomes ready opens a session with what is in force.
LEMMA BecomeReadyStep ==
    ASSUME IInv, IInv', CommitIsUnseen, NEW h \in Handshakes, BecomeReady(h)
    PROVE  Abstract!Next
<1> DEFINE c == hconn[h]
           d == hdev[h]
<1>1. /\ c \in Connections /\ d \in Devices /\ Leased(h)
      /\ UNCHANGED <<active, version, odev, osnap, stopPc>>
    BY DEF BecomeReady, IInv, Bindings, Leased
<1>2. \A o \in Operations : Evicting(o)' <=> Evicting(o)
    BY WokenLemma DEF BecomeReady, ReleaseReadyLease, Evicting, IInv, TypeOK,
       OperationPhases
<1>3. CASE UNCHANGED <<sgen, registry>>
    BY <1>1, <1>2, <1>3, UncommittedStep DEF Accepting
<1>4. CASE hok[h] /\ conn[c] = "handshaking" /\ Register(c, d, hsec[h])
  <2>1. Accepting
      BY <1>1, <1>4 DEF IInv, TypeOK, ShutDown, Accepting, Leased
  <2>2. hsec[h] # 0 /\ active[d] = hsec[h]
      BY <1>4 DEF IInv, Bindings, ValidatedIsActive, BecomeReady
  <2>3. \A p \in Operations : Evicting(p) => odev[p] # d
      BY <1>1 DEF IInv, LeaseExcludesMutation, Evicting
  <2>4. InForce(d) = hsec[h]
      BY <1>1, <2>2, <2>3, InForceValues
  <2>5. \A e \in Devices : InForce(e)' = InForce(e) /\ IssuedSoFar(e)' = IssuedSoFar(e)
      BY <1>1, <1>2, InForceFrame DEF EvictingOn
  <2>6. /\ registry' = [registry EXCEPT ![d] = c]
        /\ sgen' = [sgen EXCEPT ![c] = hsec[h]]
      BY <1>4 DEF Register
  <2>7. \A e \in Devices : registry[e] # c
      BY <1>1, <1>4, NoneIsNothing DEF IInv, Bindings
  <2>8. [e \in Devices |-> SessionGen(e)]' =
            [[e \in Devices |-> SessionGen(e)] EXCEPT ![d] = hsec[h]]
      BY <1>1, <2>6, <2>7, NoneIsNothing DEF SessionGen, IInv, TypeOK
  <2>9. /\ [e \in Devices |-> InForce(e)]' = [e \in Devices |-> InForce(e)]
        /\ [e \in Devices |-> IssuedSoFar(e)]' = [e \in Devices |-> IssuedSoFar(e)]
      BY <2>5
  <2>10. Abstract!Connect(d, c)
      BY <1>1, <2>1, <2>2, <2>4, <2>6, <2>8, <2>9
         DEF Abstract!Connect, SessionGen, Accepting
  <2> QED BY <1>1, <2>10 DEF Abstract!Next, Abstract!Connect
<1> QED BY <1>3, <1>4 DEF BecomeReady

\* stop() ends sessions and then opens none.
LEMMA StopIsAbstract ==
    ASSUME IInv, IInv', StopStep
    PROVE  Abstract!Next
<1>1. /\ UNCHANGED <<active, version, sgen, odev, osnap>>
      /\ \A o \in Operations : Evicting(o)' <=> Evicting(o)
      /\ \A d \in Devices : registry'[d] \in {registry[d], None}
  <2>1. /\ UNCHANGED <<active, version, sgen, odev, osnap>>
        /\ \A d \in Devices : registry'[d] \in {registry[d], None}
      BY DEF StopStep, Stop, StopConnections, FinalizeConnections, StopClear, IInv, TypeOK
  <2>2. CASE Stop
      BY <2>2 DEF Stop, Evicting, IInv, TypeOK
  <2>3. CASE StopConnections \/ FinalizeConnections \/ StopClear
      BY <2>3 DEF StopConnections, FinalizeConnections, StopClear, Evicting
  <2> QED BY <2>1, <2>2, <2>3 DEF StopStep
<1>2. CASE Stop \/ FinalizeConnections \/ StopClear
  <2>1. Accepting' = Accepting
      BY <1>2 DEF Stop, FinalizeConnections, StopClear, Accepting
  <2> QED BY <1>1, <2>1, UncommittedStep
<1>3. CASE StopConnections
  <2>1. \A d \in Devices : InForce(d)' = InForce(d) /\ IssuedSoFar(d)' = IssuedSoFar(d)
      BY <1>1, InForceFrame DEF EvictingOn
  <2>2. UNCHANGED <<registry, sgen>> /\ Accepting' = FALSE
      BY <1>3 DEF StopConnections, Accepting
  <2>3. Abstract!Shutdown
      BY <2>1, <2>2 DEF Abstract!Shutdown, Accepting
  <2> QED BY <2>3 DEF Abstract!Next
<1> QED BY <1>2, <1>3 DEF StopStep

\* Every step of the runtime is a step of CredentialSessions or a stutter.
LEMMA NextRefines ==
    ASSUME IInv, IInv', CommitIsUnseen, [Next]_vars
    PROVE  Abstract!Next
<1>1. ASSUME UNCHANGED <<active, version, sgen, odev, osnap, stopPc>>,
             \A o \in Operations : Evicting(o)' <=> Evicting(o),
             \A d \in Devices : registry'[d] \in {registry[d], None}
      PROVE  Abstract!Next
    BY <1>1, UncommittedStep DEF Accepting
<1>2. ASSUME NEW c \in Connections, ConnectionStep(c) PROVE Abstract!Next
    BY <1>1, <1>2 DEF ConnectionStep, Open, BeginClose, SocketClosed, Lapse, Pong,
       HeartbeatRead, HeartbeatValidate, HeartbeatFail, Evicted, IInv, TypeOK,
       Evicting
<1>3. ASSUME NEW h \in Handshakes, NEW c \in Connections, NEW d \in Devices,
             NEW g \in Generations, Hello(h, c, d, g)
      PROVE  Abstract!Next
    BY <1>1, <1>3 DEF Hello, Evicting
<1>4. ASSUME NEW h \in Handshakes,
             VerifyRead(h) \/ Authenticate(h) \/ TakeReadyLease(h) \/ ValidateRead(h)
      PROVE  Abstract!Next
  <2>1. UNCHANGED <<active, version, sgen, registry, odev, osnap, stopPc>>
      BY <1>4 DEF VerifyRead, Authenticate, TakeReadyLease, ValidateRead,
         ReadCredential
  <2>2. \A o \in Operations : Evicting(o)' <=> Evicting(o)
      BY <1>4, WokenLemma DEF VerifyRead, Authenticate, TakeReadyLease,
         ValidateRead, ReadCredential, EndAuthentication, Evicting, IInv, TypeOK,
         OperationPhases
  <2> QED BY <1>1, <2>1, <2>2
<1>5. ASSUME NEW h \in Handshakes, HandshakeStep(h) PROVE Abstract!Next
    BY <1>3, <1>4, <1>5, BecomeReadyStep DEF HandshakeStep
<1>6. ASSUME NEW o \in Operations, NEW k \in Kinds, NEW d \in Devices,
             BeginOperation(o, k, d)
      PROVE  Abstract!Next
  <2>1. \A p \in Operations : p # o => opc'[p] = opc[p] /\ odev'[p] = odev[p]
      BY <1>6 DEF BeginOperation, IInv, TypeOK
  <2>2. opc[o] = "idle" /\ opc'[o] = "queued"
      BY <1>6 DEF BeginOperation, IInv, TypeOK
  <2>3. UNCHANGED <<active, version, sgen, osnap, registry>> /\ Accepting' = Accepting
      BY <1>6 DEF BeginOperation, Accepting
  <2> QED BY <2>1, <2>2, <2>3, UncommittedStep DEF Evicting
<1>7. ASSUME NEW o \in Operations, ReadSnapshot(o) PROVE Abstract!Next
  <2>1. \A p \in Operations : Evicting(p) => p # o /\ osnap'[p] = osnap[p]
      BY <1>7 DEF ReadSnapshot, Evicting, IInv, TypeOK
  <2>2. /\ UNCHANGED <<active, version, sgen, odev, opc, registry>>
        /\ Accepting' = Accepting
      BY <1>7 DEF ReadSnapshot, Accepting
  <2> QED BY <2>1, <2>2, UncommittedStep DEF Evicting
<1>8. ASSUME NEW o \in Operations,
             AcquireLock(o) \/ EnterBody(o) \/ Publish(o) \/ ReleaseLock(o)
                \/ EndOperation(o)
      PROVE  Abstract!Next
  <2>1. /\ UNCHANGED <<active, version, sgen, odev, osnap, stopPc>>
        /\ \A d \in Devices : registry'[d] \in {registry[d], None}
      BY <1>8 DEF AcquireLock, EnterBody, Publish, ReleaseLock, EndOperation,
         EvictGeneration, IInv, TypeOK
  <2>2. \A p \in Operations : Evicting(p)' <=> Evicting(p)
      BY <1>8 DEF AcquireLock, EnterBody, Publish, ReleaseLock, EndOperation,
         AuthDrainPhase, Evicting, IInv, TypeOK
  <2> QED BY <1>1, <2>1, <2>2
<1>9. ASSUME NEW o \in Operations, OperationStep(o) PROVE Abstract!Next
    BY <1>6, <1>7, <1>8, <1>9, CommitStep, InvalidateStep DEF OperationStep
<1>10. CASE UNCHANGED vars
    BY <1>1, <1>10 DEF vars, Evicting
<1> QED BY <1>2, <1>5, <1>9, <1>10, StopIsAbstract DEF Next

\* The initial states are those of the abstract specification.
LEMMA InitRefines == Init => Abstract!Init /\ CommitIsUnseen
<1> SUFFICES ASSUME Init PROVE Abstract!Init /\ CommitIsUnseen
    OBVIOUS
<1>1. \A d \in Devices : EvictingOn(d) = {} /\ registry[d] = None
    BY DEF Init, EvictingOn, Evicting
<1>2. /\ [d \in Devices |-> InForce(d)] = active
      /\ [d \in Devices |-> IssuedSoFar(d)] = active
      /\ [d \in Devices |-> SessionGen(d)] = [d \in Devices |-> 0]
    BY <1>1 DEF Init, InForce, IssuedSoFar, SessionGen
<1>3. Abstract!Init
    BY <1>2 DEF Init, Abstract!Init, SessionGen
<1>4. CommitIsUnseen
    BY DEF Init, CommitIsUnseen, Evicting
<1> QED BY <1>3, <1>4

-----------------------------------------------------------------------------
(* A verification that is out of date is waited for. *)

\* The counter stays exact when no verification begins or ends.
LEMMA VerificationsFrame ==
    ASSUME VerificationsAreCounted, authCount' = authCount,
           stopPc' # "stopped" => stopPc # "stopped",
           \A h \in Handshakes : /\ Authenticating(h)' <=> Authenticating(h)
                                 /\ Authenticating(h) => hdev'[h] = hdev[h]
    PROVE  VerificationsAreCounted'
<1>1. \A d \in Devices : Authentications(d)' = Authentications(d)
    BY DEF Authentications
<1> QED BY <1>1 DEF VerificationsAreCounted

\* No answer becomes out of date when the store is not written, no handshake
\* gets an answer and no operation stops to wait for one.
LEMMA OverlapFrame ==
    ASSUME StaleIsOverlapped, active' = active, Stopping => Stopping',
           \A h \in Handshakes : hpc'[h] = "verified" =>
              /\ hpc[h] = "verified" /\ hok'[h] = hok[h]
              /\ hdev'[h] = hdev[h] /\ hsec'[h] = hsec[h],
           \A o \in Operations : Overlaps(o) =>
              /\ odev'[o] = odev[o]
              /\ \/ Overlaps(o)' \/ Stopping'
                 \/ \A h \in Handshakes : hpc'[h] = "verified" => hdev[h] # odev[o]
    PROVE  StaleIsOverlapped'
BY DEF StaleIsOverlapped

\* Nobody is counted for d, so nobody verifies a credential of d.
LEMMA NoVerification ==
    ASSUME VerificationsAreCounted, stopPc # "stopped", NEW d \in Devices,
           authCount[d] = 0
    PROVE  \A h \in Handshakes : Authenticating(h) => hdev[h] # d
<1>1. Authentications(d) \in SUBSET Handshakes
    BY DEF Authentications
<1>2. Authentications(d) = {}
    BY <1>1, TasksAreFinite, FS_EmptySet DEF VerificationsAreCounted
<1> QED BY <1>2 DEF Authentications

\* A hello that is verified is counted.
LEMMA HelloKeepsOverlap ==
    ASSUME IInv, VerificationsAreCounted, StaleIsOverlapped,
           NEW h \in Handshakes, NEW c \in Connections, NEW d \in Devices,
           NEW g \in Generations, Hello(h, c, d, g)
    PROVE  VerificationsAreCounted' /\ StaleIsOverlapped'
<1>1. /\ \A k \in Handshakes \ {h} : hpc'[k] = hpc[k] /\ hdev'[k] = hdev[k]
                                     /\ hsec'[k] = hsec[k]
      /\ hdev'[h] = d /\ hpc[h] = "idle" /\ hpc'[h] \in {"verify", "done"}
    BY DEF Hello, IInv, TypeOK
<1>2. StaleIsOverlapped'
    BY <1>1, OverlapFrame DEF Hello, Stopping, Overlaps
<1>3. CASE hpc'[h] = "done"
  <2>1. authCount' = authCount
      BY <1>1, <1>3 DEF Hello, IInv, TypeOK
  <2> QED BY <1>1, <1>2, <1>3, <2>1, VerificationsFrame DEF Hello, Authenticating
<1>4. CASE hpc'[h] = "verify"
  <2>1. authCount' = [authCount EXCEPT ![d] = @ + 1]
      BY <1>4 DEF Hello, IInv, TypeOK
  <2>2. /\ Authentications(d)' = Authentications(d) \cup {h}
        /\ h \notin Authentications(d)
      BY <1>1, <1>4 DEF Authentications, Authenticating
  <2>3. \A e \in Devices \ {d} : Authentications(e)' = Authentications(e)
      BY <1>1, <1>4 DEF Authentications, Authenticating
  <2>4. Authentications(d) \in SUBSET Handshakes
      BY DEF Authentications
  <2>5. Cardinality(Authentications(d) \cup {h}) = Cardinality(Authentications(d)) + 1
      BY <2>2, <2>4, TasksAreFinite, FS_AddElement
  <2>6. VerificationsAreCounted'
      BY <2>1, <2>2, <2>3, <2>5 DEF VerificationsAreCounted, Hello, IInv, TypeOK
  <2> QED BY <1>2, <2>6
<1> QED BY <1>1, <1>3, <1>4

\* The answer is right when it is given.
LEMMA ReadKeepsOverlap ==
    ASSUME IInv, VerificationsAreCounted, StaleIsOverlapped,
           NEW h \in Handshakes, VerifyRead(h) \/ ValidateRead(h)
    PROVE  VerificationsAreCounted' /\ StaleIsOverlapped'
<1>1. /\ \A k \in Handshakes \ {h} : hpc'[k] = hpc[k] /\ hok'[k] = hok[k]
      /\ hok'[h] => active[hdev[h]] = hsec[h]
      /\ UNCHANGED <<hdev, hsec, active, authCount, opc, odev, stopPc>>
  <2>1. hok' = [hok EXCEPT ![h] = (active[hdev[h]] = hsec[h])]
      BY DEF VerifyRead, ValidateRead, ReadCredential
  <2>2. hok'[h] => active[hdev[h]] = hsec[h]
      BY <2>1, Zenon DEF IInv, TypeOK
  <2>3. \A k \in Handshakes \ {h} : hok'[k] = hok[k]
      BY <2>1, Zenon DEF IInv, TypeOK
  <2>4. \/ hpc[h] = "verify" /\ hpc' = [hpc EXCEPT ![h] = "verified"]
        \/ hpc[h] = "validate" /\ hpc' = [hpc EXCEPT ![h] = "validated"]
      BY Zenon DEF VerifyRead, ValidateRead, ReadCredential
  <2>5. UNCHANGED <<hdev, hsec, active, authCount, opc, odev, stopPc>>
      BY Zenon DEF VerifyRead, ValidateRead, ReadCredential
  <2> QED BY <2>2, <2>3, <2>4, <2>5 DEF IInv, TypeOK
<1>2. \/ hpc[h] = "verify" /\ hpc'[h] = "verified"
      \/ hpc[h] = "validate" /\ hpc'[h] = "validated"
    BY DEF VerifyRead, ValidateRead, ReadCredential, IInv, TypeOK
<1>3. VerificationsAreCounted'
    BY <1>1, <1>2, VerificationsFrame DEF Authenticating
<1>4. StaleIsOverlapped'
    BY <1>1, <1>2 DEF StaleIsOverlapped, Overlaps, Stopping
<1> QED BY <1>3, <1>4

\* The last verification to end wakes the operations that wait.
LEMMA AuthenticateKeepsOverlap ==
    ASSUME IInv, VerificationsAreCounted, StaleIsOverlapped,
           NEW h \in Handshakes, Authenticate(h)
    PROVE  VerificationsAreCounted' /\ StaleIsOverlapped'
<1>0. PICK d \in Devices : d = hdev[h]
    BY DEF Authenticate, IInv, Bindings
<1>1. /\ \A k \in Handshakes \ {h} : hpc'[k] = hpc[k]
      /\ hpc[h] = "verified" /\ hpc'[h] \in {"authenticated", "done"}
      /\ UNCHANGED <<hdev, hsec, hok, active, odev, stopPc>>
      /\ authCount' = [authCount EXCEPT ![d] = Decremented(@)]
    BY <1>0 DEF Authenticate, EndAuthentication, IInv, TypeOK
<1>2. /\ Authentications(d)' = Authentications(d) \ {h}
      /\ h \in Authentications(d)
    BY <1>0, <1>1 DEF Authentications, Authenticating
<1>3. \A e \in Devices \ {d} : Authentications(e)' = Authentications(e)
    BY <1>0, <1>1 DEF Authentications, Authenticating
<1>4. Authentications(d) \in SUBSET Handshakes
    BY DEF Authentications
<1>5. /\ Cardinality(Authentications(d) \ {h}) = Cardinality(Authentications(d)) - 1
      /\ Cardinality(Authentications(d) \ {h}) \in Nat
    BY <1>2, <1>4, TasksAreFinite, FS_RemoveElement
<1>6. stopPc # "stopped" =>
         Decremented(authCount[d]) = Cardinality(Authentications(d) \ {h})
    BY <1>5 DEF VerificationsAreCounted, Decremented, IInv, TypeOK
<1>7. VerificationsAreCounted'
    BY <1>1, <1>2, <1>3, <1>6 DEF VerificationsAreCounted, IInv, TypeOK
<1>8. CASE Stopping
    BY <1>1, <1>7, <1>8 DEF StaleIsOverlapped, Stopping
<1>9. CASE ~Stopping
  <2>1. CASE opc' = opc
      BY <1>1, <1>7, <2>1, OverlapFrame DEF Overlaps, Stopping
  <2>2. CASE Decremented(authCount[d]) = 0 /\ opc' = Woken(d, "authWait", "authGo")
    <3>1. Authentications(d)' = {}
        BY <1>2, <1>4, <1>6, <1>9, <2>2, TasksAreFinite, FS_EmptySet
           DEF Stopping
    <3>2. \A k \in Handshakes : hpc'[k] = "verified" => hdev[k] # d
        BY <1>1, <3>1 DEF Authentications, Authenticating
    <3>3. \A o \in Operations : Overlaps(o) => Overlaps(o)' \/ odev[o] = d
        BY <2>2, WokenLemma DEF Overlaps, IInv, TypeOK, OperationPhases
    <3> QED BY <1>1, <1>7, <3>2, <3>3, OverlapFrame DEF Stopping
  <2> QED BY <1>0, <2>1, <2>2 DEF Authenticate, EndAuthentication
<1> QED BY <1>7, <1>8, <1>9

\* A commit makes answers out of date, and its operation overlaps them.
LEMMA CommitKeepsOverlap ==
    ASSUME IInv, VerificationsAreCounted, StaleIsOverlapped,
           NEW o \in Operations, MutateExpected(o) \/ Complete(o)
    PROVE  VerificationsAreCounted' /\ StaleIsOverlapped'
<1>0. PICK d \in Devices : d = odev[o]
    BY DEF MutateExpected, Complete, IInv, Bindings
<1>1. /\ UNCHANGED <<hpc, hdev, hsec, hok, odev, stopPc, authCount>>
      /\ opc[o] = "body"
    BY DEF MutateExpected, Complete
<1>2. VerificationsAreCounted'
    BY <1>1, VerificationsFrame DEF Authenticating
<1>3. CASE LeaveBody(o)
  <2>1. /\ active' = active
        /\ \A p \in Operations : Overlaps(p) => Overlaps(p)'
      BY <1>1, <1>3 DEF LeaveBody, Overlaps, IInv, TypeOK
  <2> QED BY <1>1, <1>2, <2>1, OverlapFrame DEF Stopping
<1>4. ASSUME NEW old, NEW new, Commit(o, d, old, new) PROVE StaleIsOverlapped'
  <2>1. /\ \A e \in Devices \ {d} : active'[e] = active[e]
        /\ \A p \in Operations : Overlaps(p) => Overlaps(p)'
        /\ Overlaps(o)'
      BY <1>4 DEF Commit, Overlaps, IInv, TypeOK
  <2>2. \A h \in Handshakes : hpc[h] = "verified" => hdev[h] \in Devices
      BY DEF IInv, Bindings
  <2> QED BY <1>0, <1>1, <2>1, <2>2 DEF StaleIsOverlapped, Stopping
<1> QED BY <1>0, <1>2, <1>3, <1>4 DEF MutateExpected, Complete

\* No step breaks either.
LEMMA NextKeepsOverlap ==
    ASSUME IInv, VerificationsAreCounted, StaleIsOverlapped, [Next]_vars
    PROVE  VerificationsAreCounted' /\ StaleIsOverlapped'
<1>1. ASSUME UNCHANGED <<hsVars, active, authCount, stopPc, odev>>,
             \A o \in Operations : Overlaps(o) => Overlaps(o)'
      PROVE  VerificationsAreCounted' /\ StaleIsOverlapped'
    BY <1>1, VerificationsFrame, OverlapFrame DEF Authenticating, Stopping
<1>2. ASSUME NEW c \in Connections, ConnectionStep(c)
      PROVE  VerificationsAreCounted' /\ StaleIsOverlapped'
  <2>1. UNCHANGED <<hsVars, active, authCount, stopPc, odev, opc>>
      BY <1>2 DEF ConnectionStep, Open, BeginClose, SocketClosed, Lapse, Pong,
         HeartbeatRead, HeartbeatValidate, HeartbeatFail
  <2> QED BY <1>1, <2>1 DEF Overlaps
<1>3. ASSUME NEW h \in Handshakes, TakeReadyLease(h) \/ BecomeReady(h)
      PROVE  VerificationsAreCounted' /\ StaleIsOverlapped'
  <2>1. /\ \A k \in Handshakes \ {h} : hpc'[k] = hpc[k]
        /\ hpc[h] \in {"authenticated", "validated"}
        /\ hpc'[h] \in {"validate", "done"}
        /\ UNCHANGED <<hdev, hsec, active, authCount, stopPc, odev, hok>>
      BY <1>3 DEF TakeReadyLease, BecomeReady, IInv, TypeOK
  <2>2. \A o \in Operations : Overlaps(o) => Overlaps(o)'
      BY <1>3, WokenLemma DEF TakeReadyLease, BecomeReady, ReleaseReadyLease,
         Overlaps, IInv, TypeOK, OperationPhases
  <2>3. VerificationsAreCounted'
      BY <2>1, VerificationsFrame DEF Authenticating
  <2> QED BY <2>1, <2>2, <2>3, OverlapFrame DEF Stopping
<1>4. ASSUME NEW h \in Handshakes, HandshakeStep(h)
      PROVE  VerificationsAreCounted' /\ StaleIsOverlapped'
    BY <1>3, <1>4, HelloKeepsOverlap, ReadKeepsOverlap, AuthenticateKeepsOverlap
       DEF HandshakeStep
<1>5. ASSUME NEW o \in Operations, NEW k \in Kinds, NEW d \in Devices,
             BeginOperation(o, k, d)
      PROVE  VerificationsAreCounted' /\ StaleIsOverlapped'
  <2>1. \A p \in Operations : Overlaps(p) => Overlaps(p)' /\ odev'[p] = odev[p]
      BY <1>5 DEF BeginOperation, Overlaps, IInv, TypeOK
  <2> QED BY <1>5, <2>1, VerificationsFrame, OverlapFrame
          DEF BeginOperation, Authenticating, Stopping
<1>6. ASSUME NEW o \in Operations,
             ReadSnapshot(o) \/ AcquireLock(o) \/ EnterBody(o) \/ Invalidate(o)
                \/ ReleaseLock(o) \/ EndOperation(o)
      PROVE  VerificationsAreCounted' /\ StaleIsOverlapped'
  <2>1. UNCHANGED <<hsVars, active, authCount, stopPc, odev>>
      BY <1>6 DEF ReadSnapshot, AcquireLock, EnterBody, Invalidate, ReleaseLock,
         EndOperation
  <2>2. \A p \in Operations : Overlaps(p) => Overlaps(p)'
      BY <1>6 DEF ReadSnapshot, AcquireLock, EnterBody, Invalidate, ReleaseLock,
         EndOperation, Overlaps, IInv, TypeOK
  <2> QED BY <1>1, <2>1, <2>2
<1>7. ASSUME NEW o \in Operations, Publish(o)
      PROVE  VerificationsAreCounted' /\ StaleIsOverlapped'
  <2>1. UNCHANGED <<hsVars, active, authCount, stopPc, odev>>
      BY <1>7 DEF Publish
  <2>2. /\ \A p \in Operations \ {o} : opc'[p] = opc[p]
        /\ opc'[o] \in {"authWait", "authGo"}
        /\ opc'[o] = "authGo" => Stopping \/ authCount[odev[o]] = 0
      BY <1>7 DEF Publish, AuthDrainPhase, IInv, TypeOK
  <2>3. odev[o] \in Devices
      BY <1>7 DEF Publish, IInv, Bindings
  <2>4. opc'[o] = "authGo" /\ ~Stopping =>
           \A h \in Handshakes : hpc[h] = "verified" => hdev[h] # odev[o]
      BY <2>2, <2>3, NoVerification DEF Stopping, Authenticating
  <2> QED BY <2>1, <2>2, <2>4, VerificationsFrame, OverlapFrame
          DEF Authenticating, Overlaps, Stopping
<1>8. ASSUME NEW o \in Operations, OperationStep(o)
      PROVE  VerificationsAreCounted' /\ StaleIsOverlapped'
    BY <1>5, <1>6, <1>7, <1>8, CommitKeepsOverlap DEF OperationStep
<1>9. CASE StopStep
  <2>1. StaleIsOverlapped'
      BY <1>9 DEF StopStep, Stop, StopConnections, FinalizeConnections, StopClear,
         StaleIsOverlapped, Stopping
  <2>2. CASE StopClear
      BY <2>1, <2>2 DEF StopClear, VerificationsAreCounted
  <2>3. CASE Stop \/ StopConnections \/ FinalizeConnections
      BY <2>1, <2>3, VerificationsFrame DEF Stop, StopConnections,
         FinalizeConnections, Authenticating
  <2> QED BY <1>9, <2>2, <2>3 DEF StopStep
<1>10. CASE UNCHANGED vars
    BY <1>1, <1>10 DEF vars, Overlaps
<1> QED BY <1>2, <1>4, <1>8, <1>9, <1>10 DEF Next

\* A verification that lets its handshake go on is still right: no marker is set,
\* so no operation on the device is in flight, whatever ran since the answer.
LEMMA AuthenticateIsFresh ==
    ASSUME IInv, StaleIsOverlapped, [Next]_vars
    PROVE  \A h \in Handshakes :
              hpc[h] = "verified" /\ hpc'[h] = "authenticated"
                 => active[hdev[h]] = hsec[h]
<1> SUFFICES ASSUME NEW h \in Handshakes,
                    hpc[h] = "verified", hpc'[h] = "authenticated"
             PROVE  active[hdev[h]] = hsec[h]
    OBVIOUS
<1>1. ~UNCHANGED hsVars
    BY DEF hsVars
<1>2. PICK k \in Handshakes : HandshakeStep(k)
  <2>1. ASSUME NEW c \in Connections, ConnectionStep(c) PROVE UNCHANGED hsVars
      BY <2>1 DEF ConnectionStep, Open, BeginClose, SocketClosed, Lapse, Pong,
         HeartbeatRead, HeartbeatValidate, HeartbeatFail
  <2>2. ASSUME NEW o \in Operations, OperationStep(o) PROVE UNCHANGED hsVars
      BY <2>2 DEF OperationStep, BeginOperation, ReadSnapshot, AcquireLock,
         EnterBody, MutateExpected, Complete, Invalidate, Publish, ReleaseLock,
         EndOperation
  <2>3. StopStep => UNCHANGED hsVars
      BY DEF StopStep, Stop, StopConnections, FinalizeConnections, StopClear
  <2>4. UNCHANGED vars => UNCHANGED hsVars
      BY DEF vars
  <2> QED BY <1>1, <2>1, <2>2, <2>3, <2>4 DEF Next
<1>3. k = h /\ Authenticate(h)
  <2>1. \A c \in Connections, d \in Devices, g \in Generations :
           ~Hello(k, c, d, g)
      BY ZenonT(30) DEF Hello, IInv, TypeOK
  <2>2. ~VerifyRead(k) /\ ~TakeReadyLease(k) /\ ~ValidateRead(k) /\ ~BecomeReady(k)
      BY DEF VerifyRead, TakeReadyLease, ValidateRead, BecomeReady,
         ReadCredential, IInv, TypeOK
  <2>3. Authenticate(k)
      BY <1>2, <2>1, <2>2 DEF HandshakeStep
  <2> QED BY <2>3 DEF Authenticate, IInv, TypeOK
<1>4. /\ hok[h] /\ ~Stopping /\ ~MutationActive(hdev[h])
      /\ hdev[h] \in Devices
    BY <1>3 DEF Authenticate, IInv, TypeOK, Bindings
<1>5. \A o \in Operations : odev[o] = hdev[h] => ~Overlaps(o)
    BY <1>4, NoMark DEF Marked, Overlaps, IInv
<1> QED BY <1>4, <1>5 DEF StaleIsOverlapped

-----------------------------------------------------------------------------
(* The theorems. *)

\* The parts of Inv besides IInv hold initially.
LEMMA InitEstablishesRest ==
    Init => CommitIsUnseen /\ VerificationsAreCounted /\ StaleIsOverlapped
<1>1. Init => \A d \in Devices : Authentications(d) = {}
    BY DEF Init, Authentications, Authenticating
<1>2. Init => VerificationsAreCounted
    BY <1>1, FS_EmptySet, ZenonT(30) DEF Init, VerificationsAreCounted
<1>3. Init => CommitIsUnseen /\ StaleIsOverlapped
    BY InitRefines DEF Init, StaleIsOverlapped
<1> QED BY <1>2, <1>3

\* Inv is an invariant, for every set of devices, connections, handshakes and
\* operations and every bound on the generations.
THEOREM Inductive == Spec => []Inv
<1>1. Init => Inv
    BY InitEstablishes, InitEstablishesRest DEF Inv
<1>2. Inv /\ [Next]_vars => Inv'
    BY NextPreserves, NextKeepsUnseen, NextKeepsOverlap DEF Inv
<1> QED BY <1>1, <1>2, PTL DEF Spec

\* Type correctness of every reachable state.
THEOREM TypeCorrect == Spec => []TypeOK
<1>1. Inv => TypeOK
    BY DEF Inv, IInv
<1> QED BY <1>1, Inductive, PTL

\* No interleaving leaves a session registered with a generation that is not
\* active, but for the step between a commit and its eviction.
THEOREM RegisteredSessionsAreActive == Spec => []RegisteredIsActive
<1>1. Inv => RegisteredIsActive
    BY DEF Inv, IInv
<1> QED BY <1>1, Inductive, PTL

\* The ready lease and the body of an operation on the same device exclude
\* each other.
THEOREM LeasesExcludeMutations == Spec => []LeaseExcludesMutation
<1>1. Inv => LeaseExcludesMutation
    BY DEF Inv, IInv
<1> QED BY <1>1, Inductive, PTL

\* A session that leaves the registry leaves the ready state with it.
THEOREM ReadySessionsAreRegistered == Spec => []ReadyIsRegistered
<1>1. Inv => ReadyIsRegistered
    BY DEF Inv, IInv
<1> QED BY <1>1, Inductive, PTL

\* A generation that a revoke or rotate has invalidated has no ready session.
THEOREM RevokedGenerationsAreNotReady == Spec => []RevokedIsNotReady
<1>1. ASSUME Inv PROVE RevokedIsNotReady
  <2>0. IInv
    BY <1>1 DEF Inv
  <2>1. SUFFICES ASSUME NEW o \in Operations, NEW c \in Connections,
                        Invalidated(o), conn[c] = "ready",
                        sdev[c] = odev[o], sgen[c] = osnap[o],
                        hb[c] # "failed"
                 PROVE  FALSE
    BY DEF RevokedIsNotReady
  <2> DEFINE d == odev[o]
  <2>2. d \in Devices /\ registry[d] = c /\ c # None
    BY <2>0, <2>1, NoneIsNothing DEF IInv, Bindings, ReadyIsRegistered
  <2>3. osnap[o] # 0 /\ active[d] # osnap[o]
    BY <2>0, <2>1, <2>2 DEF IInv, Bindings, ReplacedForever, Invalidated
  <2>4. PICK p \in Operations :
           Evicting(p) /\ odev[p] = d /\ osnap[p] = osnap[o]
    BY <2>0, <2>1, <2>2, <2>3 DEF IInv, RegisteredIsActive
  <2>5. ocommitted[p] /\ ocommitted[o] /\ p # o
    BY <2>0, <2>1, <2>4 DEF IInv, ReplacedForever, Evicting, Invalidated
  <2> QED BY <2>0, <2>3, <2>4, <2>5 DEF IInv, ReplacedForever
<1> QED BY <1>1, Inductive, PTL

\* A stopped runtime has no ready connection and no registered session.
THEOREM StoppedRuntimesAreEmpty == Spec => []StoppedIsEmpty
<1>1. Inv => StoppedIsEmpty
    BY DEF Inv, IInv
<1> QED BY <1>1, Inductive, PTL
\* A handshake goes on only with the credential that is active at that moment,
\* although the answer it waited for may be older: authenticateDevice checks the
\* marker after its await and operations drain the verifications they overlap.
THEOREM AuthenticatedHandshakesAreFresh == Spec => AuthenticatedIsFresh
<1>1. Inv /\ [Next]_vars =>
         [\A h \in Handshakes :
             hpc[h] = "verified" /\ hpc'[h] = "authenticated"
                => active[hdev[h]] = hsec[h]]_vars
    BY AuthenticateIsFresh DEF Inv
<1> QED BY <1>1, Inductive, PTL DEF Spec, AuthenticatedIsFresh

\* The runtime implements CredentialSessions, for every number of devices,
\* connections, handshakes and operations: the change of a credential and the
\* end of its session are one event for whoever looks at both.
THEOREM RuntimeImplementsCredentialSessions == Spec => ImplementsCredentialSessions
<1>1. Init => Abstract!Init
    BY InitRefines
<1>2. Inv /\ Inv' /\ [Next]_vars => Abstract!Next
    BY NextRefines DEF Inv
<1> QED BY <1>1, <1>2, Inductive, PTL
        DEF Spec, ImplementsCredentialSessions, Abstract!Spec
=============================================================================
