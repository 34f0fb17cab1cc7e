---------------------------- MODULE PairingChannel ----------------------------
(***************************************************************************)
(* The delivery of the first credential over the pairing channel of one    *)
(* pairing session:                                                        *)
(*   - PairingChannelCoordinator (pairing-channel.ts) and its WebSocket    *)
(*     route (pairing-channel-route.ts) on the server,                     *)
(*   - LocalPairingClient (apps/agent/src/pairing-client.ts) on the local  *)
(*     machine, which reconnects when its socket drops,                    *)
(*   - the calls of devices_pair that wait for the acknowledgement,        *)
(*   - the completion record (PairingCompletion) that an acknowledgement   *)
(*     turns to delivered and a forgotten channel deletes.                 *)
(*                                                                         *)
(* A socket carries frames in order in both directions; "fin" is its close *)
(* event, and a socket that drops loses the frames in flight.  A send on   *)
(* the server awaits no more than a microtask, so it is part of its step;  *)
(* the digest of the proof, the acknowledgement and the storage of the     *)
(* credential are real awaits.                                             *)
(***************************************************************************)
EXTENDS Integers, Sequences, FiniteSets

CONSTANTS
    Sockets,        \* WebSocket connections; a dead one stands for a new one
    Calls,          \* calls of deliver()
    NoSocket,
    MaxReconnects   \* MAX_PAIRING_RECONNECT_ATTEMPTS

ASSUME NoSocketIsNoSocket == NoSocket \notin Sockets
ASSUME MaxReconnectsIsNat == MaxReconnects \in Nat

VARIABLES
    \* coordinator
    entry,      \* the session has an entry
    esock,      \* entry.socket
    attaching,  \* sockets whose attach awaits the digest of the proof
    delivery,   \* entry.delivery is set
    sentTo,     \* delivery.sentSocketId
    acking,     \* the socket whose acknowledgement is being recorded
    ackResult,  \* how acknowledgeDelivery answered: "none", "ok", "failed"
    ender,      \* coordinator.cancel and coordinator.close
    call,       \* deliver() calls: "idle", "waiting", "resolved", "rejected"
    \* completion record: "none", "pending", "delivered"
    record,
    \* sockets
    up, down,   \* frames to the server and to the client
    sopen,      \* the server's end is open
    copen,      \* the client's end is open
    \* LocalPairingClient
    cpc,        \* "idle", "starting", "attached", "reconnecting", "completed",
                \* "failed" (no listener left), "closed"
    csock,      \* this.#socket
    cwait,      \* the promise of waitForCredential
    storing,    \* sockets whose credential is being stored
    stored,     \* the credential is in the local file
    attempts    \* attempts of the reconnect loop

server  == <<entry, esock, attaching, delivery, sentTo, acking, ackResult,
             ender, call>>
sockets == <<up, down, sopen, copen>>
client  == <<cpc, csock, cwait, storing, stored, attempts>>
vars    == <<server, record, sockets, client>>

Settled == {"resolved", "rejected"}
Enders  == {"cancel", "close"}

-----------------------------------------------------------------------------
(* Frames and sockets. *)

\* Frames after the close event of an end are not delivered.
Sent(queue, open, s, frames) ==
    IF s # NoSocket /\ open[s] THEN [queue EXCEPT ![s] = @ \o frames] ELSE queue

\* connection.close on the server; its close handler detaches the socket.
Closed(s) == sopen' = IF s = NoSocket THEN sopen ELSE [sopen EXCEPT ![s] = FALSE]

\* The frames the server sends to s in this step, and whether it closes s.
Reply(s, frames, closes) ==
    /\ down' = Sent(down, sopen, s, IF closes THEN Append(frames, "fin")
                                              ELSE frames)
    /\ IF closes THEN Closed(s) ELSE UNCHANGED sopen

\* closeWithError of the route: an error frame, then the close.
Refuse(s) == Reply(s, <<"error">>, TRUE)

HeadIs(queue, s, frame) == queue[s] # <<>> /\ Head(queue[s]) = frame

\* The client's end of s closes.
ClientCloses(s) ==
    /\ copen' = IF s = NoSocket THEN copen ELSE [copen EXCEPT ![s] = FALSE]
    /\ up' = Sent(up, copen, s, <<"fin">>)

-----------------------------------------------------------------------------
(* Helpers of the coordinator. *)

\* #rejectWaiters, and the waiters an acknowledgement resolves.
CallsSettled(outcome) ==
    [c \in Calls |-> IF call[c] = "waiting" THEN outcome ELSE call[c]]

\* #removeEntry.  The completion record is forgotten unless the delivery was
\* acknowledged.
RemoveEntry(preserveDelivered) ==
    /\ entry' = FALSE /\ esock' = NoSocket
    /\ delivery' = FALSE /\ sentTo' = NoSocket
    /\ record' = IF preserveDelivered THEN record ELSE "none"

\* detach: only the entry's own socket leaves it.
Detach(s) ==
    IF esock = s
    THEN /\ esock' = NoSocket
         /\ sentTo' = IF sentTo = s THEN NoSocket ELSE sentTo
    ELSE UNCHANGED <<esock, sentTo>>

\* The server refuses s and closes it; the close handler detaches it.
RefuseAndDetach(s) == Refuse(s) /\ Detach(s)

-----------------------------------------------------------------------------
Init ==
    /\ entry = TRUE /\ esock = NoSocket /\ attaching = {}
    /\ delivery = FALSE /\ sentTo = NoSocket
    /\ acking = NoSocket /\ ackResult = "none"
    /\ ender = [e \in Enders |-> "idle"]
    /\ call = [c \in Calls |-> "idle"]
    /\ record = "none"
    /\ up = [s \in Sockets |-> <<>>] /\ down = [s \in Sockets |-> <<>>]
    /\ sopen = [s \in Sockets |-> FALSE] /\ copen = [s \in Sockets |-> FALSE]
    /\ cpc = "idle" /\ csock = NoSocket /\ cwait = "waiting"
    /\ storing = {} /\ stored = FALSE /\ attempts = 0

-----------------------------------------------------------------------------
(* Server: attach. *)

Popped(s) == up' = [up EXCEPT ![s] = Tail(@)]

\* Mutant: an attach does not look for another one in progress.
RecvAttachUnguarded(s) ==
    /\ sopen[s] /\ HeadIs(up, s, "attach") /\ Popped(s)
    /\ IF ender["close"] = "idle" /\ entry /\ esock = NoSocket
       THEN /\ attaching' = attaching \cup {s}
            /\ UNCHANGED <<esock, sentTo, down, sopen>>
       ELSE RefuseAndDetach(s) /\ UNCHANGED attaching
    /\ UNCHANGED <<entry, delivery, acking, ackResult, ender, call, record,
                   copen, client>>

\* pairing.attach until the digest of the proof is computed.
RecvAttach(s) ==
    /\ sopen[s] /\ HeadIs(up, s, "attach") /\ Popped(s)
    /\ IF /\ ender["close"] = "idle" /\ entry
          /\ esock = NoSocket /\ attaching = {}
       THEN /\ attaching' = {s}
            /\ UNCHANGED <<esock, sentTo, down, sopen>>
       ELSE RefuseAndDetach(s) /\ UNCHANGED attaching
    /\ UNCHANGED <<entry, delivery, acking, ackResult, ender, call, record,
                   copen, client>>

\* The entry may be gone and the socket closed by now.  The attached socket
\* gets the delivery that waits for it.
Attach(s) ==
    /\ s \in attaching
    /\ attaching' = attaching \ {s}
    /\ IF entry /\ sopen[s]
       THEN /\ esock' = s
            /\ IF delivery
               THEN sentTo' = s /\ Reply(s, <<"attached", "credential">>, FALSE)
               ELSE UNCHANGED sentTo /\ Reply(s, <<"attached">>, FALSE)
       ELSE UNCHANGED <<esock, sentTo>> /\ Refuse(s)
    /\ UNCHANGED <<entry, delivery, acking, ackResult, ender, call, record,
                   up, copen, client>>

\* A socket that has not attached in time is closed.
AttachTimeout(s) ==
    /\ sopen[s] /\ esock # s
    /\ Reply(s, <<>>, TRUE)
    /\ UNCHANGED <<server, record, up, copen, client>>

-----------------------------------------------------------------------------
(* Server: delivery and acknowledgement. *)

\* claimAndIssue has persisted a pending completion.
IssueCompletion ==
    /\ record = "none" /\ entry /\ ~delivery
    /\ \A c \in Calls : call[c] = "idle"
    /\ record' = "pending"
    /\ UNCHANGED <<server, sockets, client>>

\* deliver: the first call creates the delivery; the socket that is attached
\* gets it once.
Deliver(c) ==
    /\ call[c] = "idle" /\ record # "none"
    /\ IF ender["close"] = "idle" /\ entry
       THEN /\ call' = [call EXCEPT ![c] = "waiting"]
            /\ delivery' = TRUE
            /\ IF esock # NoSocket /\ sentTo # esock
               THEN sentTo' = esock /\ Reply(esock, <<"credential">>, FALSE)
               ELSE UNCHANGED <<sentTo, down, sopen>>
       ELSE /\ call' = [call EXCEPT ![c] = "rejected"]
            /\ UNCHANGED <<delivery, sentTo, down, sopen>>
    /\ UNCHANGED <<entry, esock, attaching, acking, ackResult, ender, record,
                   up, copen, client>>

WaiterTimeout(c) ==
    /\ call[c] = "waiting"
    /\ call' = [call EXCEPT ![c] = "rejected"]
    /\ UNCHANGED <<entry, esock, attaching, delivery, sentTo, acking, ackResult,
                   ender, record, sockets, client>>

\* pairing.ack until acknowledgeDelivery answers.
RecvAck(s) ==
    /\ sopen[s] /\ HeadIs(up, s, "ack") /\ Popped(s)
    /\ IF entry /\ delivery /\ esock = s /\ acking = NoSocket
       THEN acking' = s /\ UNCHANGED <<esock, sentTo, down, sopen>>
       ELSE RefuseAndDetach(s) /\ UNCHANGED acking
    /\ UNCHANGED <<entry, attaching, delivery, ackResult, ender, call, record,
                   copen, client>>

\* acknowledgeDelivery: the record becomes delivered, or the call fails.
RecordAck ==
    /\ acking # NoSocket /\ ackResult = "none"
    /\ \/ /\ record \in {"pending", "delivered"}
          /\ record' = "delivered" /\ ackResult' = "ok"
       \/ ackResult' = "failed" /\ UNCHANGED record
    /\ UNCHANGED <<entry, esock, attaching, delivery, sentTo, acking, ender,
                   call, sockets, client>>

\* Mutant: the calls are resolved whatever acknowledgeDelivery answered.
AckReturnsUnchecked ==
    LET s == acking
    IN  /\ ackResult # "none"
        /\ acking' = NoSocket /\ ackResult' = "none"
        /\ call' = CallsSettled("resolved")
        /\ RemoveEntry(TRUE)
        /\ Reply(s, <<"done">>, TRUE)
        /\ UNCHANGED <<attaching, ender, up, copen, client>>

\* acknowledge after its await.
AckReturns ==
    LET s == acking
    IN  /\ ackResult # "none"
        /\ acking' = NoSocket /\ ackResult' = "none"
        /\ IF ackResult = "ok"
           THEN /\ call' = CallsSettled("resolved")
                /\ RemoveEntry(TRUE)
                /\ Reply(s, <<"done">>, TRUE)
           ELSE /\ call' = CallsSettled("rejected")
                /\ RefuseAndDetach(s)
                /\ UNCHANGED <<entry, delivery, record>>
        /\ UNCHANGED <<attaching, ender, up, copen, client>>

\* pairing.error of the client: its storage has failed.
RecvError(s) ==
    /\ sopen[s] /\ HeadIs(up, s, "error") /\ Popped(s)
    /\ IF esock = s /\ delivery
       THEN /\ call' = CallsSettled("rejected")
            /\ UNCHANGED <<esock, sentTo, down, sopen>>
       ELSE RefuseAndDetach(s) /\ UNCHANGED call
    /\ UNCHANGED <<entry, attaching, delivery, acking, ackResult, ender, record,
                   copen, client>>

\* The close event of the socket.
RecvFin(s) ==
    /\ sopen[s] /\ HeadIs(up, s, "fin") /\ Popped(s)
    /\ Closed(s) /\ Detach(s)
    /\ UNCHANGED <<entry, attaching, delivery, acking, ackResult, ender, call,
                   record, down, copen, client>>

-----------------------------------------------------------------------------
(* Server: the ends of an entry. *)

\* The entry's calls fail, its socket is closed and the entry goes.
EndEntry ==
    /\ call' = CallsSettled("rejected")
    /\ Reply(esock, <<>>, TRUE)
    /\ RemoveEntry(FALSE)

\* #expire, by the timer or by a call that finds the deadline passed.
Expire ==
    /\ entry
    /\ EndEntry
    /\ UNCHANGED <<attaching, acking, ackResult, ender, up, copen, client>>

\* pairing.close: cancel awaits cancelPairingSession ...
RecvCancel(s) ==
    /\ sopen[s] /\ HeadIs(up, s, "cancel") /\ Popped(s)
    /\ IF entry /\ esock = s /\ ender["cancel"] = "idle"
       THEN /\ ender' = [ender EXCEPT !["cancel"] = "waiting"]
            /\ UNCHANGED <<esock, sentTo, down, sopen>>
       ELSE RefuseAndDetach(s) /\ UNCHANGED ender
    /\ UNCHANGED <<entry, attaching, delivery, acking, ackResult, call, record,
                   copen, client>>

\* close() of the coordinator, when the server stops, does the same.
Close ==
    /\ ender["close"] = "idle"
    /\ ender' = [ender EXCEPT !["close"] = IF entry THEN "waiting" ELSE "done"]
    /\ UNCHANGED <<entry, esock, attaching, delivery, sentTo, acking, ackResult,
                   call, record, sockets, client>>

\* ... and ends the entry it has read before, which may be gone by now.
Ended(e) ==
    /\ ender[e] = "waiting"
    /\ ender' = [ender EXCEPT ![e] = "done"]
    /\ EndEntry
    /\ UNCHANGED <<attaching, acking, ackResult, up, copen, client>>

-----------------------------------------------------------------------------
(* Client: sockets. *)

\* Nothing refers to s any more: it can stand for a new connection.
Unused(s) == /\ ~sopen[s] /\ ~copen[s]
             /\ s \notin attaching \cup storing \cup {esock, sentTo, acking}

\* start() and each attempt of the reconnect loop open a socket and send the
\* proof.
Connect(s) ==
    /\ csock = NoSocket /\ Unused(s)
    /\ \/ cpc = "idle" /\ cpc' = "starting" /\ UNCHANGED attempts
       \/ /\ cpc = "reconnecting" /\ attempts < MaxReconnects
          /\ attempts' = attempts + 1 /\ UNCHANGED cpc
    /\ csock' = s
    /\ sopen' = [sopen EXCEPT ![s] = TRUE]
    /\ copen' = [copen EXCEPT ![s] = TRUE]
    /\ up' = [up EXCEPT ![s] = <<"attach">>]
    /\ down' = [down EXCEPT ![s] = <<>>]
    /\ UNCHANGED <<server, record, cwait, storing, stored>>

Rejected == IF cwait = "waiting" THEN "rejected" ELSE cwait

\* Mutant: the loop ends without telling the caller.
GiveUpSilently ==
    /\ cpc = "reconnecting" /\ csock = NoSocket /\ attempts = MaxReconnects
    /\ cpc' = "failed"
    /\ UNCHANGED <<server, record, sockets, csock, cwait, storing, stored,
                   attempts>>

\* The reconnect loop has no attempt left.
GiveUp ==
    /\ cpc = "reconnecting" /\ csock = NoSocket /\ attempts = MaxReconnects
    /\ cpc' = "failed" /\ cwait' = Rejected
    /\ UNCHANGED <<server, record, sockets, csock, storing, stored, attempts>>

\* The network drops a socket: frames in flight are lost, both ends see it
\* close.
Drop(s) ==
    /\ sopen[s] \/ copen[s]
    /\ up' = [up EXCEPT ![s] = IF sopen[s] THEN <<"fin">> ELSE <<>>]
    /\ down' = [down EXCEPT ![s] = IF copen[s] THEN <<"fin">> ELSE <<>>]
    /\ UNCHANGED <<server, record, sopen, copen, client>>

\* close() of the client.
ClientClose ==
    /\ cpc # "closed"
    /\ cpc' = "closed" /\ csock' = NoSocket
    /\ cwait' = Rejected
    /\ ClientCloses(csock)
    /\ UNCHANGED <<server, record, down, sopen, storing, stored, attempts>>

\* A client may cancel the pairing it is attached to.
ClientCancel ==
    /\ cpc = "attached" /\ cwait = "waiting"
    /\ up' = Sent(up, copen, csock, <<"cancel">>)
    /\ cpc' = "failed" /\ cwait' = "rejected"
    /\ UNCHANGED <<server, record, down, sopen, copen, csock, storing, stored,
                   attempts>>

-----------------------------------------------------------------------------
(* Client: frames.  Listeners are removed from every socket but csock. *)

Listens(s) == s = csock /\ copen[s]
                /\ cpc \in {"starting", "attached", "reconnecting"}
Read(s, frame) ==
    /\ Listens(s) /\ HeadIs(down, s, frame)
    /\ down' = [down EXCEPT ![s] = Tail(@)]

RecvAttached(s) ==
    /\ Read(s, "attached")
    /\ cpc' = "attached"
    /\ UNCHANGED <<server, record, up, sopen, copen, csock, cwait, storing,
                   stored, attempts>>

\* The failure of handleMessage: waitForCredential rejects, the socket is
\* closed.  The first attach fails with it; the reconnect loop goes on.
ClientFails ==
    /\ cwait' = Rejected
    /\ cpc' = CASE cpc \in {"starting", "closed"} -> "closed"
                [] cpc = "reconnecting"           -> "reconnecting"
                [] OTHER                          -> "failed"
    /\ ClientCloses(csock)
    /\ csock' = NoSocket

\* Mutant: the acknowledgement is sent before the credential is stored.
RecvCredentialAcks(s) ==
    /\ Read(s, "credential")
    /\ storing' = storing \cup {s}
    /\ up' = Sent(up, copen, s, <<"ack">>)
    /\ cpc' = "completed" /\ cwait' = "resolved"
    /\ UNCHANGED <<server, record, sopen, copen, csock, stored, attempts>>

\* Storing the credential awaits the file system.
RecvCredential(s) ==
    /\ Read(s, "credential")
    /\ storing' = storing \cup {s}
    /\ UNCHANGED <<server, record, up, sopen, copen, cpc, csock, cwait, stored,
                   attempts>>

\* The credential is durable; it is acknowledged on the socket it came from
\* if that is still the attached one.
StoreSucceeds(s) ==
    /\ s \in storing
    /\ storing' = storing \ {s} /\ stored' = TRUE
    /\ IF csock = s /\ cpc = "attached" /\ copen[s]
       THEN /\ up' = Sent(up, copen, s, <<"ack">>)
            /\ cpc' = "completed"
            /\ cwait' = IF cwait = "waiting" THEN "resolved" ELSE cwait
       ELSE UNCHANGED <<up, cpc, cwait>>
    /\ UNCHANGED <<server, record, down, sopen, copen, csock, attempts>>

StoreFails(s) ==
    /\ s \in storing
    /\ storing' = storing \ {s}
    /\ cwait' = Rejected
    /\ csock' = NoSocket
    /\ cpc' = IF cpc = "attached" THEN "failed" ELSE cpc
    /\ copen' = IF csock = NoSocket THEN copen ELSE [copen EXCEPT ![csock] = FALSE]
    /\ up' = Sent(up, copen, csock,
                  IF csock = s THEN <<"error", "fin">> ELSE <<"fin">>)
    /\ UNCHANGED <<server, record, down, sopen, stored, attempts>>

RecvRefusal(s) ==
    /\ Read(s, "error")
    /\ ClientFails
    /\ UNCHANGED <<server, record, sopen, storing, stored, attempts>>

\* The close event of the client's socket: an attached client reconnects.
RecvClosed(s) ==
    /\ Read(s, "fin")
    /\ copen' = [copen EXCEPT ![s] = FALSE]
    /\ csock' = NoSocket
    /\ CASE cpc = "attached" ->
              cpc' = "reconnecting" /\ attempts' = 0 /\ UNCHANGED cwait
         [] cpc = "reconnecting" -> UNCHANGED <<cpc, cwait, attempts>>
         [] cpc = "starting" ->
              cpc' = "closed" /\ cwait' = Rejected /\ UNCHANGED attempts
    /\ UNCHANGED <<server, record, up, sopen, storing, stored>>

-----------------------------------------------------------------------------
ServerStep ==
    \/ \E s \in Sockets :
          \/ RecvAttach(s) \/ Attach(s) \/ AttachTimeout(s) \/ RecvAck(s)
          \/ RecvError(s) \/ RecvFin(s) \/ RecvCancel(s)
    \/ \E c \in Calls : Deliver(c) \/ WaiterTimeout(c)
    \/ IssueCompletion \/ RecordAck \/ AckReturns \/ Expire \/ Close
    \/ \E e \in Enders : Ended(e)

ClientStep ==
    \/ \E s \in Sockets :
          \/ Connect(s) \/ RecvAttached(s) \/ RecvCredential(s)
          \/ StoreSucceeds(s) \/ StoreFails(s) \/ RecvRefusal(s)
          \/ RecvClosed(s)
    \/ GiveUp \/ ClientClose \/ ClientCancel

Next == ServerStep \/ ClientStep \/ \E s \in Sockets : Drop(s)

Spec == Init /\ [][Next]_vars

\* Frames are read, awaits end, and timers fire.  Nothing forces an owner to
\* pair, the network to drop a socket or anyone to cancel or close.
Fairness ==
    /\ \A s \in Sockets :
          /\ WF_vars(RecvAttach(s)) /\ WF_vars(Attach(s)) /\ WF_vars(RecvAck(s))
          /\ WF_vars(RecvError(s)) /\ WF_vars(RecvFin(s))
          /\ WF_vars(RecvCancel(s)) /\ WF_vars(AttachTimeout(s))
          /\ WF_vars(RecvAttached(s)) /\ WF_vars(RecvCredential(s))
          /\ WF_vars(StoreSucceeds(s) \/ StoreFails(s))
          /\ WF_vars(RecvRefusal(s)) /\ WF_vars(RecvClosed(s))
    /\ WF_vars(RecordAck) /\ WF_vars(AckReturns) /\ WF_vars(Expire)
    /\ \A c \in Calls : WF_vars(WaiterTimeout(c))
    /\ \A e \in Enders : WF_vars(Ended(e))
    /\ WF_vars(\E s \in Sockets : Connect(s)) /\ WF_vars(GiveUp)

FairSpec == Spec /\ Fairness

-----------------------------------------------------------------------------
(* Properties. *)

Frames == {"attach", "ack", "error", "cancel", "fin", "attached", "credential",
           "done"}

TypeOK ==
    /\ entry \in BOOLEAN /\ delivery \in BOOLEAN
    /\ {esock, sentTo, acking, csock} \subseteq Sockets \cup {NoSocket}
    /\ attaching \subseteq Sockets /\ storing \subseteq Sockets
    /\ ackResult \in {"none", "ok", "failed"}
    /\ ender \in [Enders -> {"idle", "waiting", "done"}]
    /\ call \in [Calls -> {"idle", "waiting"} \cup Settled]
    /\ record \in {"none", "pending", "delivered"}
    /\ up \in [Sockets -> Seq(Frames)] /\ down \in [Sockets -> Seq(Frames)]
    /\ sopen \in [Sockets -> BOOLEAN] /\ copen \in [Sockets -> BOOLEAN]
    /\ cpc \in {"idle", "starting", "attached", "reconnecting", "completed",
                "failed", "closed"}
    /\ cwait \in {"waiting"} \cup Settled
    /\ stored \in BOOLEAN /\ attempts \in 0..MaxReconnects

\* A delivery is recorded only when the credential is safe on the local
\* machine, whatever sockets dropped while it was being stored.
DeliveredIsStored == record = "delivered" => stored

\* devices_pair reports success only for a pairing whose delivery is recorded.
PairedIsDelivered ==
    [][\A c \in Calls :
          call[c] = "waiting" /\ call'[c] = "resolved"
          => record = "delivered" /\ stored]_vars

\* An attached socket is never left waiting for a delivery that exists, in
\* whatever order the attach, its digest, the drop of an older socket and the
\* owner's call come.
PendingIsSent == esock # NoSocket /\ delivery => sentTo = esock

\* One socket at a time: another one attaches only after the first was
\* detached.
OneActiveSocket ==
    [][esock # NoSocket /\ esock' # esock => esock' = NoSocket]_vars

\* No call waits on an entry that is gone.
NoOrphanCalls == ~entry => \A c \in Calls : call[c] # "waiting"

\* The local client never waits for ever: it is paired, or its wait fails when
\* the channel expires and the bounded reconnects are used up.
ClientSettles == (cpc # "idle") ~> (cwait # "waiting")

\* Whatever carries an acknowledgement, its credential is stored: the frame on
\* its way and the acknowledgement that is being recorded.
HasAck(frames) == \E i \in DOMAIN frames : frames[i] = "ack"
AckIsStored ==
    /\ \A s \in Sockets : HasAck(up[s]) => stored
    /\ acking # NoSocket => stored

\* What acknowledgeDelivery answered still holds after its await, unless the
\* entry has been removed meanwhile.
AckIsRecorded ==
    /\ ackResult # "none" => acking # NoSocket
    /\ ackResult = "ok" /\ entry => record = "delivered"

\* One attach at most awaits its digest, and only while no socket is attached.
AttachIsAlone ==
    attaching # {} => esock = NoSocket /\ \E s \in Sockets : attaching = {s}

\* Both ends at every await: what is recorded as delivered is in the local file,
\* what is to be delivered has been sent to the socket attached now, no call
\* waits once the entry is removed, and what makes that inductive.
Inv ==
    /\ TypeOK
    /\ DeliveredIsStored
    /\ PendingIsSent
    /\ NoOrphanCalls
    /\ AckIsStored
    /\ AckIsRecorded
    /\ AttachIsAlone

(* What the documentation and the tests say and the code does not keep. *)

\* docs/pairing.md: delivered is terminal.
DeliveredIsKept == [][record = "delivered" => record' = "delivered"]_vars

\* The client re-attaches after a disconnect: as long as the session lives, one
\* failed attempt of the reconnect loop leaves the caller of waitForCredential
\* waiting for the next attempt.
ReconnectKeepsWaiting ==
    [][/\ entry /\ cpc = "reconnecting" /\ cpc' = "reconnecting"
       /\ storing' = storing
       => cwait' = cwait]_vars
=============================================================================
