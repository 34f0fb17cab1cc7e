--------------------------- MODULE PairingSessions ---------------------------
(***************************************************************************)
(* The life of pairing sessions in one server process, from POST           *)
(* /pairing/sessions to the claim: the public endpoint                     *)
(* (public-pairing-endpoint.ts), PairingService and the in-memory          *)
(* repository (pairing.ts), and the coordinator's table of channels        *)
(* (pairing-channel.ts), which must know every session that can still be   *)
(* claimed.  A claim is a call of devices_pair (public-mcp-endpoint.ts):   *)
(* it passes its owner's gate, and counts the owner's devices first.       *)
(*                                                                         *)
(* The repository's operations wait in turn for one lock; a claim keeps it *)
(* while the device is created.  Every caller but a claim has read the     *)
(* clock before it waits.                                                  *)
(***************************************************************************)
EXTENDS Integers, Sequences, FiniteSets

CONSTANTS
    Sessions, Codes, MaxSessions, TTL, Retention,   \* see PairingLedger
    Callers,        \* requests, claims, cancels and runs of the prune timer
    Owners,         \* the accounts that claim
    MaxDevices,     \* MAX_DEVICES_PER_OWNER
    MaxTombstones,  \* DEFAULT_PAIRING_EXPIRED_CODE_TOMBSTONES
    MaxAttempts,    \* PAIRING_CREATE_MAX_ATTEMPTS
    MaxChannels,    \* maxPendingSessions of the coordinator
    Delivery,       \* deliveryTimeoutMs of the coordinator
    MaxTime,        \* bound of the clock
    NoSession, NoCaller

ASSUME NothingIsNothing == NoSession \notin Sessions /\ NoCaller \notin Callers
\* The defaults: ten minutes against five.
ASSUME ClaimedOutlivesPending == Retention >= TTL
ASSUME DeviceLimitIsNat == MaxDevices \in Nat
ASSUME LimitsAreNat ==
    /\ {MaxTombstones, Retention, Delivery, MaxTime} \subseteq Nat
    /\ {TTL, MaxAttempts} \subseteq Nat \ {0}
\* A code is eight characters of a fixed alphabet.
ASSUME CodesAreFinite == IsFiniteSet(Codes)

VARIABLES
    clock,
    session, code, created, claimed, devices,   \* see PairingLedger
    index,      \* #sessionIdByDigest
    tombs,      \* #expiredCodeTombstoneOrder
    queue,      \* the callers that wait for the lock, its holder first
    task,       \* where a caller is, with its session, code, clock reading,
                \* attempts, owner and the caller before it at the gate
    tail,       \* #tails of the gate: the last caller of an owner
    owned,      \* the number of an owner's devices
    deadline,   \* of a session's channel entry, 0 when it has none
    answered    \* stored sessions whose code has been handed out

records == <<session, code, created, claimed, devices, index, tombs>>
channel == <<deadline, answered>>
gate    == <<tail, owned>>
vars    == <<clock, records, queue, task, gate, channel>>

Times  == 0..MaxTime
Stored == {i \in Sessions : session[i] # "none"}
Expires(i) == created[i] + TTL
SeqRange(s) == {s[n] : n \in 1..Len(s)}

Idle == [pc |-> "idle", id |-> NoSession, code |-> NoSession, at |-> 0,
         tries |-> 0, owner |-> NoCaller, prev |-> NoCaller]

Init ==
    /\ clock = 0
    /\ session = [i \in Sessions |-> "none"]
    /\ code \in [Sessions -> Codes]
    /\ created = [i \in Sessions |-> 0] /\ claimed = [i \in Sessions |-> 0]
    /\ devices = [c \in Codes |-> 0]
    /\ index = [c \in Codes |-> NoSession]
    /\ tombs = <<>> /\ queue = <<>>
    /\ task = [p \in Callers |-> Idle]
    /\ tail = [o \in Owners |-> NoCaller] /\ owned = [o \in Owners |-> 0]
    /\ deadline = [i \in Sessions |-> 0] /\ answered = {}

-----------------------------------------------------------------------------
(* The lock, #runExclusive. *)

At(p, pc)   == task[p].pc = pc
Goes(p, pc) == task' = [task EXCEPT ![p].pc = pc]
Ends(p)     == task' = [task EXCEPT ![p] = Idle]

Asks(p)  == queue' = Append(queue, p)
Holds(p) == queue # <<>> /\ Head(queue) = p
HandsOn  == queue' = Tail(queue)

-----------------------------------------------------------------------------
(* #pruneExpiredRecords *)

Ripe(i, at) ==
    /\ session[i] # "none"
    /\ IF session[i] = "claimed" THEN claimed[i] + Retention <= at
                                 ELSE Expires(i) <= at

Surviving(at) == [i \in Sessions |-> IF Ripe(i, at) THEN "none" ELSE session[i]]

RipeCodes(at) == {code[i] : i \in {j \in Sessions : Ripe(j, at)}}

\* Mutant: the digests of removed records stay in the index.
IndexKept(at) == index

IndexAfter(at) == [c \in Codes |-> IF c \in RipeCodes(at) THEN NoSession ELSE index[c]]

\* The orders in which the digests can be appended to the tombstones.
Orders(S) == {o \in [1..Cardinality(S) -> S] : SeqRange(o) = S}

\* The oldest tombstones go when there are too many.
Newest(s) == SubSeq(s, Len(s) - MaxTombstones + 1, Len(s))

ForgetRipe(at) ==
    /\ answered' = answered \ {i \in Sessions : Ripe(i, at)}
    /\ \E o \in Orders(RipeCodes(at)) :
          LET all == tombs \o o
          IN  tombs' = IF Len(all) > MaxTombstones THEN Newest(all) ELSE all

-----------------------------------------------------------------------------
(* POST /pairing/sessions: create and register. *)

\* The guard has let the request pass; the clock is read once for all attempts.
StartPairing(p) ==
    /\ At(p, "idle")
    /\ task' = [task EXCEPT ![p] = [@ EXCEPT !.pc = "generate", !.at = clock]]
    /\ UNCHANGED <<clock, records, queue, gate, channel>>

\* Identifiers are random and never drawn twice: in the model, not while
\* something refers to the session.  Codes are short and may collide.
Drawable(i) == /\ session[i] = "none" /\ deadline[i] = 0
               /\ \A q \in Callers : task[q].id # i

\* An attempt of createPairingSession, to the repository's lock.  A generator
\* may fail.
Generate(p) ==
    /\ At(p, "generate")
    /\ \/ /\ \E i \in {j \in Sessions : Drawable(j)}, c \in Codes :
                task' = [task EXCEPT ![p] =
                          [@ EXCEPT !.pc = "create", !.id = i, !.code = c]]
          /\ Asks(p)
       \/ Ends(p) /\ UNCHANGED queue
    /\ UNCHANGED <<clock, records, gate, channel>>

\* create.  A refused create has pruned all the same; a collision is tried
\* again, with another code.
RunCreate(p) ==
    LET t == task[p]
        stored == {i \in Sessions : Surviving(t.at)[i] # "none"}
        collides == \/ t.id \in stored
                    \/ IndexAfter(t.at)[t.code] # NoSession
                    \/ t.code \in SeqRange(tombs')
    IN  /\ At(p, "create") /\ Holds(p) /\ HandsOn
        /\ ForgetRipe(t.at)
        /\ IF ~collides /\ Cardinality(stored) < MaxSessions
           THEN /\ session' = [Surviving(t.at) EXCEPT ![t.id] = "pending"]
                /\ code' = [code EXCEPT ![t.id] = t.code]
                /\ created' = [created EXCEPT ![t.id] = t.at]
                /\ index' = [IndexAfter(t.at) EXCEPT ![t.code] = t.id]
                /\ Goes(p, "register")
           ELSE /\ session' = Surviving(t.at)
                /\ index' = IndexAfter(t.at)
                /\ UNCHANGED <<code, created>>
                /\ task' = [task EXCEPT ![p] =
                     IF collides /\ t.tries + 1 < MaxAttempts
                     THEN [t EXCEPT !.pc = "generate", !.tries = t.tries + 1]
                     ELSE Idle]
        /\ UNCHANGED <<clock, claimed, devices, deadline, gate>>

\* register of the coordinator, until the digest of the proof is computed.
Register(p) ==
    /\ At(p, "register")
    /\ Goes(p, IF clock < Expires(task[p].id) THEN "admit" ELSE "undo")
    /\ UNCHANGED <<clock, records, queue, gate, channel>>

\* The channel table is full or has the session, or the session is out of date.
Admissible(i) ==
    /\ clock < Expires(i) /\ deadline[i] = 0
    /\ Cardinality({j \in Sessions : deadline[j] # 0}) < MaxChannels

\* The session gets its channel and the local machine its code.
Admit(p) ==
    LET i == task[p].id
    IN  /\ At(p, "admit")
        /\ IF Admissible(i)
           THEN /\ deadline' = [deadline EXCEPT ![i] = Expires(i) + Delivery]
                /\ answered' = answered \cup {i}
                /\ Ends(p)
           ELSE Goes(p, "undo") /\ UNCHANGED channel
        /\ UNCHANGED <<clock, records, queue, gate>>

\* The endpoint cancels a session it could not register.
Undo(p) ==
    /\ At(p, "undo")
    /\ task' = [task EXCEPT ![p] = [@ EXCEPT !.pc = "cancelOnly", !.at = clock]]
    /\ Asks(p)
    /\ UNCHANGED <<clock, records, gate, channel>>

-----------------------------------------------------------------------------
(* devices_pair: the gate of OwnerPairingGate, the limit of devices and then *)
(* claimPairingCode.                                                         *)

\* A caller takes its place behind the last one of its owner.
StartClaim(p) ==
    /\ At(p, "idle")
    /\ \E o \in Owners :
          /\ task' = [task EXCEPT ![p] =
                        [@ EXCEPT !.pc = "gate", !.owner = o, !.prev = tail[o]]]
          /\ tail' = [tail EXCEPT ![o] = p]
    /\ UNCHANGED <<clock, records, queue, owned, channel>>

\* A mutant: whoever leaves the gate leaves it empty.
LeavesEmpty(p) ==
    /\ task' = [q \in Callers |->
                  IF q = p THEN Idle
                  ELSE IF task[q].prev = p THEN [task[q] EXCEPT !.prev = NoCaller]
                  ELSE task[q]]
    /\ tail' = [tail EXCEPT ![task[p].owner] = NoCaller]

\* The end of the call resolves what the next one waits for; the owner is
\* forgotten only when there is no next one.
Leaves(p) ==
    /\ task' = [q \in Callers |->
                  IF q = p THEN Idle
                  ELSE IF task[q].prev = p THEN [task[q] EXCEPT !.prev = NoCaller]
                  ELSE task[q]]
    /\ tail' = [tail EXCEPT ![task[p].owner] = IF @ = p THEN NoCaller ELSE @]

\* The owner's devices are counted.  The count, the reservation of room for
\* the completion record or the abuse guard refuse, or the claim asks for the
\* repository's lock.
CountDevices(p) ==
    /\ At(p, "gate") /\ task[p].prev = NoCaller
    /\ \/ /\ owned[task[p].owner] < MaxDevices
          /\ \E c \in Codes :
                task' = [task EXCEPT ![p] = [@ EXCEPT !.pc = "claim", !.code = c]]
          /\ Asks(p)
          /\ UNCHANGED tail
       \/ Leaves(p) /\ UNCHANGED queue
    /\ UNCHANGED <<clock, records, owned, channel>>

\* claim until the device is created: the clock is read with the lock held.
RunClaim(p) ==
    LET i == index[task[p].code]
        pending == i # NoSession /\ session[i] = "pending"
    IN  /\ At(p, "claim") /\ Holds(p)
        /\ IF pending /\ clock < Expires(i) /\ clock >= created[i]
           THEN /\ task' = [task EXCEPT ![p] =
                              [@ EXCEPT !.pc = "device", !.id = i, !.at = clock]]
                /\ UNCHANGED <<session, queue, tail>>
           ELSE /\ session' = IF pending /\ clock >= Expires(i)
                              THEN [session EXCEPT ![i] = "expired"] ELSE session
                /\ Leaves(p) /\ HandsOn
        /\ UNCHANGED <<clock, code, created, claimed, devices, index, tombs,
                       owned, channel>>

\* The device repository creates the device, or fails and the session stays
\* pending.
CreateDevice(p) ==
    LET t == task[p]
    IN  /\ At(p, "device") /\ HandsOn
        /\ \/ /\ devices' = [devices EXCEPT ![t.code] = @ + 1]
              /\ owned' = [owned EXCEPT ![t.owner] = @ + 1]
              /\ session' = [session EXCEPT ![t.id] = "claimed"]
              /\ claimed' = [claimed EXCEPT ![t.id] = t.at]
              /\ Goes(p, "issue")
              /\ UNCHANGED tail
           \/ /\ Leaves(p)
              /\ UNCHANGED <<devices, owned, session, claimed>>
        /\ UNCHANGED <<clock, code, created, index, tombs, channel>>

\* The credential is issued, or that fails (see PairingCompletion), still
\* inside the gate.
IssueCredential(p) ==
    /\ At(p, "issue")
    /\ Leaves(p)
    /\ UNCHANGED <<clock, records, queue, owned, channel>>

-----------------------------------------------------------------------------
(* Cancel, expire and prune. *)

\* Mutant: the channel goes before the session is cancelled.
StartCancelDetached(p) ==
    /\ At(p, "idle")
    /\ \E i \in Sessions :
          /\ deadline[i] # 0
          /\ task' = [task EXCEPT ![p] =
                        [@ EXCEPT !.pc = "cancel", !.id = i, !.at = clock]]
          /\ deadline' = [deadline EXCEPT ![i] = 0]
    /\ Asks(p)
    /\ UNCHANGED <<clock, records, answered, gate>>

\* cancel of the coordinator cancels the session first ...
StartCancel(p) ==
    /\ At(p, "idle")
    /\ \E i \in Sessions :
          /\ deadline[i] # 0
          /\ task' = [task EXCEPT ![p] =
                        [@ EXCEPT !.pc = "cancel", !.id = i, !.at = clock]]
    /\ Asks(p)
    /\ UNCHANGED <<clock, records, gate, channel>>

RunCancel(p) ==
    LET t == task[p]
    IN  /\ task[p].pc \in {"cancel", "cancelOnly"} /\ Holds(p) /\ HandsOn
        /\ session' =
             IF session[t.id] # "pending" \/ t.at < created[t.id] THEN session
             ELSE [session EXCEPT ![t.id] =
                     IF t.at >= Expires(t.id) THEN "expired" ELSE "cancelled"]
        /\ IF t.pc = "cancel" THEN Goes(p, "detach") ELSE Ends(p)
        /\ UNCHANGED <<clock, code, created, claimed, devices, index, tombs,
                       gate, channel>>

\* ... and removes the channel then.
Detach(p) ==
    /\ At(p, "detach")
    /\ deadline' = [deadline EXCEPT ![task[p].id] = 0]
    /\ Ends(p)
    /\ UNCHANGED <<clock, records, queue, answered, gate>>

\* #expire of the coordinator: the timer of an entry.
ExpireChannel(i) ==
    /\ deadline[i] # 0 /\ clock >= deadline[i]
    /\ deadline' = [deadline EXCEPT ![i] = 0]
    /\ UNCHANGED <<clock, records, queue, task, answered, gate>>

\* The prune timer of the runtime, and expirePairingSessions.
StartSweep(p) ==
    /\ At(p, "idle")
    /\ \E pc \in {"prune", "expire"} :
          task' = [task EXCEPT ![p] = [@ EXCEPT !.pc = pc, !.at = clock]]
    /\ Asks(p)
    /\ UNCHANGED <<clock, records, gate, channel>>

\* Mutant: pruning does not wait for the lock.
RunPruneUnlocked(p) ==
    LET at == task[p].at
    IN  /\ At(p, "prune")
        /\ queue' = SelectSeq(queue, LAMBDA q : q # p)
        /\ ForgetRipe(at)
        /\ session' = Surviving(at) /\ index' = IndexAfter(at)
        /\ Ends(p)
        /\ UNCHANGED <<clock, code, created, claimed, devices, deadline, gate>>

RunPrune(p) ==
    LET at == task[p].at
    IN  /\ At(p, "prune") /\ Holds(p) /\ HandsOn
        /\ ForgetRipe(at)
        /\ session' = Surviving(at) /\ index' = IndexAfter(at)
        /\ Ends(p)
        /\ UNCHANGED <<clock, code, created, claimed, devices, deadline, gate>>

RunExpire(p) ==
    LET at == task[p].at
    IN  /\ At(p, "expire") /\ Holds(p) /\ HandsOn
        /\ session' = [i \in Sessions |->
                          IF session[i] = "pending" /\ at >= Expires(i)
                          THEN "expired" ELSE session[i]]
        /\ Ends(p)
        /\ UNCHANGED <<clock, code, created, claimed, devices, index, tombs,
                       gate, channel>>

Tick ==
    /\ clock < MaxTime /\ clock' = clock + 1
    /\ UNCHANGED <<records, queue, task, gate, channel>>

-----------------------------------------------------------------------------
CallerStep(p) ==
    \/ Generate(p) \/ RunCreate(p) \/ Register(p) \/ Admit(p) \/ Undo(p)
    \/ CountDevices(p) \/ RunClaim(p) \/ CreateDevice(p) \/ IssueCredential(p)
    \/ RunCancel(p) \/ Detach(p)
    \/ RunPrune(p) \/ RunExpire(p)

Next ==
    \/ \E p \in Callers :
          \/ StartPairing(p) \/ StartClaim(p) \/ StartCancel(p) \/ StartSweep(p)
          \/ CallerStep(p)
    \/ \E i \in Sessions : ExpireChannel(i)
    \/ Tick

Spec == Init /\ [][Next]_vars

-----------------------------------------------------------------------------
(* Properties. *)

Tasks == [pc : {"idle", "generate", "create", "register", "admit", "undo",
               "cancelOnly", "gate", "claim", "device", "issue", "cancel",
               "detach", "prune", "expire"},
          id : Sessions \cup {NoSession}, code : Codes \cup {NoSession},
          at : Nat, tries : Nat,
          owner : Owners \cup {NoCaller}, prev : Callers \cup {NoCaller}]

TypeOK ==
    /\ clock \in Times
    /\ session \in [Sessions -> {"none", "pending", "claimed", "expired",
                                 "cancelled"}]
    /\ code \in [Sessions -> Codes] /\ devices \in [Codes -> Nat]
    /\ created \in [Sessions -> Times] /\ claimed \in [Sessions -> Times]
    /\ index \in [Codes -> Sessions \cup {NoSession}]
    /\ tombs \in Seq(Codes) /\ Len(tombs) <= MaxTombstones
    /\ queue \in Seq(Callers)
    /\ task \in [Callers -> Tasks] /\ \A p \in Callers : task[p].tries < MaxAttempts
    /\ tail \in [Owners -> Callers \cup {NoCaller}] /\ owned \in [Owners -> Nat]
    /\ deadline \in [Sessions -> 0..(MaxTime + TTL + Delivery)]
    /\ answered \subseteq Stored

\* The callers that wait for the lock or hold it, and those that refer to a session.
Waiting   == {"create", "claim", "device", "cancelOnly", "cancel", "prune", "expire"}
Referring == {"create", "register", "admit", "undo", "cancelOnly", "device",
              "cancel", "detach"}

\* The two maps of the repository agree after any order of creates, claims,
\* prunes and refusals.
IndexAgrees ==
    \A c \in Codes, i \in Sessions :
        index[c] = i <=> session[i] # "none" /\ code[i] = c

\* A code is not given out again while it is held: it has one tombstone, and none
\* beside a session that has the code.
TombsAreApart ==
    /\ \A m, n \in 1..Len(tombs) : tombs[m] = tombs[n] => m = n
    /\ \A i \in Stored : code[i] \notin SeqRange(tombs)

\* The record a claim has read before the device was created is still the
\* stored one, still pending, when it is written.
ClaimStillHolds ==
    \A p \in Callers : At(p, "device") =>
        /\ session[task[p].id] = "pending" /\ index[task[p].code] = task[p].id
        /\ Holds(p)

\* A session that can be claimed can be delivered: its code has been handed out
\* and it has a channel, or the request that made it is still to give it one or
\* to cancel it.  No failed request and no cancel leaves one without.
ClaimableHasChannel ==
    \A i \in Sessions : session[i] = "pending" /\ clock < Expires(i) =>
        \/ i \in answered /\ deadline[i] # 0
        \/ \E p \in Callers :
              /\ task[p].pc \in {"register", "admit", "undo", "cancelOnly"}
              /\ task[p].id = i

\* No owner has more devices than the limit, whatever devices_pair calls run
\* at once: between the count and the creation of the device, with several
\* awaits in between, no other call of the owner counts or creates.
WithinDeviceLimit == \A o \in Owners : owned[o] <= MaxDevices

\* The lock's queue holds exactly the callers that wait for it or hold it, each
\* once: no operation is lost from it and none waits twice.
QueueIsWaiting ==
    /\ \A p \in Callers : (\E n \in 1..Len(queue) : queue[n] = p)
                             <=> task[p].pc \in Waiting
    /\ \A m, n \in 1..Len(queue) : queue[m] = queue[n] => m = n

\* What an operation has drawn or read before it waits is still so when it goes
\* on: a drawn identifier is its own and refers to nothing, a session to be
\* delivered goes only when it is out of date, a cancelled one is not pending,
\* and the clock read before the wait does not precede the session.
TaskIsTrue(p) ==
    LET t == task[p]
    IN  /\ t.at <= clock
        /\ t.pc \in Referring => t.id \in Sessions
        /\ t.pc \in {"create", "claim", "device"} => t.code \in Codes
        /\ t.pc = "create" =>
              /\ session[t.id] = "none" /\ deadline[t.id] = 0
              /\ \A q \in Callers : task[q].id = t.id => q = p
        /\ t.pc \in {"register", "admit"} /\ session[t.id] = "none" =>
              Expires(t.id) <= clock
        /\ t.pc \in {"cancelOnly", "cancel", "device"} /\ session[t.id] # "none" =>
              created[t.id] <= t.at
        /\ t.pc = "device" => t.at < Expires(t.id)
        /\ t.pc = "detach" => session[t.id] # "pending"

TasksAreTrue == \A p \in Callers : TaskIsTrue(p)

\* The times of a stored session, and of its channel, are in order.
TimesAreOrdered ==
    \A i \in Stored :
        /\ created[i] <= clock
        /\ session[i] = "claimed" => created[i] <= claimed[i]
        /\ deadline[i] # 0 => Expires(i) <= deadline[i]

\* What the repository's methods rely on, at every await.
Inv ==
    /\ TypeOK /\ IndexAgrees /\ TombsAreApart /\ ClaimStillHolds
    /\ QueueIsWaiting /\ TasksAreTrue /\ TimesAreOrdered
=============================================================================
