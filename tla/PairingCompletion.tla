-------------------------- MODULE PairingCompletion --------------------------
(***************************************************************************)
(* The issue, recovery and acknowledgement of the first credential of one  *)
(* paired device: PairingCredentialCompletionService and its repository    *)
(* (pairing-credential-completion.ts), called through the server runtime   *)
(* (server-runtime.ts), which wraps the calls in the device's lifecycle    *)
(* lock.                                                                   *)
(*                                                                         *)
(* There are two stores: the completion record of the pairing session and  *)
(* the device's credential.  Both are durable (SQLite); a crash between    *)
(* two of their writes loses the raw secret, the cache and the lock.       *)
(* A step is the code between two awaits, or one access to a store.        *)
(*                                                                         *)
(* Credential ids are drawn from a counter; rotation of a credential to a  *)
(* given id raises the version by one, so the id determines the version.   *)
(* Evictions and drains inside the lock are DeviceSessions's subject.      *)
(***************************************************************************)
EXTENDS Integers, FiniteSets

CONSTANTS
    Calls,            \* calls of claimAndIssue, resumeClaimedPairing, ...
    NoCall,
    MaxRecoverySteps, \* MAX_RECOVERY_STEPS
    MaxCrashes,       \* bound: crashes of the server process
    MaxMutations      \* bound: explicit revocations and rotations

ASSUME NoCallIsNoCall == NoCall \notin Calls
ASSUME CallsAreNoResults ==
    Calls \cap {"none", "running", "failed", "resolved"} = {}
ASSUME BoundsAreNat ==
    /\ MaxRecoverySteps \in Nat \ {0, 1}
    /\ MaxCrashes \in Nat /\ MaxMutations \in Nat

VARIABLES
    \* durable
    session,    \* the pairing session's state
    active,     \* the device's active credential id, 0 when there is none
    rec,        \* the completion record
    reserved,   \* a reservation for the session is held
    lastId,     \* the last credential id drawn
    \* memory of the process
    cache,      \* the call whose promise completionBySessionId holds
    lock,       \* the call that holds the device's lifecycle lock
    \* calls
    kind, pc,
    locked,     \* the call runs inside the lifecycle lock
    seen,       \* the completion record the call has read last
    cred,       \* the credential id the call returns or acknowledges
    steps,      \* iterations of the recovery loop
    result,     \* how the call's completion promise settled
    \* bounds and history
    crashes, mutations,
    foreign,    \* an explicit revocation or rotation has been committed
    lost        \* completion metadata has expired, was forgotten or refused

store  == <<session, active, rec, reserved, lastId>>
memory == <<cache, lock>>
locals == <<kind, locked, seen, cred, steps, result>>
ghosts == <<crashes, mutations, foreign, lost>>
vars   == <<store, memory, pc, locals, ghosts>>

None == [state |-> "none", id |-> 0, target |-> 0]

Pending(id)            == [state |-> "pending", id |-> id, target |-> 0]
Delivered(id)          == [state |-> "delivered", id |-> id, target |-> 0]
Recovering(id, target) == [state |-> "recovering", id |-> id, target |-> target]

Records == [state : {"none", "pending", "delivered", "recovering"},
            id : Nat, target : Nat]

\* Calls that run the completion, and the phases in which their promise is
\* not settled.
Completing == {"claim", "resume"}
BodyPhases == {"snapshot", "reserve", "issue", "setPending", "readActive",
               "begin", "loop", "compare", "advance", "rotate", "finish",
               "confirm"}
Phases == {"idle", "admitted", "claimed", "queued", "enter", "await", "check",
           "ackRead", "ackActive", "ack", "forget", "ok", "failed"}
             \cup BodyPhases
Over(c) == pc[c] \in {"idle", "ok", "failed"}

-----------------------------------------------------------------------------
(* Helpers. *)

Go(c, phase) == pc' = [pc EXCEPT ![c] = phase]

\* The end of runCredentialLifecycleOperation: the lock is released.
Unlock(c) == lock' = IF lock = c THEN NoCall ELSE lock

\* Mutant: the lock is kept when the operation throws.
FinishKeepsLock(c, outcome) ==
    /\ Go(c, outcome)
    /\ IF outcome = "ok" THEN Unlock(c) ELSE UNCHANGED lock
    /\ result' = [result EXCEPT ![c] =
                    IF @ = "running" THEN "failed" ELSE @]
    /\ cache' = IF outcome = "failed" /\ cache = c /\ result[c] = "running"
                THEN NoCall ELSE cache

\* The call returns or throws.  A completion promise that rejects leaves the
\* cache, unless another promise has taken its place.
Finish(c, outcome) ==
    /\ Go(c, outcome)
    /\ Unlock(c)
    /\ result' = [result EXCEPT ![c] =
                    IF @ = "running" THEN "failed" ELSE @]
    /\ cache' = IF outcome = "failed" /\ cache = c /\ result[c] = "running"
                THEN NoCall ELSE cache

Fail(c) == Finish(c, "failed") /\ UNCHANGED <<kind, locked, seen, cred, steps>>

\* The completion promise of c resolves with the secret of id.
Resolve(c, id) ==
    /\ result' = [result EXCEPT ![c] = "resolved"]
    /\ cred' = [cred EXCEPT ![c] = id]
    /\ Go(c, IF locked[c] THEN "check" ELSE "ok")
    /\ UNCHANGED <<memory, kind, locked, seen, steps>>

\* reserve() and #store(): a session without record or reservation may be
\* refused when the repository is full of other sessions' records.
MayBeRefused == rec = None /\ ~reserved

-----------------------------------------------------------------------------
(* The writes of the completion repository: each is one transaction. *)

\* setPending: a new record takes the place of the reservation; a record is
\* not written over, but the same one may be asked for again.
PutPending(id) ==
    /\ rec \in {None, Pending(id)}
    /\ rec' = Pending(id) /\ reserved' = FALSE

\* beginRecovery: a pending record names the source itself, and a recovery
\* that has begun keeps its target.
PutRecovering(source, target) ==
    /\ rec.state # "delivered"
    /\ rec' = CASE rec.state = "none"    -> Recovering(source, target)
                [] rec.state = "pending" -> Recovering(rec.id, target)
                [] OTHER                 -> rec
    /\ reserved' = FALSE

\* advanceRecovery and finishRecovery: compare-and-swap on the record.
SwapRecord(c, new) == rec' = IF rec = seen[c] THEN new ELSE rec

\* acknowledge: pending becomes delivered, delivered stays.
PutDelivered(id) ==
    /\ rec \in {Pending(id), Delivered(id)}
    /\ rec' = Delivered(id)

-----------------------------------------------------------------------------
Init ==
    /\ session = "pending" /\ active = 0 /\ rec = None /\ reserved = FALSE
    /\ lastId = 0
    /\ cache = NoCall /\ lock = NoCall
    /\ kind = [c \in Calls |-> "none"]
    /\ pc = [c \in Calls |-> "idle"]
    /\ locked = [c \in Calls |-> FALSE]
    /\ seen = [c \in Calls |-> None]
    /\ cred = [c \in Calls |-> 0]
    /\ steps = [c \in Calls |-> 0]
    /\ result = [c \in Calls |-> "none"]
    /\ crashes = 0 /\ mutations = 0 /\ foreign = FALSE /\ lost = FALSE

-----------------------------------------------------------------------------
(* Starting a call. *)

Start(c, k, phase, id) ==
    /\ pc[c] = "idle"
    /\ kind' = [kind EXCEPT ![c] = k]
    /\ cred' = [cred EXCEPT ![c] = id]
    /\ Go(c, phase)
    /\ UNCHANGED <<store, memory, seen, steps, result, ghosts>>

\* claimAndIssue: the admission is reserved, or the call fails at once.
StartClaim(c) ==
    \E phase \in {"admitted", "failed"} :
        Start(c, "claim", phase, 0) /\ UNCHANGED locked

\* resumeClaimedPairing and acknowledgeDelivery: only when the session is
\* seen claimed does the call go through the lifecycle lock.
StartWrapped(c, k, unlockedPhase, id) ==
    /\ Start(c, k, IF session = "claimed" THEN "queued" ELSE unlockedPhase, id)
    /\ locked' = [locked EXCEPT ![c] = (session = "claimed")]

StartResume(c) == StartWrapped(c, "resume", "enter", 0)

\* The agent acknowledges a credential whose secret some call has returned.
Returned ==
    {cred[c] : c \in {d \in Calls : kind[d] \in Completing /\ pc[d] = "ok"}}

StartAck(c, id) == id \in Returned /\ StartWrapped(c, "ack", "ack", id)

\* forgetPendingCompletion: the cached promise goes at once, the record in a
\* step of its own unless a delivered record is to be preserved.
StartForget(c) ==
    /\ pc[c] = "idle"
    /\ kind' = [kind EXCEPT ![c] = "forget"]
    /\ \E phase \in {"forget", "ok"} : Go(c, phase)
    /\ cache' = NoCall
    /\ UNCHANGED <<store, lock, locked, seen, cred, steps, result, ghosts>>

ForgetRecord(c) ==
    /\ pc[c] = "forget"
    /\ rec' = None /\ reserved' = FALSE
    /\ lost' = (lost \/ rec # None \/ reserved)
    /\ Go(c, "ok")
    /\ UNCHANGED <<session, active, lastId, memory, locals, crashes, mutations,
                   foreign>>

-----------------------------------------------------------------------------
(* claimAndIssue before the lifecycle lock. *)

\* claimPairingCode commits the claim, or throws and the admission is deleted.
ClaimSession(c) ==
    /\ pc[c] = "admitted"
    /\ IF session = "pending"
       THEN session' = "claimed" /\ Go(c, "claimed")
       ELSE Go(c, "failed") /\ UNCHANGED session
    /\ UNCHANGED <<active, rec, reserved, lastId, memory, locals, ghosts>>

\* transferReservation fails when the session already has a record or a
\* reservation, or when the admission has expired.
TransferReservation(c) ==
    /\ pc[c] = "claimed"
    /\ \/ /\ rec = None /\ ~reserved
          /\ reserved' = TRUE
          /\ Go(c, "queued")
          /\ locked' = [locked EXCEPT ![c] = TRUE]
          /\ UNCHANGED lost
       \/ /\ Go(c, "failed")
          /\ lost' = (lost \/ MayBeRefused)
          /\ UNCHANGED <<reserved, locked>>
    /\ UNCHANGED <<session, active, rec, lastId, memory, kind, seen, cred,
                   steps, result, crashes, mutations, foreign>>

AcquireLock(c) ==
    /\ pc[c] = "queued" /\ lock = NoCall
    /\ lock' = c
    /\ Go(c, IF kind[c] = "ack" THEN "ackRead" ELSE "enter")
    /\ UNCHANGED <<store, cache, locals, ghosts>>

-----------------------------------------------------------------------------
(* PairingCredentialCompletionService.resumeClaimedPairing and #complete. *)

\* Mutant: the promise is not shared.
EnterAlone(c) ==
    /\ pc[c] = "enter"
    /\ \/ /\ session # "claimed" \/ rec.state = "delivered"
          /\ Fail(c)
       \/ /\ session = "claimed" /\ rec.state # "delivered"
          /\ cache' = c
          /\ result' = [result EXCEPT ![c] = "running"]
          /\ Go(c, "snapshot")
          /\ UNCHANGED <<lock, kind, locked, seen, cred, steps>>
    /\ UNCHANGED <<store, ghosts>>

\* The session and the record are read; then the cached promise is awaited
\* or this call's own promise is put into the cache.
Enter(c) ==
    /\ pc[c] = "enter"
    /\ \/ /\ session # "claimed" \/ rec.state = "delivered"
          /\ Fail(c)
       \/ /\ session = "claimed" /\ rec.state # "delivered" /\ cache = NoCall
          /\ cache' = c
          /\ result' = [result EXCEPT ![c] = "running"]
          /\ Go(c, "snapshot")
          /\ UNCHANGED <<lock, kind, locked, seen, cred, steps>>
       \/ /\ session = "claimed" /\ rec.state # "delivered" /\ cache # NoCall
          /\ seen' = [seen EXCEPT ![c] = None]
          /\ result' = [result EXCEPT ![c] = cache]
          /\ Go(c, "await")
          /\ UNCHANGED <<memory, kind, locked, cred, steps>>
    /\ UNCHANGED <<store, ghosts>>

\* The shared promise settles.
Await(c) ==
    /\ pc[c] = "await"
    /\ \/ /\ result[result[c]] = "failed"
          /\ Fail(c)
       \/ /\ result[result[c]] = "resolved"
          /\ Resolve(c, cred[result[c]])
    /\ UNCHANGED <<store, ghosts>>

\* Mutant: a record left by an earlier attempt is ignored.
SnapshotIgnoresRecord(c) ==
    /\ pc[c] = "snapshot"
    /\ IF rec.state = "delivered" THEN Fail(c)
       ELSE /\ seen' = [seen EXCEPT ![c] = rec]
            /\ Go(c, "reserve")
            /\ UNCHANGED <<memory, kind, locked, cred, steps, result>>
    /\ UNCHANGED <<store, ghosts>>

\* #complete reads the record again; an existing one is recovered.
Snapshot(c) ==
    /\ pc[c] = "snapshot"
    /\ IF rec.state = "delivered" THEN Fail(c)
       ELSE /\ seen' = [seen EXCEPT ![c] = rec]
            /\ Go(c, CASE rec.state = "none"       -> "reserve"
                       [] rec.state = "pending"    -> "begin"
                       [] rec.state = "recovering" -> "loop")
            /\ UNCHANGED <<memory, kind, locked, cred, steps, result>>
    /\ UNCHANGED <<store, ghosts>>

Reserve(c) ==
    /\ pc[c] = "reserve"
    /\ \/ /\ reserved' = (reserved \/ rec = None)
          /\ Go(c, "issue")
          /\ UNCHANGED <<memory, locals, lost>>
       \/ /\ MayBeRefused
          /\ lost' = TRUE
          /\ Fail(c) /\ UNCHANGED reserved
    /\ UNCHANGED <<session, active, rec, lastId, crashes, mutations, foreign>>

\* DeviceCredentialService.issue; CREDENTIAL_ALREADY_EXISTS leads to recovery.
Issue(c) ==
    /\ pc[c] = "issue"
    /\ IF active = 0
       THEN /\ lastId' = lastId + 1 /\ active' = lastId + 1
            /\ cred' = [cred EXCEPT ![c] = lastId + 1]
            /\ Go(c, "setPending")
       ELSE Go(c, "readActive") /\ UNCHANGED <<active, lastId, cred>>
    /\ UNCHANGED <<session, rec, reserved, memory, kind, locked, seen, steps,
                   result, ghosts>>

SetPending(c) ==
    /\ pc[c] = "setPending"
    /\ \/ PutPending(cred[c]) /\ Resolve(c, cred[c]) /\ UNCHANGED lost
       \/ /\ rec \notin {None, Pending(cred[c])} \/ MayBeRefused
          /\ Fail(c)
          /\ lost' = (lost \/ MayBeRefused)
          /\ UNCHANGED <<rec, reserved>>
    /\ UNCHANGED <<session, active, lastId, crashes, mutations, foreign>>

-----------------------------------------------------------------------------
(* PairingCredentialCompletionService.#recover. *)

\* No record to recover from: the active credential is the source.
ReadActive(c) ==
    /\ pc[c] = "readActive"
    /\ IF active = 0 THEN Fail(c)
       ELSE /\ seen' = [seen EXCEPT ![c] = Pending(active)]
            /\ Go(c, "begin")
            /\ UNCHANGED <<memory, kind, locked, cred, steps, result>>
    /\ UNCHANGED <<store, ghosts>>

\* The source and a fresh target are made durable before the credential is
\* touched.
BeginRecovery(c) ==
    /\ pc[c] = "begin"
    /\ lastId' = lastId + 1
    /\ \/ /\ PutRecovering(seen[c].id, lastId + 1)
          /\ Go(c, "loop") /\ UNCHANGED <<memory, locals, lost>>
       \/ /\ rec.state = "delivered" \/ MayBeRefused
          /\ Fail(c)
          /\ lost' = (lost \/ MayBeRefused)
          /\ UNCHANGED <<rec, reserved>>
    /\ UNCHANGED <<session, active, crashes, mutations, foreign>>

\* One iteration of the recovery loop starts with the record ...
Loop(c) ==
    /\ pc[c] = "loop"
    /\ IF steps[c] = MaxRecoverySteps \/ rec.state # "recovering" THEN Fail(c)
       ELSE /\ seen' = [seen EXCEPT ![c] = rec]
            /\ Go(c, "compare")
            /\ UNCHANGED <<memory, kind, locked, cred, steps, result>>
    /\ UNCHANGED <<store, ghosts>>

\* Mutant: an active credential that is the reserved target is not taken for
\* the commit of a recovery that crashed.
CompareWithoutTarget(c) ==
    /\ pc[c] = "compare"
    /\ IF active = seen[c].id
       THEN Go(c, "rotate") /\ UNCHANGED <<memory, locals>>
       ELSE Fail(c)
    /\ UNCHANGED <<store, ghosts>>

\* ... and the active credential.  Only the source, or the target reserved
\* before an earlier rotation, is recovered from.
Compare(c) ==
    /\ pc[c] = "compare"
    /\ CASE active # 0 /\ active = seen[c].id ->
              Go(c, "rotate") /\ UNCHANGED <<memory, locals>>
         [] active # 0 /\ active = seen[c].target ->
              Go(c, "advance") /\ UNCHANGED <<memory, locals>>
         [] OTHER -> Fail(c)
    /\ UNCHANGED <<store, ghosts>>

Continue(c) ==
    /\ steps' = [steps EXCEPT ![c] = @ + 1]
    /\ Go(c, "loop")
    /\ UNCHANGED <<memory, kind, locked, seen, cred, result>>

\* The target becomes the source of the next iteration, whoever advanced it.
AdvanceRecovery(c) ==
    /\ pc[c] = "advance"
    /\ lastId' = lastId + 1
    /\ SwapRecord(c, Recovering(seen[c].target, lastId + 1))
    /\ Continue(c)
    /\ UNCHANGED <<session, active, reserved, ghosts>>

\* rotateExpectedWithCredentialId: compare-and-swap on the credential.
Rotate(c) ==
    /\ pc[c] = "rotate"
    /\ IF active = seen[c].id
       THEN /\ active' = seen[c].target
            /\ cred' = [cred EXCEPT ![c] = seen[c].target]
            /\ Go(c, "finish")
            /\ UNCHANGED <<memory, kind, locked, seen, steps, result>>
       ELSE Continue(c) /\ UNCHANGED active
    /\ UNCHANGED <<session, rec, reserved, lastId, ghosts>>

FinishRecovery(c) ==
    /\ pc[c] = "finish"
    /\ SwapRecord(c, Pending(cred[c]))
    /\ IF rec = seen[c]
       THEN Go(c, "confirm") /\ UNCHANGED <<memory, locals>>
       ELSE Continue(c)
    /\ UNCHANGED <<session, active, reserved, lastId, ghosts>>

Confirm(c) ==
    /\ pc[c] = "confirm"
    /\ IF active = cred[c] THEN Resolve(c, cred[c]) ELSE Fail(c)
    /\ UNCHANGED <<store, ghosts>>

\* requireCompletionStillActive, and the end of the lifecycle operation.
Check(c) ==
    /\ pc[c] = "check"
    /\ Finish(c, IF active = cred[c] THEN "ok" ELSE "failed")
    /\ UNCHANGED <<store, kind, locked, seen, cred, steps, ghosts>>

-----------------------------------------------------------------------------
(* acknowledgeDelivery. *)

\* The runtime reads the record inside the lock ...
AckRead(c) ==
    /\ pc[c] = "ackRead"
    /\ Go(c, IF rec = Pending(cred[c]) THEN "ackActive" ELSE "ack")
    /\ UNCHANGED <<store, memory, locals, ghosts>>

\* Mutant: the active credential is not compared.
AckActiveSkipped(c) ==
    /\ pc[c] = "ackActive"
    /\ Go(c, "ack")
    /\ UNCHANGED <<store, memory, locals, ghosts>>

\* ... and a pending one must be of the active credential.
AckActive(c) ==
    /\ pc[c] = "ackActive"
    /\ IF active = cred[c] THEN Go(c, "ack") /\ UNCHANGED <<memory, locals>>
                           ELSE Fail(c)
    /\ UNCHANGED <<store, ghosts>>

\* The service: the session must be claimed; the cached promise goes.
Acknowledge(c) ==
    /\ pc[c] = "ack"
    /\ \/ /\ session = "claimed" /\ PutDelivered(cred[c])
          /\ cache' = NoCall
          /\ Unlock(c) /\ Go(c, "ok")
          /\ UNCHANGED locals
       \/ /\ \/ session # "claimed"
             \/ rec \notin {Pending(cred[c]), Delivered(cred[c])}
          /\ Fail(c) /\ UNCHANGED rec
    /\ UNCHANGED <<session, active, reserved, lastId, ghosts>>

-----------------------------------------------------------------------------
(* Time, other operations on the device, and crashes. *)

\* The session is cancelled or expires, or its retention ends.
SessionGone ==
    /\ session # "gone"
    /\ session' = "gone"
    /\ UNCHANGED <<active, rec, reserved, lastId, memory, pc, locals, ghosts>>

\* The retention of the record or of the reservation ends (5 minutes, while
\* a claimed session is kept for 10).
RecordExpires ==
    /\ rec # None \/ reserved
    /\ rec' = None /\ reserved' = FALSE
    /\ lost' = TRUE
    /\ UNCHANGED <<session, active, lastId, memory, pc, locals, crashes,
                   mutations, foreign>>

\* revokeDeviceCredential and rotateDeviceCredential of the runtime: they
\* hold the lifecycle lock from their snapshot's compare-and-swap to the end.
Mutate ==
    /\ mutations < MaxMutations /\ mutations' = mutations + 1
    /\ lock = NoCall /\ active # 0
    /\ \/ active' = 0 /\ UNCHANGED lastId
       \/ active' = lastId + 1 /\ lastId' = lastId + 1
    /\ foreign' = TRUE
    /\ UNCHANGED <<session, rec, reserved, memory, pc, locals, crashes, lost>>

\* The process dies and a new one opens the same stores.
Crash ==
    /\ crashes < MaxCrashes /\ crashes' = crashes + 1
    /\ cache' = NoCall /\ lock' = NoCall
    /\ pc' = [c \in Calls |-> IF Over(c) THEN pc[c] ELSE "failed"]
    /\ UNCHANGED <<store, locals, mutations, foreign, lost>>

-----------------------------------------------------------------------------
CompletionStep(c) ==
    \/ Enter(c) \/ Await(c) \/ Snapshot(c) \/ Reserve(c) \/ Issue(c)
    \/ SetPending(c) \/ ReadActive(c) \/ BeginRecovery(c) \/ Loop(c)
    \/ Compare(c) \/ AdvanceRecovery(c) \/ Rotate(c) \/ FinishRecovery(c)
    \/ Confirm(c) \/ Check(c)

CallStep(c) ==
    \/ ClaimSession(c) \/ TransferReservation(c) \/ AcquireLock(c)
    \/ CompletionStep(c)
    \/ AckRead(c) \/ AckActive(c) \/ Acknowledge(c) \/ ForgetRecord(c)

Next ==
    \/ \E c \in Calls :
          \/ StartClaim(c) \/ StartResume(c) \/ StartForget(c)
          \/ \E id \in Returned : StartAck(c, id)
          \/ CallStep(c)
    \/ SessionGone \/ RecordExpires \/ Mutate \/ Crash

Spec == Init /\ [][Next]_vars

-----------------------------------------------------------------------------
(* Properties. *)

\* A resume that saw the session before its claim runs outside the lock.
Stray == \E c \in Calls : kind[c] = "resume" /\ ~locked[c]

\* The lifecycle lock keeps completions of one session apart, and so does the
\* shared promise.  Both are missing when the promise of a stray resume is
\* forgotten meanwhile.
Unshared == Stray /\ \E c \in Calls : kind[c] = "forget"

TypeOK ==
    /\ session \in {"pending", "claimed", "gone"}
    /\ active \in Nat /\ lastId \in Nat
    /\ reserved \in BOOLEAN
    /\ cache \in Calls \cup {NoCall} /\ lock \in Calls \cup {NoCall}
    /\ kind \in [Calls -> Completing \cup {"ack", "forget", "none"}]
    /\ pc \in [Calls -> Phases]
    /\ locked \in [Calls -> BOOLEAN]
    /\ cred \in [Calls -> Nat]
    /\ steps \in [Calls -> 0..MaxRecoverySteps]
    /\ rec \in Records /\ seen \in [Calls -> Records]
    /\ result \in [Calls -> {"none", "running", "failed", "resolved"} \cup Calls]
    /\ crashes \in Nat /\ mutations \in Nat
    /\ foreign \in BOOLEAN /\ lost \in BOOLEAN

\* The record tells which credential the device has, at every point a crash
\* can strike, unless an explicit revocation or rotation came in between:
\* pending and delivered name the active credential, recovering names it as
\* the source or as the target.
RecordTracksActive ==
    ~foreign /\ ~Unshared =>
             CASE rec.state \in {"pending", "delivered"} -> active = rec.id
               [] rec.state = "recovering" -> active \in {rec.id, rec.target}
               [] OTHER -> TRUE

\* A delivery is recorded only while its credential is the active one: the
\* acknowledgement of a superseded or revoked credential is refused.
AcknowledgedIsActive ==
    [][rec.state = "pending" /\ rec'.state = "delivered" /\ ~Unshared
          => active = rec.id]_vars

\* As long as the record is kept, a completion never brings back a credential
\* that was revoked, and never replaces one it does not know: the device's
\* credential changes only from the record's source to the record's target,
\* or by the first issue.
RecoveryRespectsMutations ==
    [][/\ active' # active /\ mutations' = mutations
       /\ rec.state # "none" /\ ~Unshared
       => active = rec.id /\ active' = rec.target]_vars

\* A claimed pairing whose secret was lost can always be resumed: a resume
\* fails only when the credential was revoked or rotated by someone else,
\* when completion metadata is gone, after the delivery, or when the session
\* is not claimed, however often the server crashed before.
ResumeSucceeds ==
    [][\A c \in Calls :
          /\ kind[c] = "resume"
          /\ pc[c] \notin {"idle", "failed"} /\ pc'[c] = "failed"
          /\ crashes' = crashes
          => \/ foreign \/ lost' \/ Unshared
             \/ rec.state = "delivered" \/ session # "claimed"]_vars

\* Completions of one session are single flight: two calls never both run it,
\* whether the lock or the shared promise keeps them apart.
SingleFlight ==
    \A c, d \in Calls :
        /\ c # d /\ pc[c] \in BodyPhases /\ pc[d] \in BodyPhases
        => Unshared

\* No call waits for ever for the lifecycle lock or for a shared promise: while
\* calls are in flight one of them can go on, and each has finitely many steps,
\* so that every call that has started returns or throws.
NoCallIsStuck ==
    (\E c \in Calls : pc[c] # "idle" /\ ~Over(c))
        => \E c \in Calls : ENABLED CallStep(c)

-----------------------------------------------------------------------------
(* The inductive invariant behind the theorems of PairingCompletionProofs. *)

Runs(c)     == pc[c] \in BodyPhases
Forgotten   == \E c \in Calls : kind[c] = "forget"
StrayFlies  == \E c \in Calls : kind[c] = "resume" /\ ~locked[c] /\ ~Over(c)
ResolvedIds == {cred[c] : c \in {d \in Calls : result[d] = "resolved"}}
Resolved(c) == c # NoCall /\ result[c] = "resolved"

\* Records name ids that have been drawn, a recovery's target after its source.
IsRecord(r) ==
    /\ r \in Records /\ r.id <= lastId /\ r.target <= lastId
    /\ r.state = "none" => r = None
    /\ r.state # "none" => r.id # 0
    /\ r.state \in {"pending", "delivered"} => r.target = 0
    /\ r.state = "recovering" => r.id < r.target

\* What a phase says of the call's own locals, whatever the others do.
PhaseOf(c) ==
    /\ IsRecord(seen[c]) /\ cred[c] <= lastId
    /\ pc[c] = "idle" => kind[c] = "none"
    /\ pc[c] \in {"admitted", "claimed"} => kind[c] = "claim"
    /\ pc[c] \in {"enter", "await", "check"} \cup BodyPhases =>
          kind[c] \in Completing /\ (kind[c] = "claim" => locked[c])
    /\ pc[c] = "queued" => locked[c] /\ kind[c] \in Completing \cup {"ack"}
    /\ pc[c] \in {"ackRead", "ackActive", "ack"} => kind[c] = "ack"
    /\ pc[c] = "forget" => kind[c] = "forget"
    /\ pc[c] \in {"ackRead", "ackActive"} => locked[c]
    /\ pc[c] \in {"idle", "admitted", "claimed", "queued", "enter", "ackRead",
                  "ackActive", "ack", "forget"} => result[c] = "none"
    /\ pc[c] \in BodyPhases => result[c] = "running"
    /\ pc[c] = "await" => /\ result[c] \in Calls
                          /\ result[result[c]] \in {"running", "failed", "resolved"}
    /\ pc[c] = "check" => result[c] = "resolved" /\ locked[c]
    /\ pc[c] = "ok" /\ kind[c] \in Completing => result[c] = "resolved"
    /\ pc[c] = "setPending" => cred[c] # 0
    /\ pc[c] = "begin" => seen[c].state = "pending"
    /\ pc[c] \in {"compare", "advance", "rotate", "finish"} =>
          seen[c].state = "recovering" /\ steps[c] < MaxRecoverySteps
    /\ pc[c] = "finish" => cred[c] = seen[c].target
    /\ pc[c] \in Phases \ {"loop", "compare", "advance", "rotate", "finish",
                           "confirm", "check", "ok", "failed"} => steps[c] = 0

Phased ==
    /\ IsRecord(rec) /\ active <= lastId
    /\ \A c \in Calls : PhaseOf(c)

\* Who holds the lock, whose promise is shared, and what has to come first.
OwnerOf(c) ==
    /\ locked[c] /\ pc[c] \in {"enter", "await", "check", "ackRead", "ackActive",
                               "ack"} \cup BodyPhases => lock = c
    /\ pc[c] = "await" /\ result[result[c]] = "running" => Runs(result[c])
    /\ kind[c] = "ack" => cred[c] \in ResolvedIds
    /\ kind[c] = "ack" /\ ~locked[c] => session = "gone"

Owned ==
    /\ \A c \in Calls : OwnerOf(c)
    /\ cache # NoCall => \/ result[cache] = "running" /\ Runs(cache)
                         \/ result[cache] = "resolved"
    /\ session = "pending" => \A c \in Calls : result[c] = "none"

\* While a call runs #complete its promise is the shared one, nothing is
\* acknowledged, and no other call runs.
ShareOf(c) ==
    /\ pc[c] \in BodyPhases =>
          /\ rec.state # "delivered"
          /\ cache = c \/ (cache = NoCall /\ Forgotten)
    /\ ~Forgotten /\ pc[c] = "await" /\ locked[c] =>
          cache = result[c] \/ result[result[c]] = "failed"
    /\ ~Forgotten /\ pc[c] = "check" => Resolved(cache)

Shared ==
    ~Unshared =>
        /\ \A c \in Calls : ShareOf(c)
        /\ /\ ~Forgotten /\ StrayFlies /\ session = "claimed"
           /\ rec.state = "pending" /\ rec.id \in ResolvedIds
           => Resolved(cache)

\* What the record says while a call runs: only its retention can change it.
RecordOf(c) ==
    /\ pc[c] \in {"reserve", "issue", "setPending", "readActive"} => rec = None
    /\ pc[c] = "begin" => rec \in {None, Pending(seen[c].id)}
    /\ pc[c] = "loop" => rec.state \in {"none", "recovering"}
    /\ pc[c] \in {"compare", "advance", "rotate", "finish"} =>
          rec \in {None, seen[c]} /\ seen[c].target \notin ResolvedIds
    /\ pc[c] = "confirm" => rec \in {None, Pending(cred[c])}
    /\ pc[c] \in {"setPending", "confirm"} => cred[c] \notin ResolvedIds
    /\ pc[c] = "ack" /\ locked[c] /\ rec = Pending(cred[c]) => active = cred[c]
    /\ pc[c] = "loop" /\ ~lost => rec # None
    /\ pc[c] \in {"compare", "advance", "rotate", "finish"} /\ ~lost =>
          rec = seen[c]
    /\ result[c] = "failed" => foreign \/ lost

Recorded ==
    ~Unshared =>
        /\ rec.state = "recovering" => rec.target \notin ResolvedIds
        /\ \A c \in Calls : RecordOf(c)

\* What the active credential is while a call runs, as long as nobody else
\* changes it.
TrackOf(c) ==
    /\ pc[c] \in {"setPending", "finish", "confirm", "check"} => active = cred[c]
    /\ pc[c] = "readActive" => active # 0
    /\ pc[c] \in {"begin", "rotate"} => active = seen[c].id
    /\ pc[c] = "compare" => active \in {seen[c].id, seen[c].target}
    /\ pc[c] = "advance" => active = seen[c].target
    /\ pc[c] = "await" /\ locked[c] /\ result[result[c]] = "resolved" =>
          active = cred[result[c]]
    /\ ~lost /\ pc[c] \in {"loop", "compare", "advance"} =>
          \/ steps[c] = 0
          \/ /\ steps[c] = 1 /\ pc[c] # "advance"
             /\ active = IF pc[c] = "loop" THEN rec.id ELSE seen[c].id

Tracked ==
    ~foreign /\ ~Unshared =>
        /\ Resolved(cache) => active = cred[cache]
        /\ \A c \in Calls : TrackOf(c)

\* The two stores, the lock and the shared promise at every await and after
\* every crash: the record tells which credential is active, one call runs
\* #complete, and what makes that inductive.
Inv ==
    /\ TypeOK
    /\ Phased
    /\ Owned
    /\ Shared
    /\ Recorded
    /\ Tracked
    /\ RecordTracksActive
    /\ SingleFlight

(* What the documentation says and the code does not keep. *)

\* docs/pairing.md: a delivered pairing is never resumed to mint another
\* credential.
DeliveredIsTerminal ==
    [][\A c \in Calls :
          pc[c] = "rotate" /\ pc'[c] = "finish" /\ ~Stray
          => \A a \in Calls : ~(kind[a] = "ack" /\ pc[a] = "ok")]_vars

\* docs/security.md: after an explicit revoke, recovery fails closed and does
\* not issue again.
RevokedStaysRevoked ==
    [][foreign /\ active = 0 /\ ~Stray => active' = 0]_vars

\* docs/pairing.md: every resumption through the runtime runs under the
\* lifecycle lock and returns the secret of the active credential only.
ReturnedIsActive ==
    [][\A c \in Calls :
          pc[c] # "ok" /\ pc'[c] = "ok" /\ kind[c] \in Completing
          => active' = cred'[c]]_vars
=============================================================================
