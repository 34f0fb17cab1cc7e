----------------------- MODULE PairingCompletionProofs -----------------------
(***************************************************************************)
(* Proofs about PairingCompletion.  Inv is inductive; what an              *)
(* acknowledgement, a recovery and a resume may do follows from it.        *)
(***************************************************************************)
EXTENDS PairingCompletion, TLAPS

USE DEF store, memory, locals, ghosts

-----------------------------------------------------------------------------
(* What the invariant says of a call that runs #complete. *)

\* A phase of #complete is a phase.
LEMMA BodyPhasesArePhases == BodyPhases \subseteq Phases
BY DEF BodyPhases, Phases

\* Stray resumes and forgotten promises exclude each other.
LEMMA SharedOrLocked == ~Unshared <=> ~Stray \/ ~Forgotten
BY DEF Unshared, Forgotten

\* While one call runs, no other one runs, returns the shared secret, or has
\* the promise that is shared.
LEMMA Alone ==
    ASSUME Inv, ~Unshared, NEW c \in Calls, Runs(c), NEW d \in Calls
    PROVE  /\ Runs(d) => d = c
           /\ pc[d] # "check"
           /\ pc[d] = "await" /\ locked[d] => result[result[d]] # "resolved"
           /\ ~Resolved(cache)
           /\ cache \in {c, NoCall}
           /\ lock # c => ~Forgotten /\ cache = c
<1>1. Runs(d) => d = c
    BY DEF Inv, SingleFlight, Runs
<1>2. /\ cache = c \/ (cache = NoCall /\ Forgotten)
      /\ result[c] = "running"
    BY DEF Inv, Shared, ShareOf, Phased, PhaseOf, Runs
<1>3. ~Resolved(cache)
    BY <1>2 DEF Resolved
<1>4. lock # c => ~Forgotten /\ cache = c
  <2>1. lock # c => ~locked[c]
      BY DEF Inv, Owned, OwnerOf, Runs
  <2>2. ~locked[c] => kind[c] = "resume"
      BY DEF Inv, Phased, PhaseOf, Runs, Completing
  <2> QED BY <1>2, <2>1, <2>2, SharedOrLocked DEF Stray
<1>5. pc[d] # "check"
  <2> SUFFICES ASSUME pc[d] = "check" PROVE FALSE
      OBVIOUS
  <2>1. lock = d /\ d # c
      BY DEF Inv, Owned, OwnerOf, Phased, PhaseOf, Runs, BodyPhases
  <2> QED BY <1>3, <1>4, <2>1 DEF Inv, Shared, ShareOf
<1>6. pc[d] = "await" /\ locked[d] => result[result[d]] # "resolved"
  <2> SUFFICES ASSUME pc[d] = "await", locked[d], result[result[d]] = "resolved"
               PROVE  FALSE
      OBVIOUS
  <2>1. lock = d /\ d # c
      BY DEF Inv, Owned, OwnerOf, Phased, PhaseOf, Runs, BodyPhases
  <2>2. cache = result[d]
      BY <1>4, <2>1 DEF Inv, Shared, ShareOf
  <2> QED BY <1>2, <1>4, <2>1, <2>2
<1> QED BY <1>1, <1>2, <1>3, <1>4, <1>5, <1>6

\* A step that moves c alone and leaves what the calls share in memory.
OnlyMoves(c) ==
    \A d \in Calls \ {c} : /\ pc'[d] = pc[d] /\ seen'[d] = seen[d]
                           /\ cred'[d] = cred[d] /\ steps'[d] = steps[d]

Kept ==
    /\ UNCHANGED <<session, cache, lock, kind, locked, result, foreign>>
    /\ lastId' >= lastId /\ (lost => lost')

\* A step of #complete that settles nothing.  What it writes to the stores is
\* described by its record, active credential and phase.
LEMMA RunAdvances ==
    ASSUME Inv, NEW c \in Calls, Runs(c), TypeOK', Runs(c)',
           OnlyMoves(c), Kept,
           IsRecord(rec)', active' <= lastId', PhaseOf(c)',
           ~Unshared =>
              /\ rec'.state # "delivered"
              /\ rec'.state = "recovering" => rec'.target \notin ResolvedIds
              /\ rec'.state = "pending" /\ rec'.id \in ResolvedIds =>
                    rec' = rec /\ active' = active
              /\ RecordOf(c)',
           ~Unshared /\ ~foreign =>
              /\ TrackOf(c)'
              /\ rec'.state = "pending" => active' = rec'.id
              /\ rec'.state = "recovering" => active' \in {rec'.id, rec'.target}
    PROVE  Inv'
<1> USE DEF OnlyMoves, Kept
<1>1. result[c] = "running"
    BY DEF Inv, Phased, PhaseOf, Runs
<1>2. ResolvedIds' = ResolvedIds
    BY <1>1 DEF ResolvedIds
<1>3. (Unshared <=> Unshared') /\ (Forgotten <=> Forgotten')
    BY DEF Unshared, Stray, Forgotten
<1>4. \A d \in Calls : IsRecord(seen[d])' \/ d = c
  <2>1. lastId \in Nat /\ lastId' \in Nat
      BY DEF Inv, TypeOK
  <2> QED BY <2>1 DEF Inv, TypeOK, Phased, PhaseOf, IsRecord, Records
<1>5. Phased'
  <2>1. \A d \in Calls \ {c} : PhaseOf(d)'
    <3> SUFFICES ASSUME NEW d \in Calls \ {c} PROVE PhaseOf(d)'
        OBVIOUS
    <3>1. PhaseOf(d) /\ cred'[d] <= lastId'
        BY DEF Inv, Phased, PhaseOf, TypeOK
    <3> QED BY <1>4, <3>1 DEF PhaseOf
  <2> QED BY <2>1 DEF Phased
<1>6. Owned'
  <2>1. \A d \in Calls : Runs(d) => Runs(d)'
      BY DEF Runs
  <2>2. \A d \in Calls : OwnerOf(d)'
    <3> SUFFICES ASSUME NEW d \in Calls PROVE OwnerOf(d)'
        OBVIOUS
    <3>1. OwnerOf(d) /\ OwnerOf(c) /\ kind[c] # "ack"
        BY DEF Inv, Owned, Phased, PhaseOf, Runs, Completing
    <3>2. CASE d = c
        BY <1>1, <1>2, <3>1, <3>2 DEF OwnerOf, Runs, BodyPhases
    <3>3. CASE d # c
      <4>1. pc[d] = "await" => result[d] \in Calls
          BY DEF Inv, Phased, PhaseOf
      <4> QED BY <1>1, <1>2, <2>1, <3>1, <3>3, <4>1 DEF OwnerOf
    <3> QED BY <3>2, <3>3
  <2> QED BY <2>1, <2>2, BodyPhasesArePhases DEF Inv, Owned, TypeOK
<1>7. CASE Unshared
    BY <1>3, <1>5, <1>6, <1>7 DEF Inv, Shared, Recorded, Tracked,
       RecordTracksActive, SingleFlight
<1>8. CASE ~Unshared
  <2>1. \A d \in Calls \ {c} : ~Runs(d) /\ pc[d] # "check"
      BY <1>8, Alone
  <2>2. Shared'
    <3>1. \A d \in Calls : ShareOf(d) /\ (d # c => ShareOf(d)')
        BY <1>3, <1>8, <2>1 DEF Inv, Shared, ShareOf, Runs
    <3>2. ShareOf(c)'
        BY <1>3, <1>8, <3>1 DEF ShareOf, Runs, BodyPhases
    <3>3. StrayFlies' => StrayFlies
        BY DEF StrayFlies, Over, Runs, BodyPhases
    <3>4. Resolved(cache)' <=> Resolved(cache)
        BY DEF Resolved
    <3> QED BY <1>2, <1>3, <1>8, <3>1, <3>2, <3>3, <3>4 DEF Inv, Shared
  <2>3. Recorded'
    <3>1. ASSUME NEW d \in Calls \ {c} PROVE RecordOf(d)'
      <4>1. RecordOf(d) /\ (kind[d] = "ack" => cred[d] \in ResolvedIds)
          BY <1>8 DEF Inv, Recorded, Owned, OwnerOf
      <4>2. pc[d] = "ack" => kind[d] = "ack"
          BY DEF Inv, Phased, PhaseOf
      <4>3. rec' = Pending(cred[d]) => rec'.state = "pending" /\ rec'.id = cred[d]
          BY DEF Pending
      <4>4. pc'[d] = "ack" /\ locked'[d] /\ rec' = Pending(cred[d]) => active' = cred[d]
          BY <1>8, <4>1, <4>2, <4>3 DEF RecordOf
      <4> QED BY <2>1, <4>1, <4>4 DEF RecordOf, Runs, BodyPhases
    <3> QED BY <1>2, <1>3, <1>8, <3>1 DEF Recorded
  <2>4. Tracked'
    <3>1. ~foreign => \A d \in Calls \ {c} : TrackOf(d)'
      <4> SUFFICES ASSUME NEW d \in Calls \ {c} PROVE TrackOf(d)'
          OBVIOUS
      <4>1. pc[d] = "await" /\ locked[d] => result[result[d]] # "resolved"
          BY <1>8, Alone
      <4> QED BY <2>1, <4>1 DEF TrackOf, Runs, BodyPhases
    <3>2. ~Resolved(cache)'
        BY <1>8, Alone DEF Resolved
    <3> QED BY <1>3, <1>8, <3>1, <3>2 DEF Tracked
  <2>5. RecordTracksActive'
      BY <1>3, <1>8 DEF RecordTracksActive
  <2>6. SingleFlight'
      BY <2>1 DEF SingleFlight, Runs
  <2> QED BY <1>5, <1>6, <2>2, <2>3, <2>4, <2>5, <2>6 DEF Inv
<1> QED BY <1>7, <1>8

\* The completion fails: its promise rejects and is no longer shared.  It fails
\* only for a reason that lasts.
LEMMA RunFails ==
    ASSUME Inv, NEW c \in Calls, Runs(c), Fail(c),
           UNCHANGED <<session, active, rec, reserved, crashes, mutations, foreign>>,
           lastId' \in Nat, lastId' >= lastId, lost' \in BOOLEAN, lost => lost',
           ~Unshared => foreign \/ lost'
    PROVE  Inv'
<1>1. result[c] = "running" /\ pc[c] \in BodyPhases
    BY DEF Inv, Phased, PhaseOf, Runs
<1>2. /\ UNCHANGED <<kind, locked, seen, cred, steps>>
      /\ pc' = [pc EXCEPT ![c] = "failed"]
      /\ lock' = IF lock = c THEN NoCall ELSE lock
      /\ result' = [result EXCEPT ![c] = "failed"]
      /\ cache' = IF cache = c THEN NoCall ELSE cache
    BY <1>1 DEF Fail, Finish, Go, Unlock, Inv, TypeOK
<1>3. /\ pc'[c] = "failed" /\ result'[c] = "failed"
      /\ \A d \in Calls \ {c} : pc'[d] = pc[d] /\ result'[d] = result[d]
  <2>1. DOMAIN result = Calls
      BY DEF Inv, TypeOK
  <2> QED BY <1>2, <2>1 DEF Inv, TypeOK
<1>4. ResolvedIds' = ResolvedIds
    BY <1>1, <1>2, <1>3 DEF ResolvedIds
<1>5. (Unshared <=> Unshared') /\ (Forgotten <=> Forgotten')
    BY <1>2 DEF Unshared, Stray, Forgotten
<1>6. Runs(c)' = FALSE /\ \A d \in Calls \ {c} : Runs(d)' <=> Runs(d)
    BY <1>3 DEF Runs, BodyPhases
<1>7. TypeOK'
    BY <1>2 DEF Inv, TypeOK, Phases
<1>8. Phased'
  <2>1. IsRecord(rec)' /\ \A d \in Calls : IsRecord(seen[d])'
      BY <1>2 DEF Inv, TypeOK, Phased, PhaseOf, IsRecord, Records
  <2>2. ASSUME NEW d \in Calls PROVE PhaseOf(d)'
    <3>1. PhaseOf(d) /\ cred'[d] <= lastId'
        BY <1>2 DEF Inv, Phased, PhaseOf, TypeOK
    <3>2. CASE d = c
        BY <1>2, <1>3, <2>1, <3>1, <3>2 DEF PhaseOf, BodyPhases
    <3>3. CASE d # c
        BY <1>2, <1>3, <2>1, <3>1, <3>3 DEF PhaseOf
    <3> QED BY <3>2, <3>3
  <2> QED BY <1>2, <2>1, <2>2 DEF Inv, TypeOK, Phased
<1>9. Owned'
  <2>1. ASSUME NEW d \in Calls PROVE OwnerOf(d)'
    <3>1. /\ OwnerOf(d)
          /\ pc[d] = "await" => result[d] \in Calls
        BY DEF Inv, Owned, Phased, PhaseOf
    <3>2. CASE d = c
        BY <1>1, <1>2, <1>3, <1>4, <3>1, <3>2 DEF OwnerOf, BodyPhases
    <3>3. CASE d # c
        BY <1>2, <1>3, <1>4, <1>6, <3>1, <3>3 DEF OwnerOf
    <3> QED BY <3>2, <3>3
  <2>2. cache' # NoCall => \/ result'[cache'] = "running" /\ Runs(cache)'
                           \/ result'[cache'] = "resolved"
      BY <1>2, <1>3, <1>6 DEF Inv, TypeOK, Owned, Runs
  <2>3. session # "pending"
      BY <1>1 DEF Inv, Owned
  <2> QED BY <2>1, <2>2, <2>3 DEF Owned
<1>10. CASE Unshared
    BY <1>5, <1>7, <1>8, <1>9, <1>10 DEF Inv, Shared, Recorded, Tracked,
       RecordTracksActive, SingleFlight
<1>11. CASE ~Unshared
  <2>1. \A d \in Calls \ {c} : ~Runs(d) /\ pc[d] # "check"
      BY <1>11, Alone
  <2>2. ~Resolved(cache) /\ ~Resolved(cache)'
    <3>1. ~Resolved(cache)
        BY <1>11, Alone
    <3> QED BY <1>2, <1>3, <3>1 DEF Resolved, Inv, TypeOK
  <2>3. Shared'
    <3>1. ASSUME NEW d \in Calls PROVE ShareOf(d)'
      <4>1. ShareOf(d) /\ (pc[d] = "await" => result[d] \in Calls)
          BY <1>11 DEF Inv, Shared, Phased, PhaseOf
      <4>2. CASE d = c
          BY <1>3, <4>2 DEF ShareOf, BodyPhases
      <4>3. CASE d # c
          BY <1>2, <1>3, <1>5, <2>1, <4>1, <4>3 DEF ShareOf, Runs
      <4> QED BY <4>2, <4>3
    <3>2. StrayFlies' => StrayFlies
        BY <1>1, <1>2, <1>3 DEF StrayFlies, Over, BodyPhases
    <3> QED BY <1>4, <1>5, <1>11, <2>2, <3>1, <3>2 DEF Inv, Shared
  <2>4. Recorded'
    <3>1. ASSUME NEW d \in Calls PROVE RecordOf(d)'
      <4>1. RecordOf(d)
          BY <1>11 DEF Inv, Recorded
      <4> QED BY <1>2, <1>3, <1>4, <1>11, <2>1, <4>1
              DEF RecordOf, Runs, BodyPhases
    <3> QED BY <1>4, <1>5, <1>11, <3>1 DEF Inv, Recorded
  <2>5. Tracked'
    <3>1. ASSUME NEW d \in Calls, ~foreign PROVE TrackOf(d)'
      <4>1. /\ TrackOf(d)
            /\ pc[d] = "await" /\ locked[d] => result[result[d]] # "resolved"
            /\ pc[d] = "await" => result[d] \in Calls
          BY <1>11, <3>1, Alone DEF Inv, Tracked, Phased, PhaseOf
      <4> QED BY <1>2, <1>3, <2>1, <4>1 DEF TrackOf, Runs, BodyPhases
    <3> QED BY <1>5, <1>11, <2>2, <3>1 DEF Tracked
  <2>6. RecordTracksActive'
      BY <1>5, <1>11 DEF Inv, RecordTracksActive
  <2>7. SingleFlight'
      BY <1>6, <2>1 DEF SingleFlight, Runs
  <2> QED BY <1>7, <1>8, <1>9, <2>3, <2>4, <2>5, <2>6, <2>7 DEF Inv
<1> QED BY <1>10, <1>11

\* The completion promise resolves with the credential that the record names.
LEMMA RunResolves ==
    ASSUME Inv, NEW c \in Calls, Runs(c), Resolve(c, cred[c]),
           UNCHANGED <<session, active, lastId, crashes, mutations, foreign>>,
           reserved' \in BOOLEAN, lost' \in BOOLEAN, lost => lost', IsRecord(rec)',
           ~Unshared => /\ cred[c] \notin ResolvedIds
                        /\ rec' \in {None, Pending(cred[c])},
           ~Unshared /\ ~foreign => active = cred[c]
    PROVE  Inv'
<1>1. result[c] = "running" /\ pc[c] \in BodyPhases
    BY DEF Inv, Phased, PhaseOf, Runs
<1>2. /\ UNCHANGED <<cache, lock, kind, locked, seen, cred, steps>>
      /\ pc' = [pc EXCEPT ![c] = IF locked[c] THEN "check" ELSE "ok"]
      /\ result' = [result EXCEPT ![c] = "resolved"]
    BY <1>1 DEF Resolve, Go, Inv, TypeOK
<1>3. /\ pc'[c] \in {"check", "ok"} /\ result'[c] = "resolved"
      /\ pc'[c] = "check" => locked[c]
      /\ \A d \in Calls \ {c} : pc'[d] = pc[d] /\ result'[d] = result[d]
    BY <1>2 DEF Inv, TypeOK
<1>4. ResolvedIds' = ResolvedIds \cup {cred[c]}
    BY <1>2, <1>3 DEF ResolvedIds
<1>5. (Unshared <=> Unshared') /\ (Forgotten <=> Forgotten')
    BY <1>2 DEF Unshared, Stray, Forgotten
<1>6. Runs(c)' = FALSE /\ \A d \in Calls \ {c} : Runs(d)' <=> Runs(d)
    BY <1>3 DEF Runs, BodyPhases
<1>7. TypeOK'
    BY <1>2 DEF Inv, TypeOK, Phases, IsRecord
<1>8. Phased'
  <2>1. ASSUME NEW d \in Calls PROVE PhaseOf(d)'
    <3>1. PhaseOf(d) /\ IsRecord(seen[d])'
        BY <1>2 DEF Inv, Phased, PhaseOf, IsRecord
    <3>2. CASE d = c
        BY <1>1, <1>2, <1>3, <3>1, <3>2 DEF PhaseOf, BodyPhases
    <3>3. CASE d # c
        BY <1>2, <1>3, <3>1, <3>3 DEF PhaseOf
    <3> QED BY <3>2, <3>3
  <2> QED BY <1>2, <2>1 DEF Inv, Phased
<1>9. Owned'
  <2>1. ASSUME NEW d \in Calls PROVE OwnerOf(d)'
    <3>1. /\ OwnerOf(d)
          /\ pc[d] = "await" => result[d] \in Calls
        BY DEF Inv, Owned, Phased, PhaseOf
    <3>2. CASE d = c
        BY <1>1, <1>2, <1>3, <1>4, <3>1, <3>2 DEF OwnerOf, BodyPhases
    <3>3. CASE d # c
        BY <1>2, <1>3, <1>4, <1>6, <3>1, <3>3 DEF OwnerOf
    <3> QED BY <3>2, <3>3
  <2>2. cache' # NoCall => \/ result'[cache'] = "running" /\ Runs(cache)'
                           \/ result'[cache'] = "resolved"
      BY <1>2, <1>3, <1>6 DEF Inv, TypeOK, Owned, Runs
  <2>3. session # "pending"
      BY <1>1 DEF Inv, Owned
  <2> QED BY <2>1, <2>2, <2>3 DEF Owned
<1>10. CASE Unshared
    BY <1>5, <1>7, <1>8, <1>9, <1>10 DEF Inv, Shared, Recorded, Tracked,
       RecordTracksActive, SingleFlight
<1>11. CASE ~Unshared
  <2>1. \A d \in Calls \ {c} : ~Runs(d) /\ pc[d] # "check"
      BY <1>11, Alone
  <2>2. /\ cache \in {c, NoCall}
        /\ ~Forgotten => cache = c
        /\ Resolved(cache)' => cache = c
        /\ ~Forgotten => Resolved(cache)'
    <3>1. cache = c \/ (cache = NoCall /\ Forgotten)
        BY <1>11 DEF Inv, Shared, ShareOf, Runs
    <3> QED BY <1>2, <1>3, <3>1, NoCallIsNoCall DEF Resolved
  <2>3. Shared'
    <3>1. ASSUME NEW d \in Calls PROVE ShareOf(d)'
      <4>1. ShareOf(d) /\ (pc[d] = "await" => result[d] \in Calls)
          BY <1>11 DEF Inv, Shared, Phased, PhaseOf
      <4>2. CASE d = c
          BY <1>3, <1>5, <2>2, <4>2 DEF ShareOf, BodyPhases
      <4>3. CASE d # c
          BY <1>1, <1>2, <1>3, <1>5, <2>1, <4>1, <4>3 DEF ShareOf, Runs
      <4> QED BY <4>2, <4>3
    <3> QED BY <1>5, <2>2, <3>1 DEF Shared
  <2>4. Recorded'
    <3>1. ASSUME NEW d \in Calls PROVE RecordOf(d)'
      <4>1. RecordOf(d) /\ (pc[d] = "ack" => cred[d] \in ResolvedIds)
          BY <1>11 DEF Inv, Recorded, Phased, PhaseOf, Owned, OwnerOf
      <4>2. pc[d] = "ack" => rec' # Pending(cred[d])
          BY <1>11, <4>1 DEF Pending, None
      <4>3. CASE d = c
          BY <1>3, <4>3 DEF RecordOf
      <4>4. CASE d # c
          BY <1>2, <1>3, <2>1, <4>1, <4>2, <4>4 DEF RecordOf, Runs, BodyPhases
      <4> QED BY <4>3, <4>4
    <3>2. rec'.state # "recovering"
        BY <1>11 DEF Pending, None
    <3> QED BY <3>1, <3>2 DEF Recorded
  <2>5. Tracked'
    <3>1. ASSUME NEW d \in Calls, ~foreign PROVE TrackOf(d)'
      <4>1. /\ TrackOf(d)
            /\ pc[d] = "await" /\ locked[d] => result[result[d]] # "resolved"
            /\ pc[d] = "await" => result[d] \in Calls
          BY <1>11, <3>1, Alone DEF Inv, Tracked, Phased, PhaseOf
      <4> QED BY <1>2, <1>3, <1>11, <2>1, <3>1, <4>1 DEF TrackOf, Runs, BodyPhases
    <3> QED BY <1>2, <1>5, <1>11, <2>2, <3>1 DEF Tracked
  <2>6. RecordTracksActive'
      BY <1>5, <1>11 DEF RecordTracksActive, None, Pending
  <2>7. SingleFlight'
      BY <1>6, <2>1 DEF SingleFlight, Runs
  <2> QED BY <1>7, <1>8, <1>9, <2>3, <2>4, <2>5, <2>6, <2>7 DEF Inv
<1> QED BY <1>10, <1>11

\* What a call that runs knows, in one place.
LEMMA Running ==
    ASSUME Inv, NEW c \in Calls, Runs(c)
    PROVE  /\ result[c] = "running" /\ kind[c] \in Completing
           /\ PhaseOf(c) /\ IsRecord(rec) /\ IsRecord(seen[c]) /\ active <= lastId
           /\ session # "pending"
           /\ ~Unshared => /\ rec.state # "delivered" /\ RecordOf(c)
                           /\ rec.state = "recovering" => rec.target \notin ResolvedIds
           /\ ~Unshared /\ ~foreign =>
                 /\ TrackOf(c)
                 /\ rec.state = "pending" => active = rec.id
                 /\ rec.state = "recovering" => active \in {rec.id, rec.target}
BY DEF Inv, Phased, PhaseOf, Owned, Shared, ShareOf, Recorded, Tracked,
       RecordTracksActive, Runs

\* A record is what its state says.
LEMMA RecordValues ==
    ASSUME TypeOK, NEW r, IsRecord(r)
    PROVE  /\ r.id \in Nat /\ r.target \in Nat
           /\ r.state \in {"none", "pending", "delivered", "recovering"}
           /\ r.state = "none" <=> r = None
           /\ r.state = "pending" => r = Pending(r.id)
           /\ r.state = "delivered" => r = Delivered(r.id)
           /\ r.state = "recovering" => r = Recovering(r.id, r.target)
BY DEF IsRecord, Records, None, Pending, Delivered, Recovering

\* The record is read: an existing one is recovered.
LEMMA SnapshotPreserves ==
    ASSUME Inv, NEW c \in Calls, Snapshot(c)
    PROVE  Inv'
<1>1. Runs(c)
    BY DEF Snapshot, Runs, BodyPhases
<1>2. CASE rec.state = "delivered"
  <2>1. ~Unshared => FALSE
      BY <1>1, <1>2, Running
  <2> QED BY <1>1, <1>2, <2>1, RunFails DEF Snapshot, Inv, TypeOK
<1>3. CASE rec.state # "delivered"
  <2>1. /\ seen' = [seen EXCEPT ![c] = rec]
        /\ UNCHANGED <<store, memory, ghosts, kind, locked, cred, steps, result>>
        /\ pc' = [pc EXCEPT ![c] = CASE rec.state = "none"       -> "reserve"
                                     [] rec.state = "pending"    -> "begin"
                                     [] rec.state = "recovering" -> "loop"]
      BY <1>3 DEF Snapshot, Go
  <2>2. /\ seen'[c] = rec
        /\ \/ rec.state = "none" /\ pc'[c] = "reserve" /\ rec = None
           \/ rec.state = "pending" /\ pc'[c] = "begin" /\ rec = Pending(rec.id)
           \/ rec.state = "recovering" /\ pc'[c] = "loop" /\ rec # None
      BY <1>1, <1>3, <2>1, Running, RecordValues DEF Inv, TypeOK
  <2>3. TypeOK' /\ Runs(c)'
      BY <2>1, <2>2 DEF Inv, TypeOK, Phases, Runs, BodyPhases
  <2>4. PhaseOf(c)' /\ IsRecord(rec)' /\ active' <= lastId'
      BY <1>1, <2>1, <2>2, Running DEF PhaseOf, IsRecord, Snapshot, Phases, BodyPhases
  <2>5. ~Unshared => RecordOf(c)'
      BY <1>1, <2>1, <2>2, Running DEF RecordOf
  <2>6. ~Unshared /\ ~foreign => TrackOf(c)'
      BY <1>1, <2>1, <2>2, Running DEF TrackOf, PhaseOf, Snapshot, Phases,
         BodyPhases
  <2>7. OnlyMoves(c) /\ Kept /\ rec' = rec /\ active' = active
      BY <2>1 DEF OnlyMoves, Kept, Inv, TypeOK
  <2> QED BY <1>1, <2>3, <2>4, <2>5, <2>6, <2>7, Running, RunAdvances
<1> QED BY <1>2, <1>3

\* A reservation is made, or refused.
LEMMA ReservePreserves ==
    ASSUME Inv, NEW c \in Calls, Reserve(c)
    PROVE  Inv'
<1>1. Runs(c)
    BY DEF Reserve, Runs, BodyPhases
<1>2. CASE lost' = TRUE /\ Fail(c) /\ UNCHANGED reserved
    BY <1>1, <1>2, RunFails DEF Reserve, Inv, TypeOK
<1>3. CASE reserved' = (reserved \/ rec = None) /\ Go(c, "issue")
           /\ UNCHANGED <<memory, locals, lost>>
  <2>1. /\ UNCHANGED <<session, active, rec, lastId, memory, ghosts, locals>>
        /\ pc' = [pc EXCEPT ![c] = "issue"] /\ reserved' \in BOOLEAN
      BY <1>3 DEF Reserve, Go, Inv, TypeOK
  <2>2. pc[c] = "reserve" /\ pc'[c] = "issue"
      BY <2>1 DEF Reserve, Inv, TypeOK
  <2>3. TypeOK' /\ Runs(c)'
      BY <2>1, <2>2 DEF Inv, TypeOK, Phases, Runs, BodyPhases
  <2>4. PhaseOf(c)' /\ IsRecord(rec)' /\ active' <= lastId'
      BY <1>1, <2>1, <2>2, Running DEF PhaseOf, IsRecord, Phases, BodyPhases
  <2>5. ~Unshared => RecordOf(c)'
      BY <1>1, <2>1, <2>2, Running DEF RecordOf
  <2>6. ~Unshared /\ ~foreign => TrackOf(c)'
      BY <1>1, <2>1, <2>2, Running DEF TrackOf
  <2>7. OnlyMoves(c) /\ Kept /\ rec' = rec /\ active' = active
      BY <2>1 DEF OnlyMoves, Kept, Inv, TypeOK
  <2> QED BY <1>1, <2>3, <2>4, <2>5, <2>6, <2>7, Running, RunAdvances
<1> QED BY <1>2, <1>3 DEF Reserve

\* The first credential is issued, with an id nobody has seen.
LEMMA IssuePreserves ==
    ASSUME Inv, NEW c \in Calls, Issue(c)
    PROVE  Inv'
<1>1. Runs(c) /\ pc[c] = "issue"
    BY DEF Issue, Runs, BodyPhases
<1>2. CASE active = 0
  <2>1. /\ lastId' = lastId + 1 /\ active' = lastId + 1
        /\ cred' = [cred EXCEPT ![c] = lastId + 1]
        /\ pc' = [pc EXCEPT ![c] = "setPending"]
        /\ UNCHANGED <<session, rec, reserved, memory, kind, locked, seen, steps,
                       result, ghosts>>
      BY <1>2 DEF Issue, Go
  <2>2. /\ pc'[c] = "setPending" /\ cred'[c] = lastId + 1 /\ lastId \in Nat
        /\ cred'[c] \notin ResolvedIds /\ ResolvedIds' = ResolvedIds
    <3>1. pc'[c] = "setPending" /\ cred'[c] = lastId + 1 /\ lastId \in Nat
        BY <2>1 DEF Inv, TypeOK
    <3>2. \A d \in Calls : cred[d] \in Nat /\ cred[d] <= lastId
        BY DEF Inv, TypeOK, Phased, PhaseOf
    <3>3. result[c] = "running"
        BY <1>1, Running
    <3> QED BY <2>1, <3>1, <3>2, <3>3 DEF ResolvedIds
  <2>3. TypeOK' /\ Runs(c)'
      BY <2>1, <2>2 DEF Inv, TypeOK, Phases, Runs, BodyPhases
  <2>4. PhaseOf(c)' /\ IsRecord(rec)' /\ active' <= lastId'
    <3>1. IsRecord(rec)' /\ IsRecord(seen[c])'
        BY <1>1, <2>1, <2>2, Running DEF IsRecord, Inv, TypeOK, Records
    <3> QED BY <1>1, <2>1, <2>2, <3>1, Running DEF PhaseOf, Phases, BodyPhases
  <2>5. ~Unshared => RecordOf(c)'
      BY <1>1, <2>1, <2>2, Running DEF RecordOf
  <2>6. ~Unshared /\ ~foreign => TrackOf(c)'
      BY <1>1, <2>1, <2>2, Running DEF TrackOf
  <2>7. OnlyMoves(c) /\ Kept /\ rec' = rec /\ (~Unshared => rec = None)
      BY <1>1, <2>1, <2>2, Running DEF OnlyMoves, Kept, Inv, TypeOK, RecordOf
  <2> QED BY <1>1, <2>3, <2>4, <2>5, <2>6, <2>7, Running, RunAdvances DEF None
<1>3. CASE active # 0
  <2>1. /\ UNCHANGED <<store, memory, ghosts, locals>>
        /\ pc' = [pc EXCEPT ![c] = "readActive"]
      BY <1>3 DEF Issue, Go
  <2>2. pc'[c] = "readActive"
      BY <2>1 DEF Inv, TypeOK
  <2>3. TypeOK' /\ Runs(c)'
      BY <2>1, <2>2 DEF Inv, TypeOK, Phases, Runs, BodyPhases
  <2>4. PhaseOf(c)' /\ IsRecord(rec)' /\ active' <= lastId'
      BY <1>1, <2>1, <2>2, Running DEF PhaseOf, IsRecord, Phases, BodyPhases
  <2>5. ~Unshared => RecordOf(c)'
      BY <1>1, <2>1, <2>2, Running DEF RecordOf
  <2>6. ~Unshared /\ ~foreign => TrackOf(c)'
      BY <1>1, <1>3, <2>1, <2>2, Running DEF TrackOf
  <2>7. OnlyMoves(c) /\ Kept /\ rec' = rec /\ active' = active
      BY <2>1 DEF OnlyMoves, Kept, Inv, TypeOK
  <2> QED BY <1>1, <2>3, <2>4, <2>5, <2>6, <2>7, Running, RunAdvances
<1> QED BY <1>2, <1>3

\* The record is written for the issued credential.
LEMMA SetPendingPreserves ==
    ASSUME Inv, NEW c \in Calls, SetPending(c)
    PROVE  Inv'
<1>1. Runs(c) /\ pc[c] = "setPending"
    BY DEF SetPending, Runs, BodyPhases
<1>2. CASE PutPending(cred[c]) /\ Resolve(c, cred[c]) /\ UNCHANGED lost
  <2>1. cred[c] \in Nat /\ cred[c] # 0 /\ cred[c] <= lastId /\ lastId' = lastId
      BY <1>1, Running DEF PhaseOf, Inv, TypeOK, SetPending
  <2>2. IsRecord(rec)'
    <3>1. rec' = Pending(cred[c])
        BY <1>2 DEF PutPending
    <3>2. /\ Pending(cred[c]).state = "pending" /\ Pending(cred[c]).target = 0
          /\ Pending(cred[c]).id = cred[c] /\ Pending(cred[c]) \in Records
        BY <2>1 DEF Pending, Records
    <3>3. lastId \in Nat
        BY DEF Inv, TypeOK
    <3> QED BY <2>1, <3>1, <3>2, <3>3 DEF IsRecord
  <2> QED BY <1>1, <1>2, <2>2, Running, RunResolves
          DEF SetPending, PutPending, RecordOf, TrackOf, Inv, TypeOK
<1>3. CASE /\ rec \notin {None, Pending(cred[c])} \/ MayBeRefused
           /\ Fail(c)
           /\ lost' = (lost \/ MayBeRefused)
           /\ UNCHANGED <<rec, reserved>>
  <2>1. ~Unshared => rec = None
      BY <1>1, Running DEF RecordOf
  <2>2. lost' \in BOOLEAN /\ (lost => lost') /\ (~Unshared => lost')
      BY <1>3, <2>1
  <2> QED BY <1>1, <1>3, <2>2, RunFails DEF SetPending, Inv, TypeOK
<1> QED BY <1>2, <1>3 DEF SetPending

\* The active credential becomes the source of a recovery.
LEMMA ReadActivePreserves ==
    ASSUME Inv, NEW c \in Calls, ReadActive(c)
    PROVE  Inv'
<1>1. Runs(c) /\ pc[c] = "readActive"
    BY DEF ReadActive, Runs, BodyPhases
<1>2. CASE active = 0
  <2>1. ~Unshared => foreign
      BY <1>1, <1>2, Running DEF TrackOf
  <2> QED BY <1>1, <1>2, <2>1, RunFails DEF ReadActive, Inv, TypeOK
<1>3. CASE active # 0
  <2>1. /\ seen' = [seen EXCEPT ![c] = Pending(active)]
        /\ UNCHANGED <<store, memory, ghosts, kind, locked, cred, steps, result>>
        /\ pc' = [pc EXCEPT ![c] = "begin"]
      BY <1>3 DEF ReadActive, Go
  <2>2. seen'[c] = Pending(active) /\ pc'[c] = "begin"
      BY <2>1 DEF Inv, TypeOK
  <2>3. /\ Pending(active) \in Records /\ Pending(active).state = "pending"
        /\ Pending(active).id = active /\ Pending(active).target = 0
      BY DEF Pending, Records, Inv, TypeOK
  <2>4. TypeOK' /\ Runs(c)'
      BY <2>1, <2>2, <2>3 DEF Inv, TypeOK, Phases, Runs, BodyPhases
  <2>5. PhaseOf(c)' /\ IsRecord(rec)' /\ active' <= lastId'
    <3>1. IsRecord(rec)' /\ IsRecord(seen[c])' /\ active' <= lastId'
        BY <1>1, <1>3, <2>1, <2>2, <2>3, Running DEF IsRecord, Inv, TypeOK
    <3> QED BY <1>1, <2>1, <2>2, <2>3, <3>1, Running DEF PhaseOf, Phases, BodyPhases
  <2>6. ~Unshared => RecordOf(c)'
      BY <1>1, <2>1, <2>2, Running DEF RecordOf
  <2>7. ~Unshared /\ ~foreign => TrackOf(c)'
      BY <1>1, <2>1, <2>2, <2>3, Running DEF TrackOf
  <2>8. OnlyMoves(c) /\ Kept /\ rec' = rec /\ active' = active
      BY <2>1 DEF OnlyMoves, Kept, Inv, TypeOK
  <2> QED BY <1>1, <2>4, <2>5, <2>6, <2>7, <2>8, Running, RunAdvances
<1> QED BY <1>2, <1>3

\* A fresh id has been resolved by no call.
LEMMA FreshId ==
    ASSUME Inv
    PROVE  lastId \in Nat /\ lastId + 1 \notin ResolvedIds
<1>1. \A d \in Calls : cred[d] \in Nat /\ cred[d] <= lastId
    BY DEF Inv, TypeOK, Phased, PhaseOf
<1>2. lastId \in Nat
    BY DEF Inv, TypeOK
<1> QED BY <1>1, <1>2 DEF ResolvedIds

\* A record that is made of its fields.
LEMMA RecoveringFields ==
    ASSUME NEW s \in Nat, NEW t \in Nat
    PROVE  /\ Recovering(s, t) \in Records
           /\ Recovering(s, t).state = "recovering"
           /\ Recovering(s, t).id = s /\ Recovering(s, t).target = t
BY DEF Recovering, Records

\* The recovery's source and target become durable; nobody knows the target.
LEMMA BeginRecoveryPreserves ==
    ASSUME Inv, NEW c \in Calls, BeginRecovery(c)
    PROVE  Inv'
<1>1. Runs(c) /\ pc[c] = "begin" /\ lastId' = lastId + 1 /\ lastId \in Nat
    BY FreshId DEF BeginRecovery, Runs, BodyPhases
<1>2. CASE /\ PutRecovering(seen[c].id, lastId + 1)
           /\ Go(c, "loop") /\ UNCHANGED <<memory, locals, lost>>
  <2>1. /\ UNCHANGED <<session, active, memory, locals, ghosts>>
        /\ pc' = [pc EXCEPT ![c] = "loop"] /\ reserved' = FALSE
      BY <1>2 DEF BeginRecovery, PutRecovering, Go
  <2>2. pc'[c] = "loop" /\ seen[c].state = "pending"
      BY <1>1, <2>1, Running DEF Inv, TypeOK, PhaseOf
  <2>3. \E s, t \in Nat : /\ rec' = Recovering(s, t)
                          /\ s # 0 /\ s < t /\ t <= lastId + 1
                          /\ ~Unshared => s = seen[c].id /\ t = lastId + 1
    <3>1. /\ IsRecord(rec) /\ IsRecord(seen[c])
          /\ seen[c].id \in Nat /\ seen[c].id # 0 /\ seen[c].id <= lastId
        BY <1>1, <2>2, Running, RecordValues DEF IsRecord, Inv
    <3>2. /\ rec.id \in Nat /\ rec.target \in Nat
          /\ rec.state \in {"none", "pending", "recovering"}
          /\ rec.id <= lastId /\ rec.target <= lastId
          /\ rec.state # "none" => rec.id # 0
          /\ rec.state = "recovering" => rec = Recovering(rec.id, rec.target)
                                         /\ rec.id < rec.target
        BY <1>2, <3>1, RecordValues DEF IsRecord, Inv, PutRecovering
    <3>3. ~Unshared => /\ rec.state # "recovering"
                       /\ rec.state = "pending" => rec.id = seen[c].id
        BY <1>1, Running DEF RecordOf, None, Pending
    <3>4. CASE rec.state = "none"
        BY <1>1, <1>2, <3>1, <3>4 DEF PutRecovering
    <3>5. CASE rec.state = "pending"
        BY <1>1, <1>2, <3>1, <3>2, <3>3, <3>5 DEF PutRecovering
    <3>6. CASE rec.state = "recovering"
        BY <1>1, <1>2, <3>2, <3>3, <3>6 DEF PutRecovering
    <3> QED BY <3>2, <3>4, <3>5, <3>6
  <2>4. PICK s, t \in Nat : /\ rec' = Recovering(s, t)
                            /\ s # 0 /\ s < t /\ t <= lastId + 1
                            /\ ~Unshared => s = seen[c].id /\ t = lastId + 1
      BY <2>3
  <2>5. /\ rec' \in Records /\ rec'.state = "recovering"
        /\ rec'.id = s /\ rec'.target = t
      BY <2>4, RecoveringFields
  <2>6. TypeOK' /\ Runs(c)'
    <3>1. pc' \in [Calls -> Phases] /\ lastId' \in Nat
        BY <1>1, <2>1 DEF Inv, TypeOK, Phases, BodyPhases
    <3>2. TypeOK'
        BY <2>1, <2>5, <3>1 DEF Inv, TypeOK
    <3> QED BY <2>2, <3>2 DEF Runs, BodyPhases
  <2>7. PhaseOf(c)' /\ IsRecord(rec)' /\ active' <= lastId'
    <3>1. IsRecord(rec)'
        BY <1>1, <2>4, <2>5 DEF IsRecord
    <3>2. IsRecord(seen[c])' /\ active' <= lastId' /\ cred'[c] <= lastId'
        BY <1>1, <2>1, Running DEF IsRecord, Inv, TypeOK, Records, PhaseOf
    <3> QED BY <1>1, <2>1, <2>2, <3>1, <3>2, Running DEF PhaseOf, Phases, BodyPhases
  <2>8. ~Unshared => RecordOf(c)' /\ rec'.target \notin ResolvedIds
    <3>1. rec' # None
        BY <2>5 DEF None
    <3> QED BY <1>1, <2>1, <2>2, <2>4, <2>5, <3>1, Running, FreshId DEF RecordOf
  <2>9. ~Unshared /\ ~foreign => TrackOf(c)' /\ active' = rec'.id
      BY <1>1, <2>1, <2>2, <2>4, <2>5, Running
         DEF TrackOf, PhaseOf, Phases, BodyPhases
  <2>10. OnlyMoves(c) /\ Kept
      BY <1>1, <2>1 DEF OnlyMoves, Kept, Inv, TypeOK
  <2> QED BY <1>1, <2>5, <2>6, <2>7, <2>8, <2>9, <2>10, RunAdvances
<1>3. CASE /\ rec.state = "delivered" \/ MayBeRefused
           /\ Fail(c)
           /\ lost' = (lost \/ MayBeRefused)
           /\ UNCHANGED <<rec, reserved>>
  <2>1. ~Unshared => rec.state # "delivered"
      BY <1>1, Running
  <2>2. lost' \in BOOLEAN /\ (lost => lost') /\ (~Unshared => lost')
      BY <1>3, <2>1
  <2>3. lastId' \in Nat /\ lastId' >= lastId
      BY <1>1
  <2> QED BY <1>1, <1>3, <2>2, <2>3, RunFails DEF BeginRecovery, Inv, TypeOK
<1> QED BY <1>2, <1>3 DEF BeginRecovery

\* The loop reads the record it is to carry on.
LEMMA LoopPreserves ==
    ASSUME Inv, NEW c \in Calls, Loop(c)
    PROVE  Inv'
<1>1. Runs(c) /\ pc[c] = "loop"
    BY DEF Loop, Runs, BodyPhases
<1>2. CASE steps[c] = MaxRecoverySteps \/ rec.state # "recovering"
  <2>1. ~Unshared /\ ~lost => rec.state = "recovering"
      BY <1>1, Running, RecordValues DEF RecordOf, Inv
  <2>2. ~Unshared /\ ~foreign /\ ~lost => steps[c] \in {0, 1}
      BY <1>1, Running DEF TrackOf
  <2>3. ~Unshared => foreign \/ lost
      BY <1>2, <2>1, <2>2, BoundsAreNat
  <2> QED BY <1>1, <1>2, <2>3, RunFails DEF Loop, Inv, TypeOK
<1>3. CASE steps[c] # MaxRecoverySteps /\ rec.state = "recovering"
  <2>1. /\ seen' = [seen EXCEPT ![c] = rec]
        /\ UNCHANGED <<store, memory, ghosts, kind, locked, cred, steps, result>>
        /\ pc' = [pc EXCEPT ![c] = "compare"]
      BY <1>3 DEF Loop, Go
  <2>2. pc'[c] = "compare" /\ seen'[c] = rec
      BY <2>1 DEF Inv, TypeOK
  <2>3. TypeOK' /\ Runs(c)'
      BY <2>1, <2>2 DEF Inv, TypeOK, Phases, Runs, BodyPhases
  <2>4. PhaseOf(c)' /\ IsRecord(rec)' /\ active' <= lastId'
    <3>1. steps'[c] < MaxRecoverySteps
        BY <1>3, <2>1, BoundsAreNat DEF Inv, TypeOK
    <3>2. IsRecord(rec)' /\ IsRecord(seen[c])'
        BY <1>1, <2>1, <2>2, Running DEF IsRecord
    <3> QED BY <1>1, <1>3, <2>1, <2>2, <3>1, <3>2, Running
            DEF PhaseOf, Phases, BodyPhases
  <2>5. ~Unshared => RecordOf(c)'
      BY <1>1, <1>3, <2>1, <2>2, Running DEF RecordOf, ResolvedIds
  <2>6. ~Unshared /\ ~foreign => TrackOf(c)'
      BY <1>1, <1>3, <2>1, <2>2, Running DEF TrackOf
  <2>7. OnlyMoves(c) /\ Kept /\ rec' = rec /\ active' = active
      BY <2>1 DEF OnlyMoves, Kept, Inv, TypeOK
  <2> QED BY <1>1, <2>3, <2>4, <2>5, <2>6, <2>7, Running, RunAdvances
<1> QED BY <1>2, <1>3

\* The active credential is the source or the target, unless somebody else
\* changed it.
LEMMA ComparePreserves ==
    ASSUME Inv, NEW c \in Calls, Compare(c)
    PROVE  Inv'
<1>1. Runs(c) /\ pc[c] = "compare"
    BY DEF Compare, Runs, BodyPhases
<1>2. ASSUME NEW phase \in {"rotate", "advance"}, active # 0,
             phase = "rotate" => active = seen[c].id,
             phase = "advance" => active = seen[c].target /\ active # seen[c].id,
             Go(c, phase), UNCHANGED <<store, memory, locals, ghosts>>
      PROVE  Inv'
  <2>1. pc' = [pc EXCEPT ![c] = phase] /\ pc'[c] = phase
      BY <1>2 DEF Go, Inv, TypeOK
  <2>2. TypeOK' /\ Runs(c)'
      BY <1>2, <2>1 DEF Inv, TypeOK, Phases, Runs, BodyPhases
  <2>3. PhaseOf(c)' /\ IsRecord(rec)' /\ active' <= lastId'
    <3>1. IsRecord(rec)' /\ IsRecord(seen[c])'
        BY <1>1, <1>2, Running DEF IsRecord
    <3> QED BY <1>1, <1>2, <2>1, <3>1, Running DEF PhaseOf, Phases, BodyPhases
  <2>4. ~Unshared => RecordOf(c)'
      BY <1>1, <1>2, <2>1, Running DEF RecordOf, ResolvedIds
  <2>5. ~Unshared /\ ~foreign => TrackOf(c)'
      BY <1>1, <1>2, <2>1, Running DEF TrackOf
  <2>6. OnlyMoves(c) /\ Kept /\ rec' = rec /\ active' = active
      BY <1>2, <2>1 DEF OnlyMoves, Kept, Inv, TypeOK
  <2> QED BY <1>1, <2>2, <2>3, <2>4, <2>5, <2>6, Running, RunAdvances
<1>3. CASE active # 0 /\ active = seen[c].id
  <2>1. seen[c].id # seen[c].target
      BY <1>1, Running, RecordValues DEF IsRecord, PhaseOf, Inv
  <2> QED BY <1>2, <1>3, <2>1 DEF Compare
<1>4. CASE active # 0 /\ active = seen[c].target /\ active # seen[c].id
    BY <1>2, <1>4 DEF Compare
<1>5. CASE ~(active # 0 /\ active = seen[c].id) /\ ~(active # 0 /\ active = seen[c].target)
  <2>1. Fail(c) /\ UNCHANGED <<store, ghosts>>
      BY <1>5 DEF Compare
  <2>2. seen[c].id # 0 /\ seen[c].target # 0
      BY <1>1, Running, RecordValues DEF IsRecord, PhaseOf, Inv
  <2>3. ~Unshared => foreign
      BY <1>1, <1>5, <2>2, Running DEF TrackOf
  <2> QED BY <1>1, <2>1, <2>3, RunFails DEF Inv, TypeOK
<1> QED BY <1>3, <1>4, <1>5

\* The next iteration, after a credential or a record that was not the one the
\* recovery knew.
LEMMA ContinuePreserves ==
    ASSUME Inv, NEW c \in Calls, pc[c] \in {"rotate", "finish"}, Continue(c),
           UNCHANGED <<store, ghosts>>, ~Unshared => foreign \/ lost
    PROVE  Inv'
<1>1. Runs(c) /\ seen[c].state = "recovering" /\ steps[c] < MaxRecoverySteps
    BY DEF Runs, BodyPhases, Inv, Phased, PhaseOf
<1>2. /\ UNCHANGED <<store, memory, ghosts, kind, locked, cred, seen, result>>
      /\ pc' = [pc EXCEPT ![c] = "loop"]
      /\ steps' = [steps EXCEPT ![c] = steps[c] + 1]
    BY DEF Continue, Go
<1>3. pc'[c] = "loop" /\ steps'[c] = steps[c] + 1 /\ steps[c] \in Nat
    BY <1>2 DEF Inv, TypeOK
<1>4. TypeOK' /\ Runs(c)'
  <2>1. steps' \in [Calls -> 0..MaxRecoverySteps]
      BY <1>1, <1>2, <1>3, BoundsAreNat DEF Inv, TypeOK
  <2> QED BY <1>2, <1>3, <2>1 DEF Inv, TypeOK, Phases, Runs, BodyPhases
<1>5. PhaseOf(c)' /\ IsRecord(rec)' /\ active' <= lastId'
  <2>1. IsRecord(rec)' /\ IsRecord(seen[c])'
      BY <1>1, <1>2, Running DEF IsRecord
  <2> QED BY <1>1, <1>2, <1>3, <2>1, Running DEF PhaseOf, Phases, BodyPhases
<1>6. ~Unshared => RecordOf(c)'
    BY <1>1, <1>2, <1>3, Running DEF RecordOf, None
<1>7. ~Unshared /\ ~foreign => TrackOf(c)'
    BY <1>2, <1>3 DEF TrackOf
<1>8. OnlyMoves(c) /\ Kept /\ rec' = rec /\ active' = active
    BY <1>2 DEF OnlyMoves, Kept, Inv, TypeOK
<1> QED BY <1>1, <1>4, <1>5, <1>6, <1>7, <1>8, Running, RunAdvances

\* The target becomes the next source, under a target nobody knows.
LEMMA AdvanceRecoveryPreserves ==
    ASSUME Inv, NEW c \in Calls, AdvanceRecovery(c)
    PROVE  Inv'
<1>1. /\ Runs(c) /\ pc[c] = "advance" /\ lastId' = lastId + 1 /\ lastId \in Nat
      /\ seen[c].state = "recovering" /\ steps[c] < MaxRecoverySteps
    BY FreshId DEF AdvanceRecovery, Runs, BodyPhases, Inv, Phased, PhaseOf
<1>2. /\ UNCHANGED <<session, active, reserved, memory, ghosts, kind, locked,
                     cred, seen, result>>
      /\ pc' = [pc EXCEPT ![c] = "loop"]
      /\ steps' = [steps EXCEPT ![c] = steps[c] + 1]
      /\ rec' = IF rec = seen[c] THEN Recovering(seen[c].target, lastId + 1)
                                 ELSE rec
    BY <1>1 DEF AdvanceRecovery, Continue, Go, SwapRecord
<1>3. pc'[c] = "loop" /\ steps'[c] = steps[c] + 1 /\ steps[c] \in Nat
    BY <1>2 DEF Inv, TypeOK
<1>4. /\ seen[c].target \in Nat /\ seen[c].target # 0 /\ seen[c].target <= lastId
      /\ Recovering(seen[c].target, lastId + 1) \in Records
      /\ Recovering(seen[c].target, lastId + 1).state = "recovering"
      /\ Recovering(seen[c].target, lastId + 1).id = seen[c].target
      /\ Recovering(seen[c].target, lastId + 1).target = lastId + 1
  <2>1. /\ seen[c].target \in Nat /\ seen[c].id \in Nat
        /\ seen[c].id < seen[c].target /\ seen[c].target <= lastId
      BY <1>1, Running, RecordValues DEF IsRecord, Inv
  <2> QED BY <1>1, <2>1, RecoveringFields
<1>5. TypeOK' /\ Runs(c)'
  <2>1. steps' \in [Calls -> 0..MaxRecoverySteps]
      BY <1>1, <1>2, <1>3, BoundsAreNat DEF Inv, TypeOK
  <2>2. pc' \in [Calls -> Phases] /\ lastId' \in Nat /\ rec' \in Records
      BY <1>1, <1>2, <1>4 DEF Inv, TypeOK, Phases, BodyPhases
  <2>3. TypeOK'
      BY <1>2, <2>1, <2>2 DEF Inv, TypeOK
  <2> QED BY <1>3, <2>3 DEF Runs, BodyPhases
<1>6. PhaseOf(c)' /\ IsRecord(rec)' /\ active' <= lastId'
  <2>1. IsRecord(seen[c])' /\ active' <= lastId' /\ cred'[c] <= lastId'
      BY <1>1, <1>2, Running DEF IsRecord, Inv, TypeOK, Records, PhaseOf
  <2>2. IsRecord(rec)'
    <3>1. CASE rec = seen[c]
        BY <1>1, <1>2, <1>4, <3>1 DEF IsRecord
    <3>2. CASE rec # seen[c]
        BY <1>1, <1>2, <3>2, Running DEF IsRecord, Inv, TypeOK, Records
    <3> QED BY <3>1, <3>2
  <2> QED BY <1>1, <1>2, <1>3, <2>1, <2>2, Running DEF PhaseOf, Phases, BodyPhases
<1>7. ~Unshared => /\ rec'.state \in {"none", "recovering"}
                   /\ rec'.state = "recovering" =>
                         /\ rec'.id = seen[c].target /\ rec'.target = lastId + 1
                         /\ rec' # None
                   /\ rec'.state = "none" => lost
  <2>1. None.state = "none"
      BY DEF None
  <2>2. ~Unshared => rec \in {None, seen[c]} /\ (~lost => rec = seen[c])
      BY <1>1, Running DEF RecordOf
  <2> QED BY <1>1, <1>2, <1>4, <2>1, <2>2
<1>8. ~Unshared => RecordOf(c)'
    BY <1>1, <1>2, <1>3, <1>7, Running DEF RecordOf, None
<1>9. ~Unshared /\ ~foreign => TrackOf(c)' /\ active = seen[c].target
    BY <1>1, <1>2, <1>3, <1>7, Running DEF TrackOf
<1>10. OnlyMoves(c) /\ Kept
    BY <1>1, <1>2 DEF OnlyMoves, Kept, Inv, TypeOK
<1> QED BY <1>1, <1>2, <1>5, <1>6, <1>7, <1>8, <1>9, <1>10, FreshId, RunAdvances

\* The credential is rotated from the source to the target, or somebody else
\* has changed it.
LEMMA RotatePreserves ==
    ASSUME Inv, NEW c \in Calls, Rotate(c)
    PROVE  Inv'
<1>1. /\ Runs(c) /\ pc[c] = "rotate" /\ lastId \in Nat
      /\ seen[c].state = "recovering"
    BY FreshId DEF Rotate, Runs, BodyPhases, Inv, Phased, PhaseOf
<1>2. CASE active # seen[c].id
  <2>1. ~Unshared => foreign \/ lost
      BY <1>1, <1>2, Running DEF TrackOf
  <2> QED BY <1>1, <1>2, <2>1, ContinuePreserves DEF Rotate
<1>3. CASE active = seen[c].id
  <2>1. /\ active' = seen[c].target
        /\ cred' = [cred EXCEPT ![c] = seen[c].target]
        /\ pc' = [pc EXCEPT ![c] = "finish"]
        /\ UNCHANGED <<memory, kind, locked, seen, steps, result, session, rec,
                       reserved, lastId, ghosts>>
      BY <1>3 DEF Rotate, Go
  <2>2. pc'[c] = "finish" /\ cred'[c] = seen[c].target
      BY <2>1 DEF Inv, TypeOK
  <2>3. seen[c].target \in Nat /\ seen[c].target <= lastId
      BY <1>1, Running, RecordValues DEF IsRecord, Inv
  <2>4. TypeOK' /\ Runs(c)'
    <3>1. pc' \in [Calls -> Phases] /\ cred' \in [Calls -> Nat]
        BY <2>1, <2>3 DEF Inv, TypeOK, Phases, BodyPhases
    <3>2. TypeOK'
        BY <2>1, <2>3, <3>1 DEF Inv, TypeOK
    <3> QED BY <2>2, <3>2 DEF Runs, BodyPhases
  <2>5. PhaseOf(c)' /\ IsRecord(rec)' /\ active' <= lastId'
    <3>1. IsRecord(rec)' /\ IsRecord(seen[c])'
        BY <1>1, <2>1, Running DEF IsRecord
    <3> QED BY <1>1, <2>1, <2>2, <2>3, <3>1, Running DEF PhaseOf, Phases, BodyPhases
  <2>6. ~Unshared => RecordOf(c)' /\ rec \in {None, seen[c]}
      BY <1>1, <2>1, <2>2, Running DEF RecordOf, ResolvedIds
  <2>7. ~Unshared /\ ~foreign => TrackOf(c)'
      BY <1>1, <2>1, <2>2, Running DEF TrackOf
  <2>8. OnlyMoves(c) /\ Kept
      BY <2>1 DEF OnlyMoves, Kept, Inv, TypeOK
  <2>9. None.state = "none"
      BY DEF None
  <2> QED BY <1>1, <2>1, <2>4, <2>5, <2>6, <2>7, <2>8, <2>9, Running, RunAdvances
<1> QED BY <1>2, <1>3

\* The recovered credential becomes pending, or the record is gone.
LEMMA FinishRecoveryPreserves ==
    ASSUME Inv, NEW c \in Calls, FinishRecovery(c)
    PROVE  Inv'
<1>1. /\ Runs(c) /\ pc[c] = "finish" /\ lastId \in Nat
      /\ seen[c].state = "recovering" /\ cred[c] = seen[c].target
    BY FreshId DEF FinishRecovery, Runs, BodyPhases, Inv, Phased, PhaseOf
<1>2. CASE rec # seen[c]
  <2>1. ~Unshared => foreign \/ lost
      BY <1>1, <1>2, Running DEF RecordOf
  <2>2. Continue(c) /\ UNCHANGED <<store, ghosts>>
      BY <1>2 DEF FinishRecovery, SwapRecord
  <2> QED BY <1>1, <2>1, <2>2, ContinuePreserves
<1>3. CASE rec = seen[c]
  <2>1. /\ rec' = Pending(cred[c])
        /\ pc' = [pc EXCEPT ![c] = "confirm"]
        /\ UNCHANGED <<session, active, reserved, lastId, memory, locals, ghosts>>
      BY <1>3 DEF FinishRecovery, SwapRecord, Go
  <2>2. pc'[c] = "confirm"
      BY <2>1 DEF Inv, TypeOK
  <2>3. /\ cred[c] \in Nat /\ cred[c] # 0 /\ cred[c] <= lastId
        /\ rec' \in Records /\ rec'.state = "pending"
        /\ rec'.id = cred[c] /\ rec'.target = 0 /\ rec' # None
    <3>1. seen[c].id \in Nat /\ cred[c] \in Nat /\ seen[c].id < cred[c] /\ cred[c] <= lastId
        BY <1>1, Running, RecordValues DEF IsRecord, Inv
    <3> QED BY <2>1, <3>1 DEF Pending, Records, None
  <2>4. TypeOK' /\ Runs(c)'
    <3>1. pc' \in [Calls -> Phases]
        BY <2>1 DEF Inv, TypeOK, Phases, BodyPhases
    <3>2. TypeOK'
        BY <2>1, <2>3, <3>1 DEF Inv, TypeOK
    <3> QED BY <2>2, <3>2 DEF Runs, BodyPhases
  <2>5. PhaseOf(c)' /\ IsRecord(rec)' /\ active' <= lastId'
    <3>1. IsRecord(seen[c])'
        BY <1>1, <2>1, Running DEF IsRecord
    <3>2. IsRecord(rec)'
        BY <1>1, <2>1, <2>3 DEF IsRecord
    <3> QED BY <1>1, <2>1, <2>2, <3>1, <3>2, Running DEF PhaseOf, Phases, BodyPhases
  <2>6. ~Unshared => cred[c] \notin ResolvedIds
      BY <1>1, Running DEF RecordOf
  <2>7. ~Unshared => RecordOf(c)'
    <3>1. ResolvedIds' = ResolvedIds
        BY <2>1 DEF ResolvedIds
    <3> QED BY <1>1, <2>1, <2>2, <2>6, <3>1, Running DEF RecordOf
  <2>8. ~Unshared /\ ~foreign => TrackOf(c)' /\ active = cred[c]
      BY <1>1, <2>1, <2>2, Running DEF TrackOf
  <2>9. OnlyMoves(c) /\ Kept
      BY <2>1 DEF OnlyMoves, Kept, Inv, TypeOK
  <2> QED BY <1>1, <2>1, <2>3, <2>4, <2>5, <2>6, <2>7, <2>8, <2>9, RunAdvances
<1> QED BY <1>2, <1>3

\* The recovered secret is returned if its credential is still the active one.
LEMMA ConfirmPreserves ==
    ASSUME Inv, NEW c \in Calls, Confirm(c)
    PROVE  Inv'
<1>1. Runs(c) /\ pc[c] = "confirm"
    BY DEF Confirm, Runs, BodyPhases
<1>2. CASE active = cred[c]
  <2>1. Resolve(c, cred[c]) /\ UNCHANGED <<store, ghosts>>
      BY <1>2 DEF Confirm
  <2>2. IsRecord(rec)'
      BY <1>1, <2>1, Running DEF IsRecord
  <2> QED BY <1>1, <1>2, <2>1, <2>2, Running, RunResolves DEF RecordOf, Inv, TypeOK
<1>3. CASE active # cred[c]
  <2>1. ~Unshared => foreign
      BY <1>1, <1>3, Running DEF TrackOf
  <2> QED BY <1>1, <1>3, <2>1, RunFails DEF Confirm, Inv, TypeOK
<1> QED BY <1>2, <1>3

-----------------------------------------------------------------------------
(* Calls outside #complete, and the steps of nobody. *)

\* The calls of M move outside #complete and the others stay where they are; a
\* record may go, a session may go or be claimed, and the credential is changed
\* only while nobody holds the lock.
LEMMA CallsMove ==
    ASSUME Inv, NEW M \in SUBSET Calls, TypeOK',
           UNCHANGED <<cache, seen, steps, result>>,
           lastId' >= lastId, lost => lost', foreign => foreign',
           rec' = rec \/ (rec' = None /\ lost'),
           active' <= lastId', active' = active \/ (foreign' /\ lock = NoCall),
           \/ session' = session \/ session' = "gone"
           \/ session = "pending" /\ session' = "claimed",
           lock' = lock \/ lock \in M \cup {NoCall},
           \A d \in Calls \ M : /\ pc'[d] = pc[d] /\ kind'[d] = kind[d]
                                /\ locked'[d] = locked[d] /\ cred'[d] = cred[d],
           Forgotten' <=> Forgotten, Stray => Stray',
           StrayFlies' => StrayFlies \/ session' # "claimed",
           \A c \in M : /\ ~Runs(c) /\ Runs(c)' = FALSE
                        /\ cred'[c] = cred[c] \/ result[c] = "none"
                        /\ PhaseOf(c)' /\ OwnerOf(c)'
                        /\ ~Unshared' => /\ ShareOf(c)' /\ RecordOf(c)'
                                         /\ ~foreign' => TrackOf(c)'
    PROVE  Inv'
<1>1. ResolvedIds' = ResolvedIds
    BY DEF ResolvedIds
<1>2. Unshared => Unshared'
    BY DEF Unshared, Forgotten
<1>3. \A d \in Calls : Runs(d)' <=> Runs(d)
    BY DEF Runs
<1>4. lastId \in Nat /\ lastId' \in Nat
    BY DEF Inv, TypeOK
<1>5. None \in Records /\ None.state = "none" /\ None.id = 0 /\ None.target = 0
    BY DEF None, Records
<1>6. Phased'
  <2>1. \A d \in Calls : IsRecord(seen[d])'
      BY <1>4 DEF Inv, TypeOK, Phased, PhaseOf, IsRecord, Records
  <2>2. IsRecord(rec)'
      BY <1>4, <1>5 DEF Inv, TypeOK, Phased, IsRecord, Records
  <2>3. ASSUME NEW d \in Calls \ M PROVE PhaseOf(d)'
    <3>1. PhaseOf(d) /\ cred'[d] <= lastId'
        BY <1>4 DEF Inv, Phased, PhaseOf, TypeOK
    <3> QED BY <2>1, <3>1 DEF PhaseOf
  <2> QED BY <2>2, <2>3 DEF Phased
<1>7. Owned'
  <2>1. ASSUME NEW d \in Calls \ M PROVE OwnerOf(d)'
    <3>1. OwnerOf(d) /\ (pc[d] = "await" => result[d] \in Calls) /\ d # NoCall
        BY NoCallIsNoCall DEF Inv, Owned, Phased, PhaseOf
    <3>2. /\ kind'[d] = "ack" => cred'[d] \in ResolvedIds
          /\ kind'[d] = "ack" /\ ~locked'[d] => session' = "gone"
        BY <3>1 DEF OwnerOf
    <3>3. locked'[d] /\ pc'[d] \in {"enter", "await", "check", "ackRead",
                                    "ackActive", "ack"} \cup BodyPhases
          => lock' = d
        BY <3>1 DEF OwnerOf
    <3> QED BY <1>1, <1>3, <3>1, <3>2, <3>3 DEF OwnerOf
  <2>2. cache' # NoCall => \/ result'[cache'] = "running" /\ Runs(cache)'
                           \/ result'[cache'] = "resolved"
      BY <1>3 DEF Inv, TypeOK, Owned, Runs
  <2> QED BY <2>1, <2>2 DEF Inv, Owned
<1>8. CASE Unshared'
    BY <1>6, <1>7, <1>8 DEF Inv, Shared, Recorded, Tracked,
       RecordTracksActive, SingleFlight
<1>9. CASE ~Unshared'
  <2>1. Shared'
    <3>1. \A d \in Calls \ M : ShareOf(d)'
        BY <1>2, <1>5, <1>9 DEF Inv, Shared, ShareOf, Resolved
    <3>2. session = "pending" => ResolvedIds = {}
        BY DEF Inv, Owned, ResolvedIds
    <3> QED BY <1>1, <1>2, <1>5, <1>9, <3>1, <3>2 DEF Inv, Shared, Resolved
  <2>2. Recorded'
    <3>1. ASSUME NEW d \in Calls \ M PROVE RecordOf(d)'
      <4>1. RecordOf(d)
          BY <1>2, <1>9 DEF Inv, Recorded
      <4>2. pc'[d] = "ack" /\ locked'[d] /\ rec' = Pending(cred'[d])
            => active' = cred'[d]
        <5>1. pc[d] = "ack" /\ locked[d] => lock = d /\ lock # NoCall
            BY NoCallIsNoCall DEF Inv, Owned, OwnerOf
        <5>2. None # Pending(cred[d])
            BY DEF None, Pending
        <5> QED BY <4>1, <5>1, <5>2 DEF RecordOf
      <4> QED BY <1>1, <1>5, <4>1, <4>2 DEF RecordOf
    <3> QED BY <1>1, <1>2, <1>5, <1>9, <3>1 DEF Inv, Recorded
  <2>3. Tracked'
    <3>1. ASSUME NEW d \in Calls \ M, ~foreign' PROVE TrackOf(d)'
      <4>1. TrackOf(d) /\ (pc[d] = "await" => result[d] \in Calls)
          BY <1>2, <1>9, <3>1 DEF Inv, Tracked, Phased, PhaseOf
      <4>2. pc[d] = "await" /\ result[result[d]] = "resolved"
            => cred'[result[d]] = cred[result[d]]
          BY <4>1
      <4> QED BY <3>1, <4>1, <4>2 DEF TrackOf
    <3>2. Resolved(cache)' => Resolved(cache) /\ cred'[cache'] = cred[cache]
        BY DEF Resolved, Inv, TypeOK
    <3> QED BY <1>2, <1>9, <3>1, <3>2 DEF Inv, Tracked
  <2>4. RecordTracksActive'
      BY <1>2, <1>5, <1>9 DEF Inv, RecordTracksActive
  <2>5. SingleFlight'
      BY <1>2, <1>3, <1>9 DEF Inv, SingleFlight, Runs
  <2> QED BY <1>6, <1>7, <2>1, <2>2, <2>3, <2>4, <2>5 DEF Inv
<1> QED BY <1>8, <1>9

\* One call moves outside #complete.
LEMMA CallMoves ==
    ASSUME Inv, NEW c \in Calls, TypeOK', ~Runs(c), Runs(c)' = FALSE,
           UNCHANGED <<active, lastId, cache, seen, steps, result, foreign>>,
           lost => lost',
           rec' = rec \/ (rec' = None /\ lost'),
           \/ session' = session
           \/ session = "pending" /\ session' = "claimed",
           lock' = lock \/ lock \in {c, NoCall},
           \A d \in Calls \ {c} : /\ pc'[d] = pc[d] /\ kind'[d] = kind[d]
                                  /\ locked'[d] = locked[d] /\ cred'[d] = cred[d],
           \/ kind'[c] = kind[c] /\ locked'[c] = locked[c] /\ ~Over(c)
           \/ /\ kind[c] \in {"none", "claim"} /\ kind'[c] # "forget"
              /\ kind'[c] = "resume" /\ ~locked'[c] => session' # "claimed",
           cred'[c] = cred[c] \/ result[c] = "none",
           PhaseOf(c)', OwnerOf(c)',
           ~Unshared' => /\ ShareOf(c)' /\ RecordOf(c)'
                         /\ ~foreign' => TrackOf(c)'
    PROVE  Inv'
<1>1. {c} \in SUBSET Calls
    OBVIOUS
<1>2. Forgotten' <=> Forgotten
  <2>1. kind'[c] = "forget" <=> kind[c] = "forget"
      OBVIOUS
  <2> QED BY <2>1 DEF Forgotten
<1>3. Stray => Stray'
    BY DEF Stray
<1>4. StrayFlies' => StrayFlies \/ session' # "claimed"
    BY DEF StrayFlies, Over
<1>5. active' <= lastId' /\ lastId' >= lastId
    BY DEF Inv, TypeOK, Phased
<1> QED BY <1>1, <1>2, <1>3, <1>4, <1>5, CallsMove

\* A call gives up outside #complete: no promise of its own is running.
LEMMA StopPreserves ==
    ASSUME Inv, NEW c \in Calls, pc[c] \in {"enter", "await", "ackActive", "ack"},
           Fail(c), UNCHANGED <<store, ghosts>>
    PROVE  Inv'
<1>1. result[c] # "running"
    BY CallsAreNoResults DEF Inv, Phased, PhaseOf
<1>2. /\ UNCHANGED <<store, cache, locals, ghosts>>
      /\ pc' = [pc EXCEPT ![c] = "failed"]
      /\ lock' = IF lock = c THEN NoCall ELSE lock
    BY <1>1 DEF Fail, Finish, Go, Unlock, Inv, TypeOK
<1>3. pc'[c] = "failed" /\ \A d \in Calls \ {c} : pc'[d] = pc[d]
    BY <1>2 DEF Inv, TypeOK
<1>4. TypeOK' /\ ~Runs(c) /\ Runs(c)' = FALSE /\ ~Over(c)
    BY <1>2, <1>3 DEF Inv, TypeOK, Phases, Runs, BodyPhases, Over
<1>5. PhaseOf(c)' /\ OwnerOf(c)'
  <2>1. IsRecord(seen[c])' /\ cred'[c] <= lastId'
      BY <1>2 DEF Inv, Phased, PhaseOf, IsRecord
  <2>2. OwnerOf(c)
      BY DEF Inv, Owned
  <2>3. ResolvedIds' = ResolvedIds
      BY <1>2 DEF ResolvedIds
  <2> QED BY <1>2, <1>3, <2>1, <2>2, <2>3 DEF PhaseOf, OwnerOf, BodyPhases
<1>6. ~Unshared' => ShareOf(c)' /\ RecordOf(c)' /\ (~foreign' => TrackOf(c)')
  <2>1. Unshared' <=> Unshared
      BY <1>2 DEF Unshared, Stray
  <2>2. ~Unshared => RecordOf(c)
      BY DEF Inv, Recorded
  <2> QED BY <1>2, <1>3, <2>1, <2>2 DEF ShareOf, RecordOf, TrackOf, BodyPhases
<1>7. /\ UNCHANGED <<active, lastId, cache, seen, steps, result, foreign>>
      /\ session' = session /\ rec' = rec /\ lost' = lost
      /\ kind' = kind /\ locked' = locked /\ cred' = cred
      /\ lock' = lock \/ lock = c
    BY <1>2
<1>8. \A d \in Calls \ {c} : /\ pc'[d] = pc[d] /\ kind'[d] = kind[d]
                              /\ locked'[d] = locked[d] /\ cred'[d] = cred[d]
    BY <1>3, <1>7
<1>9. \/ kind'[c] = kind[c] /\ locked'[c] = locked[c] /\ ~Over(c)
      \/ /\ kind[c] \in {"none", "claim"} /\ kind'[c] # "forget"
         /\ kind'[c] = "resume" /\ ~locked'[c] => session' # "claimed"
    BY <1>4, <1>7
<1>10. cred'[c] = cred[c] \/ result[c] = "none"
    BY <1>7
<1>11. lost => lost'
    BY <1>7
<1> QED BY <1>4, <1>5, <1>6, <1>7, <1>8, <1>9, <1>10, <1>11, CallMoves

\* The retention of the record ends.
LEMMA RecordExpiresPreserves ==
    ASSUME Inv, RecordExpires
    PROVE  Inv'
<1>1. /\ rec' = None /\ lost' = TRUE /\ reserved' = FALSE
      /\ UNCHANGED <<session, active, lastId, memory, pc, locals, foreign>>
    BY DEF RecordExpires
<1>2. TypeOK' /\ active' <= lastId' /\ lastId' >= lastId
  <2>1. rec' \in Records
      BY <1>1 DEF None, Records
  <2>2. TypeOK'
      BY <1>1, <2>1 DEF RecordExpires, Inv, TypeOK
  <2> QED BY <1>1, <2>2 DEF Inv, TypeOK, Phased
<1>3. (Forgotten' <=> Forgotten) /\ (Stray => Stray') /\ (StrayFlies' => StrayFlies)
    BY <1>1 DEF Forgotten, Stray, StrayFlies, Over
<1>4. {} \in SUBSET Calls
    OBVIOUS
<1> QED BY <1>1, <1>2, <1>3, <1>4, CallsMove

\* The session is cancelled or expires.
LEMMA SessionGonePreserves ==
    ASSUME Inv, SessionGone
    PROVE  Inv'
<1>1. /\ UNCHANGED <<active, rec, reserved, lastId, memory, pc, locals, ghosts>>
      /\ session' = "gone"
    BY DEF SessionGone
<1>2. TypeOK' /\ active' <= lastId' /\ lastId' >= lastId
    BY DEF SessionGone, Inv, TypeOK, Phased
<1>3. (Forgotten' <=> Forgotten) /\ (Stray => Stray') /\ (StrayFlies' => StrayFlies)
    BY <1>1 DEF Forgotten, Stray, StrayFlies, Over
<1>4. {} \in SUBSET Calls
    OBVIOUS
<1> QED BY <1>1, <1>2, <1>3, <1>4, CallsMove

\* An explicit revocation or rotation, under the lock.
LEMMA MutatePreserves ==
    ASSUME Inv, Mutate
    PROVE  Inv'
<1>1. /\ UNCHANGED <<session, rec, reserved, memory, pc, locals, lost>>
      /\ foreign' /\ lock = NoCall
    BY DEF Mutate
<1>2. TypeOK' /\ active' <= lastId' /\ lastId' >= lastId
    BY BoundsAreNat DEF Mutate, Inv, TypeOK, Phased
<1>3. (Forgotten' <=> Forgotten) /\ (Stray => Stray') /\ (StrayFlies' => StrayFlies)
    BY <1>1 DEF Forgotten, Stray, StrayFlies, Over
<1>4. {} \in SUBSET Calls
    OBVIOUS
<1> QED BY <1>1, <1>2, <1>3, <1>4, CallsMove

\* The calls that are started: an acknowledgement names a returned credential,
\* and outside the lock it finds the session gone.
LEMMA StartPreserves ==
    ASSUME Inv, NEW c \in Calls, NEW k \in {"claim", "resume", "ack"},
           NEW phase \in {"admitted", "failed", "queued", "enter", "ack"},
           NEW id \in Nat, Start(c, k, phase, id),
           locked' \in [Calls -> BOOLEAN],
           \A d \in Calls \ {c} : locked'[d] = locked[d],
           k = "claim" => phase \in {"admitted", "failed"},
           k # "claim" => \/ phase = "queued" /\ locked'[c]
                          \/ /\ phase = IF k = "resume" THEN "enter" ELSE "ack"
                             /\ ~locked'[c] /\ session # "claimed",
           id = 0 \/ id \in ResolvedIds, k = "ack" => id \in ResolvedIds
    PROVE  Inv'
<1>1. /\ pc[c] = "idle" /\ kind' = [kind EXCEPT ![c] = k]
      /\ cred' = [cred EXCEPT ![c] = id] /\ pc' = [pc EXCEPT ![c] = phase]
      /\ UNCHANGED <<store, memory, seen, steps, result, ghosts>>
    BY DEF Start, Go
<1>2. kind'[c] = k /\ cred'[c] = id /\ pc'[c] = phase
    BY <1>1 DEF Inv, TypeOK
<1>3. \A d \in Calls \ {c} : /\ pc'[d] = pc[d] /\ kind'[d] = kind[d]
                             /\ locked'[d] = locked[d] /\ cred'[d] = cred[d]
    BY <1>1 DEF Inv, TypeOK
<1>4. PhaseOf(c) /\ kind[c] = "none" /\ result[c] = "none" /\ steps[c] = 0
    BY <1>1 DEF Inv, Phased, PhaseOf, Phases
<1>5. id <= lastId /\ (k = "ack" => session # "pending")
  <2>1. \A d \in Calls : cred[d] <= lastId
      BY DEF Inv, Phased, PhaseOf
  <2>2. ResolvedIds # {} => session # "pending"
      BY DEF Inv, Owned, ResolvedIds
  <2> QED BY <2>1, <2>2 DEF ResolvedIds, Inv, TypeOK
<1>6. TypeOK'
  <2>1. pc' \in [Calls -> Phases]
      BY <1>1 DEF Inv, TypeOK, Phases
  <2>2. kind' \in [Calls -> Completing \cup {"ack", "forget", "none"}]
      BY <1>1 DEF Inv, TypeOK, Completing
  <2> QED BY <1>1, <2>1, <2>2 DEF Inv, TypeOK
<1>7. ~Runs(c) /\ Runs(c)' = FALSE
    BY <1>1, <1>2 DEF Runs, BodyPhases
<1>8. PhaseOf(c)'
  <2>1. IsRecord(seen[c])' /\ cred'[c] <= lastId'
      BY <1>1, <1>2, <1>4, <1>5 DEF PhaseOf, IsRecord
  <2> QED BY <1>1, <1>2, <1>4, <2>1 DEF PhaseOf, BodyPhases, Completing
<1>9. OwnerOf(c)'
  <2>1. ResolvedIds' = ResolvedIds
      BY <1>1, <1>3, <1>4 DEF ResolvedIds
  <2>2. k = "ack" /\ ~locked'[c] => session = "gone"
      BY <1>5 DEF Inv, TypeOK
  <2> QED BY <1>1, <1>2, <2>1, <2>2 DEF OwnerOf, BodyPhases
<1>10. ShareOf(c)' /\ RecordOf(c)' /\ TrackOf(c)'
    BY <1>1, <1>2, <1>4 DEF ShareOf, RecordOf, TrackOf, BodyPhases
<1>11. /\ UNCHANGED <<active, lastId, cache, seen, steps, result, foreign>>
       /\ session' = session /\ rec' = rec /\ lost' = lost /\ lock' = lock
       /\ lost => lost'
    BY <1>1
<1>12. /\ kind[c] \in {"none", "claim"} /\ kind'[c] # "forget"
       /\ kind'[c] = "resume" /\ ~locked'[c] => session' # "claimed"
    BY <1>2, <1>4, <1>11
<1> QED BY <1>3, <1>4, <1>6, <1>7, <1>8, <1>9, <1>10, <1>11, <1>12, CallMoves

\* claimAndIssue, resumeClaimedPairing and acknowledgeDelivery are called.
LEMMA StartsPreserve ==
    ASSUME Inv, NEW c \in Calls,
           \/ StartClaim(c) \/ StartResume(c)
           \/ \E id \in Returned : StartAck(c, id)
    PROVE  Inv'
<1>1. CASE StartClaim(c)
  <2>1. PICK phase \in {"admitted", "failed"} :
            Start(c, "claim", phase, 0) /\ UNCHANGED locked
      BY <1>1 DEF StartClaim
  <2>2. locked' \in [Calls -> BOOLEAN]
      BY <2>1 DEF Inv, TypeOK
  <2> QED BY <2>1, <2>2, StartPreserves
<1>2. ASSUME NEW k \in {"resume", "ack"}, NEW id \in Nat,
             id = 0 \/ id \in ResolvedIds, k = "ack" => id \in ResolvedIds,
             StartWrapped(c, k, IF k = "resume" THEN "enter" ELSE "ack", id)
      PROVE  Inv'
  <2> DEFINE unlockedPhase == IF k = "resume" THEN "enter" ELSE "ack"
             phase == IF session = "claimed" THEN "queued" ELSE unlockedPhase
  <2>1. Start(c, k, phase, id) /\ locked' = [locked EXCEPT ![c] = (session = "claimed")]
      BY <1>2 DEF StartWrapped
  <2>2. locked' \in [Calls -> BOOLEAN] /\ \A d \in Calls \ {c} : locked'[d] = locked[d]
      BY <2>1 DEF Inv, TypeOK
  <2>3. locked'[c] <=> session = "claimed"
      BY <2>1, Zenon DEF Inv, TypeOK
  <2>4. CASE session = "claimed"
      BY <1>2, <2>1, <2>2, <2>3, <2>4, StartPreserves
  <2>5. CASE session # "claimed"
      BY <1>2, <2>1, <2>2, <2>3, <2>5, StartPreserves
  <2> QED BY <2>4, <2>5
<1>3. CASE StartResume(c)
    BY <1>2, <1>3 DEF StartResume
<1>4. CASE \E id \in Returned : StartAck(c, id)
  <2>1. PICK id \in Returned : StartAck(c, id)
      BY <1>4
  <2>2. id \in Nat /\ id \in ResolvedIds
    <3>1. \A d \in Calls : kind[d] \in Completing /\ pc[d] = "ok"
                           => result[d] = "resolved"
        BY DEF Inv, Phased, PhaseOf
    <3> QED BY <2>1, <3>1 DEF Returned, ResolvedIds, Inv, TypeOK
  <2> QED BY <1>2, <2>1, <2>2 DEF StartAck
<1> QED BY <1>1, <1>3, <1>4

\* A call goes on towards #complete or towards the acknowledgement.
LEMMA PhaseMoves ==
    ASSUME Inv, NEW c \in Calls,
           pc[c] \in {"admitted", "claimed", "queued", "ackRead", "ackActive", "forget"},
           NEW p \in {"failed", "claimed", "queued", "enter", "ackRead",
                      "ackActive", "ack", "ok"},
           pc' = [pc EXCEPT ![c] = p],
           UNCHANGED <<kind, cred, cache, seen, steps, result, active, lastId,
                       crashes, mutations, foreign>>,
           reserved' \in BOOLEAN, lost' \in BOOLEAN, lost => lost',
           rec' = rec \/ (rec' = None /\ lost'),
           \/ session' = session
           \/ session = "pending" /\ session' = "claimed" /\ kind[c] = "claim",
           lock' = lock \/ (lock = NoCall /\ lock' = c),
           \/ locked' = locked
           \/ kind[c] = "claim" /\ locked' = [locked EXCEPT ![c] = TRUE],
           p = "claimed" => kind[c] = "claim",
           p = "queued" => kind[c] = "claim" /\ locked'[c],
           p = "enter" => kind[c] \in Completing /\ locked'[c] /\ lock' = c,
           p \in {"ackRead", "ackActive", "ack"} =>
              kind[c] = "ack" /\ locked'[c] /\ lock' = c,
           p = "ack" /\ rec' = Pending(cred[c]) => active = cred[c],
           p = "ok" => kind[c] = "forget"
    PROVE  Inv'
<1>1. pc'[c] = p /\ \A d \in Calls \ {c} : pc'[d] = pc[d]
    BY DEF Inv, TypeOK
<1>2. \A d \in Calls \ {c} : locked'[d] = locked[d]
    BY DEF Inv, TypeOK
<1>3. PhaseOf(c) /\ OwnerOf(c) /\ result[c] = "none" /\ steps[c] = 0
    BY DEF Inv, Owned, Phased, PhaseOf, Phases
<1>4. TypeOK'
  <2>1. pc' \in [Calls -> Phases]
      BY DEF Inv, TypeOK, Phases
  <2>2. locked' \in [Calls -> BOOLEAN]
      BY DEF Inv, TypeOK
  <2>3. rec' \in Records
      BY DEF Inv, TypeOK, None, Records
  <2> QED BY <2>1, <2>2, <2>3 DEF Inv, TypeOK
<1>5. ~Runs(c) /\ Runs(c)' = FALSE /\ ~Over(c)
    BY <1>1 DEF Runs, BodyPhases, Over
<1>6. PhaseOf(c)'
  <2>1. IsRecord(seen[c])' /\ cred'[c] <= lastId'
      BY <1>3 DEF PhaseOf, IsRecord
  <2> QED BY <1>1, <1>3, <2>1 DEF PhaseOf, BodyPhases, Completing
<1>7. OwnerOf(c)'
  <2>1. ResolvedIds' = ResolvedIds
      BY DEF ResolvedIds
  <2>2. kind[c] = "ack" => locked' = locked
      OBVIOUS
  <2>3. kind[c] = "ack" => session' = session /\ locked'[c] = locked[c]
                                              /\ cred'[c] = cred[c]
      BY <2>2
  <2> QED BY <1>1, <1>3, <2>1, <2>3 DEF OwnerOf, BodyPhases
<1>8. ShareOf(c)' /\ RecordOf(c)' /\ TrackOf(c)'
    BY <1>1, <1>3 DEF ShareOf, RecordOf, TrackOf, BodyPhases
<1>9. \/ kind'[c] = kind[c] /\ locked'[c] = locked[c] /\ ~Over(c)
      \/ /\ kind[c] \in {"none", "claim"} /\ kind'[c] # "forget"
         /\ kind'[c] = "resume" /\ ~locked'[c] => session' # "claimed"
  <2>1. CASE locked' = locked
      BY <1>5, <2>1
  <2>2. CASE kind[c] = "claim"
      BY <2>2
  <2> QED BY <2>1, <2>2
<1>10. UNCHANGED <<active, lastId, cache, seen, steps, result, foreign>>
    OBVIOUS
<1>11. \A d \in Calls \ {c} : /\ pc'[d] = pc[d] /\ kind'[d] = kind[d]
                              /\ locked'[d] = locked[d] /\ cred'[d] = cred[d]
    BY <1>1, <1>2
<1> QED BY <1>4, <1>5, <1>6, <1>7, <1>8, <1>9, <1>10, <1>11, CallMoves

\* The record is forgotten.
LEMMA ForgetRecordPreserves ==
    ASSUME Inv, NEW c \in Calls, ForgetRecord(c)
    PROVE  Inv'
<1>1. pc[c] = "forget" /\ kind[c] = "forget"
    BY DEF ForgetRecord, Inv, Phased, PhaseOf
<1>2. /\ rec' = None /\ reserved' = FALSE
      /\ lost' = (lost \/ rec # None \/ reserved)
      /\ pc' = [pc EXCEPT ![c] = "ok"]
      /\ UNCHANGED <<session, active, lastId, memory, locals, crashes, mutations,
                     foreign>>
    BY DEF ForgetRecord, Go
<1>3. lost' \in BOOLEAN /\ (lost => lost') /\ (rec' = rec \/ (rec' = None /\ lost'))
    BY <1>2
<1> QED BY <1>1, <1>2, <1>3, PhaseMoves

\* The claim commits, or the session cannot be claimed any more.
LEMMA ClaimSessionPreserves ==
    ASSUME Inv, NEW c \in Calls, ClaimSession(c)
    PROVE  Inv'
<1>1. pc[c] = "admitted" /\ kind[c] = "claim"
    BY DEF ClaimSession, Inv, Phased, PhaseOf
<1>2. CASE session = "pending"
    BY <1>1, <1>2, PhaseMoves DEF ClaimSession, Go, Inv, TypeOK
<1>3. CASE session # "pending"
    BY <1>1, <1>3, PhaseMoves DEF ClaimSession, Go, Inv, TypeOK
<1> QED BY <1>2, <1>3

\* The reservation is the session's from now on, or the claim fails.
LEMMA TransferReservationPreserves ==
    ASSUME Inv, NEW c \in Calls, TransferReservation(c)
    PROVE  Inv'
<1>1. pc[c] = "claimed" /\ kind[c] = "claim"
    BY DEF TransferReservation, Inv, Phased, PhaseOf
<1>2. CASE /\ rec = None /\ ~reserved
           /\ reserved' = TRUE
           /\ Go(c, "queued")
           /\ locked' = [locked EXCEPT ![c] = TRUE]
           /\ UNCHANGED lost
  <2>1. locked'[c]
      BY <1>2 DEF Inv, TypeOK
  <2> QED BY <1>1, <1>2, <2>1, PhaseMoves
          DEF TransferReservation, Go, Inv, TypeOK
<1>3. CASE /\ Go(c, "failed")
           /\ lost' = (lost \/ MayBeRefused)
           /\ UNCHANGED <<reserved, locked>>
  <2>1. lost' \in BOOLEAN /\ (lost => lost')
      BY <1>3
  <2> QED BY <1>1, <1>3, <2>1, PhaseMoves
          DEF TransferReservation, Go, Inv, TypeOK
<1> QED BY <1>2, <1>3 DEF TransferReservation

\* The lifecycle lock is taken.
LEMMA AcquireLockPreserves ==
    ASSUME Inv, NEW c \in Calls, AcquireLock(c)
    PROVE  Inv'
<1>1. pc[c] = "queued" /\ locked[c] /\ kind[c] \in Completing \cup {"ack"}
    BY DEF AcquireLock, Inv, Phased, PhaseOf
<1>2. /\ lock = NoCall /\ lock' = c /\ UNCHANGED <<store, cache, locals, ghosts>>
      /\ pc' = [pc EXCEPT ![c] = IF kind[c] = "ack" THEN "ackRead" ELSE "enter"]
    BY DEF AcquireLock, Go
<1>3. CASE kind[c] = "ack"
    BY <1>1, <1>2, <1>3, PhaseMoves DEF Inv, TypeOK
<1>4. CASE kind[c] # "ack"
    BY <1>1, <1>2, <1>4, PhaseMoves DEF Inv, TypeOK
<1> QED BY <1>3, <1>4

\* The record and the credential are read before an acknowledgement.
LEMMA AckReadPreserves ==
    ASSUME Inv, NEW c \in Calls, AckRead(c)
    PROVE  Inv'
<1>1. pc[c] = "ackRead" /\ locked[c] /\ kind[c] = "ack" /\ lock = c
    BY DEF AckRead, Inv, Phased, PhaseOf, Owned, OwnerOf
<1>2. /\ UNCHANGED <<store, memory, locals, ghosts>>
      /\ pc' = [pc EXCEPT ![c] = IF rec = Pending(cred[c]) THEN "ackActive" ELSE "ack"]
    BY DEF AckRead, Go
<1>3. CASE rec = Pending(cred[c])
    BY <1>1, <1>2, <1>3, PhaseMoves DEF Inv, TypeOK
<1>4. CASE rec # Pending(cred[c])
    BY <1>1, <1>2, <1>4, PhaseMoves DEF Inv, TypeOK
<1> QED BY <1>3, <1>4

\* A pending completion is acknowledged only for the active credential.
LEMMA AckActivePreserves ==
    ASSUME Inv, NEW c \in Calls, AckActive(c)
    PROVE  Inv'
<1>1. pc[c] = "ackActive" /\ locked[c] /\ kind[c] = "ack" /\ lock = c
    BY DEF AckActive, Inv, Phased, PhaseOf, Owned, OwnerOf
<1>2. CASE active = cred[c]
  <2>1. /\ UNCHANGED <<store, memory, locals, ghosts>>
        /\ pc' = [pc EXCEPT ![c] = "ack"]
      BY <1>2 DEF AckActive, Go
  <2> QED BY <1>1, <1>2, <2>1, PhaseMoves DEF Inv, TypeOK
<1>3. CASE active # cred[c]
    BY <1>1, <1>3, StopPreserves DEF AckActive
<1> QED BY <1>2, <1>3

\* The credential is compared once more at the end of the lifecycle operation.
LEMMA CheckPreserves ==
    ASSUME Inv, NEW c \in Calls, Check(c)
    PROVE  Inv'
<1>1. /\ pc[c] = "check" /\ result[c] = "resolved" /\ locked[c]
      /\ PhaseOf(c) /\ OwnerOf(c) /\ kind[c] \in Completing
    BY DEF Check, Inv, Phased, PhaseOf, Owned
<1>2. PICK p \in {"ok", "failed"} :
          /\ Finish(c, p)
          /\ UNCHANGED <<store, kind, locked, seen, cred, steps, ghosts>>
    BY DEF Check
<1>3. /\ UNCHANGED <<store, cache, locals, ghosts>>
      /\ pc' = [pc EXCEPT ![c] = p] /\ lock' = IF lock = c THEN NoCall ELSE lock
    BY <1>1, <1>2 DEF Finish, Go, Unlock, Inv, TypeOK
<1>4. pc'[c] = p /\ \A d \in Calls \ {c} : pc'[d] = pc[d]
    BY <1>3 DEF Inv, TypeOK
<1>5. TypeOK' /\ ~Runs(c) /\ Runs(c)' = FALSE /\ ~Over(c)
  <2>1. pc' \in [Calls -> Phases]
      BY <1>3 DEF Inv, TypeOK, Phases
  <2>2. TypeOK'
      BY <1>3, <2>1 DEF Inv, TypeOK
  <2> QED BY <1>1, <1>4, <2>2 DEF Runs, BodyPhases, Over
<1>6. PhaseOf(c)' /\ OwnerOf(c)'
  <2>1. IsRecord(seen[c])' /\ cred'[c] <= lastId'
      BY <1>1, <1>3 DEF PhaseOf, IsRecord
  <2> QED BY <1>1, <1>3, <1>4, <2>1 DEF PhaseOf, OwnerOf, BodyPhases, Completing
<1>7. ShareOf(c)' /\ RecordOf(c)' /\ TrackOf(c)'
    BY <1>1, <1>3, <1>4 DEF ShareOf, RecordOf, TrackOf, BodyPhases
<1>8. /\ UNCHANGED <<active, lastId, cache, seen, steps, result, foreign>>
      /\ session' = session /\ rec' = rec /\ lost' = lost
      /\ kind' = kind /\ locked' = locked /\ cred' = cred
      /\ lock' = lock \/ lock = c
    BY <1>3
<1>9. \A d \in Calls \ {c} : /\ pc'[d] = pc[d] /\ kind'[d] = kind[d]
                              /\ locked'[d] = locked[d] /\ cred'[d] = cred[d]
    BY <1>4, <1>8
<1>10. kind'[c] = kind[c] /\ locked'[c] = locked[c] /\ cred'[c] = cred[c]
       /\ (lost => lost')
    BY <1>8
<1> QED BY <1>5, <1>6, <1>7, <1>8, <1>9, <1>10, CallMoves

\* Nobody waits for a call whose promise has not been made.
LEMMA NoPromise ==
    ASSUME Inv, NEW c \in Calls, result[c] \notin {"running", "failed", "resolved"}
    PROVE  /\ \A d \in Calls : pc[d] = "await" => result[d] \in Calls \ {c}
           /\ cache # c
<1>1. ASSUME NEW d \in Calls, pc[d] = "await" PROVE result[d] \in Calls \ {c}
    BY <1>1 DEF Inv, Phased, PhaseOf
<1>2. cache # c
    BY NoCallIsNoCall DEF Inv, Owned
<1> QED BY <1>1, <1>2

\* The promise that is shared is awaited.
LEMMA EnterSharedPreserves ==
    ASSUME Inv, NEW c \in Calls, pc[c] = "enter", session = "claimed",
           cache # NoCall,
           seen' = [seen EXCEPT ![c] = None],
           result' = [result EXCEPT ![c] = cache],
           pc' = [pc EXCEPT ![c] = "await"],
           UNCHANGED <<store, memory, kind, locked, cred, steps, ghosts>>
    PROVE  Inv'
<1>1. /\ result[c] = "none" /\ PhaseOf(c) /\ OwnerOf(c)
      /\ kind[c] \in Completing /\ (kind[c] = "claim" => locked[c]) /\ steps[c] = 0
    BY DEF Inv, Phased, PhaseOf, Owned, Phases
<1>2. /\ cache \in Calls \ {c}
      /\ \/ result[cache] = "running" /\ Runs(cache)
         \/ result[cache] = "resolved"
    BY <1>1, NoPromise DEF Inv, Owned, TypeOK
<1>3. /\ pc'[c] = "await" /\ result'[c] = cache /\ seen'[c] = None
      /\ \A d \in Calls \ {c} : /\ pc'[d] = pc[d] /\ result'[d] = result[d]
                                /\ seen'[d] = seen[d]
    BY DEF Inv, TypeOK
<1>4. cache \notin {"none", "running", "failed", "resolved"}
    BY <1>2, CallsAreNoResults
<1>5. ResolvedIds' = ResolvedIds
    BY <1>1, <1>3, <1>4 DEF ResolvedIds
<1>6. /\ Unshared' <=> Unshared
      /\ Forgotten' <=> Forgotten
      /\ StrayFlies' => StrayFlies
    BY <1>3 DEF Unshared, Stray, Forgotten, StrayFlies, Over
<1>7. \A d \in Calls : Runs(d)' <=> Runs(d)
    BY <1>3 DEF Runs, BodyPhases
<1>8. \A d \in Calls : d # c /\ pc[d] = "await" =>
          /\ result'[d] = result[d] /\ result[d] \in Calls
          /\ result'[result'[d]] = result[result[d]]
    BY <1>1, <1>3, NoPromise
<1>9. TypeOK'
  <2>1. None \in Records
      BY DEF None, Records
  <2>2. seen' \in [Calls -> Records]
      BY <2>1 DEF Inv, TypeOK
  <2>3. pc' \in [Calls -> Phases]
      BY DEF Inv, TypeOK, Phases
  <2>4. result' \in [Calls -> {"none", "running", "failed", "resolved"} \cup Calls]
      BY <1>2 DEF Inv, TypeOK
  <2> QED BY <2>2, <2>3, <2>4 DEF Inv, TypeOK
<1>10. Phased'
  <2>1. IsRecord(None)'
      BY DEF IsRecord, None, Records, Inv, TypeOK
  <2>2. ASSUME NEW d \in Calls PROVE PhaseOf(d)'
    <3>1. PhaseOf(d) /\ cred'[d] <= lastId' /\ IsRecord(seen[d])'
        BY <1>3, <2>1 DEF Inv, Phased, PhaseOf, IsRecord
    <3>2. CASE d = c
        BY <1>1, <1>2, <1>3, <3>1, <3>2 DEF PhaseOf, BodyPhases
    <3>3. CASE d # c
        BY <1>3, <1>8, <3>1, <3>3 DEF PhaseOf
    <3> QED BY <3>2, <3>3
  <2> QED BY <2>2 DEF Inv, Phased, IsRecord
<1>11. Owned'
  <2>1. ASSUME NEW d \in Calls PROVE OwnerOf(d)'
    <3>1. OwnerOf(d)
        BY DEF Inv, Owned
    <3>2. CASE d = c
        BY <1>1, <1>2, <1>3, <1>7, <3>2 DEF OwnerOf, Completing
    <3>3. CASE d # c
        BY <1>3, <1>5, <1>7, <1>8, <3>1, <3>3 DEF OwnerOf
    <3> QED BY <3>2, <3>3
  <2> QED BY <1>2, <1>3, <1>7, <2>1 DEF Owned
<1>12. CASE Unshared
    BY <1>6, <1>9, <1>10, <1>11, <1>12 DEF Inv, Shared, Recorded, Tracked,
       RecordTracksActive, SingleFlight
<1>13. CASE ~Unshared
  <2>1. Resolved(cache)' <=> Resolved(cache)
      BY <1>2, <1>3 DEF Resolved
  <2>2. Shared'
    <3>1. ASSUME NEW d \in Calls PROVE ShareOf(d)'
      <4>1. ShareOf(d)
          BY <1>13 DEF Inv, Shared
      <4>2. CASE d = c
          BY <1>3, <4>2 DEF ShareOf, BodyPhases
      <4>3. CASE d # c
          BY <1>3, <1>6, <1>8, <2>1, <4>1, <4>3 DEF ShareOf
      <4> QED BY <4>2, <4>3
    <3> QED BY <1>5, <1>6, <1>13, <2>1, <3>1 DEF Inv, Shared
  <2>3. Recorded'
    <3>1. ASSUME NEW d \in Calls PROVE RecordOf(d)'
      <4>1. RecordOf(d)
          BY <1>13 DEF Inv, Recorded
      <4>2. CASE d = c
          BY <1>3, <1>4, <4>2 DEF RecordOf
      <4>3. CASE d # c
          BY <1>3, <1>5, <4>1, <4>3 DEF RecordOf
      <4> QED BY <4>2, <4>3
    <3> QED BY <1>5, <1>13, <3>1 DEF Inv, Recorded
  <2>4. Tracked'
    <3>1. ASSUME NEW d \in Calls, ~foreign PROVE TrackOf(d)'
      <4>1. TrackOf(d) /\ (Resolved(cache) => active = cred[cache])
          BY <1>13, <3>1 DEF Inv, Tracked
      <4>2. CASE d = c
          BY <1>2, <1>3, <4>1, <4>2 DEF TrackOf, Resolved
      <4>3. CASE d # c
          BY <1>3, <1>8, <4>1, <4>3 DEF TrackOf
      <4> QED BY <4>2, <4>3
    <3> QED BY <1>13, <2>1, <3>1 DEF Inv, Tracked
  <2>5. RecordTracksActive'
      BY <1>6, <1>13 DEF Inv, RecordTracksActive
  <2>6. SingleFlight'
      BY <1>6, <1>7, <1>13 DEF Inv, SingleFlight, Runs
  <2> QED BY <1>9, <1>10, <1>11, <2>2, <2>3, <2>4, <2>5, <2>6 DEF Inv
<1> QED BY <1>12, <1>13

\* A call runs #complete and shares its promise.
LEMMA EnterAlonePreserves ==
    ASSUME Inv, NEW c \in Calls, pc[c] = "enter", session = "claimed",
           rec.state # "delivered", cache = NoCall,
           cache' = c,
           result' = [result EXCEPT ![c] = "running"],
           pc' = [pc EXCEPT ![c] = "snapshot"],
           UNCHANGED <<store, lock, kind, locked, seen, cred, steps, ghosts>>
    PROVE  Inv'
<1>1. /\ result[c] = "none" /\ PhaseOf(c) /\ OwnerOf(c)
      /\ kind[c] \in Completing /\ (kind[c] = "claim" => locked[c]) /\ steps[c] = 0
    BY DEF Inv, Phased, PhaseOf, Owned, Phases
<1>2. /\ pc'[c] = "snapshot" /\ result'[c] = "running"
      /\ \A d \in Calls \ {c} : pc'[d] = pc[d] /\ result'[d] = result[d]
    BY DEF Inv, TypeOK
<1>3. ResolvedIds' = ResolvedIds
    BY <1>1, <1>2 DEF ResolvedIds
<1>4. /\ Unshared' <=> Unshared
      /\ Forgotten' <=> Forgotten
      /\ StrayFlies' => StrayFlies
    BY <1>2 DEF Unshared, Stray, Forgotten, StrayFlies, Over
<1>5. Runs(c)' /\ \A d \in Calls \ {c} : Runs(d)' <=> Runs(d)
    BY <1>2 DEF Runs, BodyPhases
<1>6. \A d \in Calls : d # c /\ pc[d] = "await" =>
          /\ result'[d] = result[d] /\ result[d] \in Calls
          /\ result'[result'[d]] = result[result[d]]
    BY <1>1, <1>2, NoPromise
<1>7. TypeOK'
  <2>1. pc' \in [Calls -> Phases]
      BY DEF Inv, TypeOK, Phases, BodyPhases
  <2>2. result' \in [Calls -> {"none", "running", "failed", "resolved"} \cup Calls]
      BY DEF Inv, TypeOK
  <2> QED BY <2>1, <2>2 DEF Inv, TypeOK
<1>8. Phased'
  <2>1. ASSUME NEW d \in Calls PROVE PhaseOf(d)'
    <3>1. PhaseOf(d) /\ cred'[d] <= lastId' /\ IsRecord(seen[d])'
        BY DEF Inv, Phased, PhaseOf, IsRecord
    <3>2. CASE d = c
        BY <1>1, <1>2, <3>1, <3>2 DEF PhaseOf, BodyPhases
    <3>3. CASE d # c
        BY <1>2, <1>6, <3>1, <3>3 DEF PhaseOf
    <3> QED BY <3>2, <3>3
  <2> QED BY <2>1 DEF Inv, Phased, IsRecord
<1>9. Owned'
  <2>1. ASSUME NEW d \in Calls PROVE OwnerOf(d)'
    <3>1. OwnerOf(d)
        BY DEF Inv, Owned
    <3>2. CASE d = c
        BY <1>1, <1>2, <3>2 DEF OwnerOf, Completing
    <3>3. CASE d # c
      <4>1. \A e \in Calls : Runs(e) => Runs(e)'
          BY <1>5
      <4> QED BY <1>2, <1>3, <1>6, <3>1, <3>3, <4>1 DEF OwnerOf
    <3> QED BY <3>2, <3>3
  <2> QED BY <1>2, <1>5, <2>1 DEF Owned
<1>10. CASE Unshared
    BY <1>4, <1>7, <1>8, <1>9, <1>10 DEF Inv, Shared, Recorded, Tracked,
       RecordTracksActive, SingleFlight
<1>11. CASE ~Unshared
  <2>1. ASSUME NEW d \in Calls, Runs(d) PROVE FALSE
    <3>1. Forgotten
        BY <1>11, <2>1, NoCallIsNoCall DEF Inv, Shared, ShareOf, Runs
    <3>2. locked[c] /\ locked[d]
        BY <1>1, <1>11, <2>1, <3>1, Running, SharedOrLocked DEF PhaseOf, Runs, Stray,
           Completing
    <3>3. lock = c /\ lock = d
        BY <1>1, <2>1, <3>2 DEF OwnerOf, Inv, Owned, Runs
    <3> QED BY <2>1, <3>3 DEF Runs, BodyPhases
  <2>2. ~Resolved(cache) /\ ~Resolved(cache)'
      BY <1>2 DEF Resolved
  <2>3. Shared'
    <3>1. ASSUME NEW d \in Calls PROVE ShareOf(d)'
      <4>1. ShareOf(d)
          BY <1>11 DEF Inv, Shared
      <4>2. CASE d = c
          BY <1>2, <4>2 DEF ShareOf, BodyPhases
      <4>3. CASE d # c
          BY <1>2, <1>4, <1>6, <2>1, <2>2, <4>1, <4>3, NoCallIsNoCall
             DEF ShareOf, Runs
      <4> QED BY <4>2, <4>3
    <3> QED BY <1>3, <1>4, <1>11, <2>2, <3>1 DEF Inv, Shared
  <2>4. Recorded'
    <3>1. ASSUME NEW d \in Calls PROVE RecordOf(d)'
      <4>1. RecordOf(d)
          BY <1>11 DEF Inv, Recorded
      <4>2. CASE d = c
          BY <1>2, <4>2 DEF RecordOf
      <4>3. CASE d # c
          BY <1>2, <1>3, <4>1, <4>3 DEF RecordOf
      <4> QED BY <4>2, <4>3
    <3> QED BY <1>3, <1>11, <3>1 DEF Inv, Recorded
  <2>5. Tracked'
    <3>1. ASSUME NEW d \in Calls, ~foreign PROVE TrackOf(d)'
      <4>1. TrackOf(d)
          BY <1>11, <3>1 DEF Inv, Tracked
      <4>2. CASE d = c
          BY <1>2, <4>2 DEF TrackOf
      <4>3. CASE d # c
          BY <1>2, <1>6, <4>1, <4>3 DEF TrackOf
      <4> QED BY <4>2, <4>3
    <3> QED BY <1>11, <2>2, <3>1 DEF Tracked
  <2>6. RecordTracksActive'
      BY <1>4, <1>11 DEF Inv, RecordTracksActive
  <2>7. SingleFlight'
      BY <1>5, <2>1 DEF SingleFlight, Runs
  <2> QED BY <1>7, <1>8, <1>9, <2>3, <2>4, <2>5, <2>6, <2>7 DEF Inv
<1> QED BY <1>10, <1>11

\* The cached promise is awaited or made, or the call is refused.
LEMMA EnterPreserves ==
    ASSUME Inv, NEW c \in Calls, Enter(c)
    PROVE  Inv'
<1>1. CASE /\ session # "claimed" \/ rec.state = "delivered"
           /\ Fail(c)
    BY <1>1, StopPreserves DEF Enter
<1>2. CASE /\ session = "claimed" /\ rec.state # "delivered" /\ cache = NoCall
           /\ cache' = c
           /\ result' = [result EXCEPT ![c] = "running"]
           /\ Go(c, "snapshot")
           /\ UNCHANGED <<lock, kind, locked, seen, cred, steps>>
    BY <1>2, EnterAlonePreserves DEF Enter, Go
<1>3. CASE /\ session = "claimed" /\ rec.state # "delivered" /\ cache # NoCall
           /\ seen' = [seen EXCEPT ![c] = None]
           /\ result' = [result EXCEPT ![c] = cache]
           /\ Go(c, "await")
           /\ UNCHANGED <<memory, kind, locked, cred, steps>>
    BY <1>3, EnterSharedPreserves DEF Enter, Go
<1> QED BY <1>1, <1>2, <1>3 DEF Enter

\* The shared promise has settled: its secret is returned.
LEMMA AwaitPreserves ==
    ASSUME Inv, NEW c \in Calls, Await(c)
    PROVE  Inv'
<1>1. CASE Fail(c)
    BY <1>1, StopPreserves DEF Await
<1>2. CASE result[result[c]] = "resolved" /\ Resolve(c, cred[result[c]])
  <2> DEFINE r == result[c]
  <2>1. /\ pc[c] = "await" /\ r \in Calls /\ PhaseOf(c) /\ OwnerOf(c)
        /\ kind[c] \in Completing /\ (kind[c] = "claim" => locked[c])
      BY DEF Await, Inv, Phased, PhaseOf, Owned
  <2>2. r \notin {"none", "running", "failed", "resolved"} /\ r # c
      BY <1>2, <2>1, CallsAreNoResults
  <2>3. /\ result' = [result EXCEPT ![c] = "resolved"]
        /\ cred' = [cred EXCEPT ![c] = cred[r]]
        /\ pc' = [pc EXCEPT ![c] = IF locked[c] THEN "check" ELSE "ok"]
        /\ UNCHANGED <<store, memory, kind, locked, seen, steps, ghosts>>
      BY <1>2 DEF Await, Resolve, Go
  <2>4. /\ result'[c] = "resolved" /\ cred'[c] = cred[r]
        /\ pc'[c] \in {"check", "ok"} /\ (pc'[c] = "check" => locked[c])
        /\ \A d \in Calls \ {c} : /\ pc'[d] = pc[d] /\ result'[d] = result[d]
                                  /\ cred'[d] = cred[d]
      BY <2>3 DEF Inv, TypeOK
  <2> HIDE DEF r
  <2>5. ResolvedIds' = ResolvedIds
    <3>1. result[r] = "resolved" /\ result[c] # "resolved"
        BY <1>2, <2>2 DEF r
    <3> QED BY <2>1, <2>2, <2>4, <3>1 DEF ResolvedIds
  <2>6. /\ Unshared' <=> Unshared
        /\ Forgotten' <=> Forgotten
        /\ StrayFlies' => StrayFlies
      BY <2>1, <2>3, <2>4 DEF Unshared, Stray, Forgotten, StrayFlies, Over
  <2>7. \A d \in Calls : Runs(d)' <=> Runs(d)
      BY <2>1, <2>4 DEF Runs, BodyPhases
  <2>8. /\ cache # c
        /\ \A d \in Calls : d # c /\ pc[d] = "await" =>
              /\ result'[d] = result[d] /\ result[d] \in Calls
              /\ result'[result'[d]] = result[result[d]]
              /\ cred'[result'[d]] = cred[result[d]]
    <3>1. result[c] \notin {"running", "failed", "resolved"}
        BY <2>2 DEF r
    <3> QED BY <2>4, <3>1, NoPromise
  <2>9. TypeOK'
    <3>1. pc' \in [Calls -> Phases]
        BY <2>3 DEF Inv, TypeOK, Phases
    <3>2. result' \in [Calls -> {"none", "running", "failed", "resolved"} \cup Calls]
        BY <2>3 DEF Inv, TypeOK
    <3>3. cred' \in [Calls -> Nat]
        BY <2>1, <2>3 DEF Inv, TypeOK
    <3> QED BY <2>3, <3>1, <3>2, <3>3 DEF Inv, TypeOK
  <2>10. Phased'
    <3>1. ASSUME NEW d \in Calls PROVE PhaseOf(d)'
      <4>1. PhaseOf(d) /\ cred'[d] <= lastId' /\ IsRecord(seen[d])'
          BY <2>1, <2>3, <2>4 DEF Inv, Phased, PhaseOf, IsRecord
      <4>2. CASE d = c
          BY <2>1, <2>3, <2>4, <4>1, <4>2 DEF PhaseOf, BodyPhases
      <4>3. CASE d # c
          BY <2>3, <2>4, <2>8, <4>1, <4>3 DEF PhaseOf
      <4> QED BY <4>2, <4>3
    <3> QED BY <2>3, <3>1 DEF Inv, Phased, IsRecord
  <2>11. Owned'
    <3>1. ASSUME NEW d \in Calls PROVE OwnerOf(d)'
      <4>1. OwnerOf(d)
          BY DEF Inv, Owned
      <4>2. CASE d = c
          BY <2>1, <2>3, <2>4, <4>2 DEF OwnerOf, Completing, BodyPhases
      <4>3. CASE d # c
          BY <2>3, <2>4, <2>5, <2>7, <2>8, <4>1, <4>3 DEF OwnerOf
      <4> QED BY <4>2, <4>3
    <3>2. session # "pending"
      <4>1. result[c] # "none"
          BY <2>2 DEF r
      <4> QED BY <4>1 DEF Inv, Owned
    <3>3. cache' # NoCall => \/ result'[cache'] = "running" /\ Runs(cache)'
                             \/ result'[cache'] = "resolved"
        BY <2>3, <2>4, <2>7, <2>8 DEF Inv, Owned, TypeOK
    <3> QED BY <2>3, <3>1, <3>2, <3>3 DEF Owned
  <2>12. CASE Unshared
      BY <2>6, <2>9, <2>10, <2>11, <2>12 DEF Inv, Shared, Recorded, Tracked,
         RecordTracksActive, SingleFlight
  <2>13. CASE ~Unshared
    <3>1. Resolved(cache)' <=> Resolved(cache)
        BY <2>3, <2>4, <2>8 DEF Resolved, Inv, TypeOK
    <3>2. Shared'
      <4>1. ASSUME NEW d \in Calls PROVE ShareOf(d)'
        <5>1. ShareOf(d)
            BY <2>13 DEF Inv, Shared
        <5>2. CASE d = c
          <6>1. ~Forgotten /\ locked[c] => cache = r /\ result[r] = "resolved"
              BY <1>2, <2>1, <5>1, <5>2 DEF ShareOf, r
          <6> QED BY <2>1, <2>2, <2>3, <2>4, <2>6, <3>1, <5>2, <6>1, NoCallIsNoCall
                  DEF ShareOf, Resolved, BodyPhases
        <5>3. CASE d # c
            BY <2>3, <2>4, <2>6, <2>8, <3>1, <5>1, <5>3 DEF ShareOf
        <5> QED BY <5>2, <5>3
      <4> QED BY <2>3, <2>5, <2>6, <2>13, <3>1, <4>1 DEF Inv, Shared
    <3>3. Recorded'
      <4>1. ASSUME NEW d \in Calls PROVE RecordOf(d)'
        <5>1. RecordOf(d)
            BY <2>13 DEF Inv, Recorded
        <5>2. CASE d = c
            BY <2>4, <5>2 DEF RecordOf
        <5>3. CASE d # c
            BY <2>3, <2>4, <2>5, <5>1, <5>3 DEF RecordOf
        <5> QED BY <5>2, <5>3
      <4> QED BY <2>3, <2>5, <2>13, <4>1 DEF Inv, Recorded
    <3>4. Tracked'
      <4>1. ASSUME NEW d \in Calls, ~foreign PROVE TrackOf(d)'
        <5>1. TrackOf(d)
            BY <2>13, <4>1 DEF Inv, Tracked
        <5>2. CASE d = c
          <6>1. locked[c] => active = cred[r]
              BY <1>2, <2>1, <5>1, <5>2 DEF TrackOf, r
          <6> QED BY <2>3, <2>4, <5>2, <6>1 DEF TrackOf
        <5>3. CASE d # c
            BY <2>3, <2>4, <2>8, <5>1, <5>3 DEF TrackOf
        <5> QED BY <5>2, <5>3
      <4>2. ~foreign /\ Resolved(cache)' => active' = cred'[cache']
          BY <2>3, <2>4, <2>8, <2>13, <3>1 DEF Inv, Tracked, Resolved, TypeOK
      <4> QED BY <2>3, <2>13, <4>1, <4>2 DEF Tracked
    <3>5. RecordTracksActive'
        BY <2>3, <2>6, <2>13 DEF Inv, RecordTracksActive
    <3>6. SingleFlight'
        BY <2>6, <2>7, <2>13 DEF Inv, SingleFlight, Runs
    <3> QED BY <2>9, <2>10, <2>11, <3>2, <3>3, <3>4, <3>5, <3>6 DEF Inv
  <2> QED BY <2>12, <2>13
<1> QED BY <1>1, <1>2 DEF Await

\* The shared promise is forgotten: from now on only the lock keeps completions
\* apart, and nothing is claimed of what runs outside it.
LEMMA StartForgetPreserves ==
    ASSUME Inv, NEW c \in Calls, StartForget(c)
    PROVE  Inv'
<1>1. PICK p \in {"forget", "ok"} : pc' = [pc EXCEPT ![c] = p]
    BY DEF StartForget, Go
<1>2. /\ pc[c] = "idle" /\ kind' = [kind EXCEPT ![c] = "forget"] /\ cache' = NoCall
      /\ UNCHANGED <<store, lock, locked, seen, cred, steps, result, ghosts>>
    BY DEF StartForget
<1>3. /\ pc'[c] = p /\ kind'[c] = "forget"
      /\ \A d \in Calls \ {c} : pc'[d] = pc[d] /\ kind'[d] = kind[d]
    BY <1>1, <1>2 DEF Inv, TypeOK
<1>4. PhaseOf(c) /\ kind[c] = "none" /\ result[c] = "none" /\ steps[c] = 0
    BY <1>2 DEF Inv, Phased, PhaseOf, Phases
<1>5. ResolvedIds' = ResolvedIds /\ Forgotten'
    BY <1>2, <1>3 DEF ResolvedIds, Forgotten
<1>6. Unshared => Unshared'
  <2>1. Stray => Stray'
      BY <1>2, <1>3, <1>4 DEF Stray
  <2> QED BY <1>5, <2>1 DEF Unshared, Forgotten
<1>7. \A d \in Calls : Runs(d)' <=> Runs(d)
    BY <1>2, <1>3 DEF Runs, BodyPhases
<1>8. TypeOK'
  <2>1. pc' \in [Calls -> Phases]
      BY <1>1 DEF Inv, TypeOK, Phases
  <2>2. kind' \in [Calls -> Completing \cup {"ack", "forget", "none"}]
      BY <1>2 DEF Inv, TypeOK
  <2> QED BY <1>2, <2>1, <2>2 DEF Inv, TypeOK
<1>9. Phased'
  <2>1. ASSUME NEW d \in Calls PROVE PhaseOf(d)'
    <3>1. PhaseOf(d) /\ IsRecord(seen[d])' /\ cred'[d] <= lastId'
        BY <1>2 DEF Inv, Phased, PhaseOf, IsRecord
    <3>2. CASE d = c
        BY <1>2, <1>3, <1>4, <3>1, <3>2 DEF PhaseOf, BodyPhases, Completing
    <3>3. CASE d # c
        BY <1>2, <1>3, <3>1, <3>3 DEF PhaseOf
    <3> QED BY <3>2, <3>3
  <2> QED BY <1>2, <2>1 DEF Inv, Phased, IsRecord
<1>10. Owned'
  <2>1. ASSUME NEW d \in Calls PROVE OwnerOf(d)'
    <3>1. OwnerOf(d) /\ (pc[d] = "await" => result[d] \in Calls)
        BY DEF Inv, Owned, Phased, PhaseOf
    <3>2. CASE d = c
        BY <1>3, <3>2 DEF OwnerOf, BodyPhases
    <3>3. CASE d # c
        BY <1>2, <1>3, <1>5, <1>7, <3>1, <3>3 DEF OwnerOf
    <3> QED BY <3>2, <3>3
  <2> QED BY <1>2, <2>1 DEF Inv, Owned
<1>11. CASE Unshared'
    BY <1>8, <1>9, <1>10, <1>11 DEF Inv, Shared, Recorded, Tracked,
       RecordTracksActive, SingleFlight
<1>12. CASE ~Unshared'
  <2>1. ~Unshared
      BY <1>6, <1>12
  <2>2. Shared'
    <3>1. ASSUME NEW d \in Calls PROVE ShareOf(d)'
      <4>1. ShareOf(d)
          BY <2>1 DEF Inv, Shared
      <4>2. CASE d = c
          BY <1>3, <1>5, <4>2 DEF ShareOf, BodyPhases
      <4>3. CASE d # c
          BY <1>2, <1>3, <1>5, <4>1, <4>3 DEF ShareOf
      <4> QED BY <4>2, <4>3
    <3> QED BY <1>5, <3>1 DEF Shared
  <2>3. Recorded'
    <3>1. ASSUME NEW d \in Calls PROVE RecordOf(d)'
      <4>1. RecordOf(d)
          BY <2>1 DEF Inv, Recorded
      <4>2. CASE d = c
          BY <1>2, <1>3, <1>4, <4>2 DEF RecordOf
      <4>3. CASE d # c
          BY <1>2, <1>3, <1>5, <4>1, <4>3 DEF RecordOf
      <4> QED BY <4>2, <4>3
    <3> QED BY <1>2, <1>5, <2>1, <3>1 DEF Inv, Recorded
  <2>4. Tracked'
    <3>1. ASSUME NEW d \in Calls, ~foreign PROVE TrackOf(d)'
      <4>1. TrackOf(d)
          BY <2>1, <3>1 DEF Inv, Tracked
      <4>2. CASE d = c
          BY <1>3, <4>2 DEF TrackOf
      <4>3. CASE d # c
          BY <1>2, <1>3, <4>1, <4>3 DEF TrackOf
      <4> QED BY <4>2, <4>3
    <3> QED BY <1>2, <3>1 DEF Tracked, Resolved
  <2>5. RecordTracksActive'
      BY <1>2, <2>1 DEF Inv, RecordTracksActive
  <2>6. SingleFlight'
      BY <1>7, <2>1 DEF Inv, SingleFlight, Runs
  <2> QED BY <1>8, <1>9, <1>10, <2>2, <2>3, <2>4, <2>5, <2>6 DEF Inv
<1> QED BY <1>11, <1>12

\* No call runs #complete when a delivery is acknowledged: inside the lock the
\* lock keeps it away, outside its promise is the shared one and no secret of
\* the record's credential has been returned yet.
LEMMA NobodyRunsAtDelivery ==
    ASSUME Inv, ~Unshared, NEW c \in Calls, pc[c] = "ack", session = "claimed",
           rec \in {Pending(cred[c]), Delivered(cred[c])}, NEW d \in Calls
    PROVE  /\ lock = c
           /\ ~Runs(d)
           /\ locked[d] => pc[d] \notin {"await", "check"}
<1>1. kind[c] = "ack" /\ locked[c] /\ cred[c] \in ResolvedIds /\ lock = c
    BY DEF Inv, Phased, PhaseOf, Owned, OwnerOf
<1>2. locked[d] => ~Runs(d) /\ pc[d] \notin {"await", "check"}
    BY <1>1 DEF Inv, Owned, OwnerOf, Runs, BodyPhases
<1>3. ASSUME Runs(d), ~locked[d] PROVE FALSE
  <2>1. kind[d] = "resume" /\ result[d] = "running"
      BY <1>3, Running DEF PhaseOf, Runs, Completing
  <2>2. ~Forgotten /\ StrayFlies
      BY <1>3, <2>1, SharedOrLocked DEF Stray, StrayFlies, Over, Runs, BodyPhases
  <2>3. cache = d /\ rec.state # "delivered"
      BY <1>3, <2>2 DEF Inv, Shared, ShareOf, Runs
  <2>4. rec.state = "pending" /\ rec.id = cred[c]
      BY <2>3 DEF Pending, Delivered
  <2>5. Resolved(cache)
      BY <1>1, <2>2, <2>4 DEF Inv, Shared
  <2> QED BY <2>1, <2>3, <2>5 DEF Resolved
<1> QED BY <1>1, <1>2, <1>3

\* The delivery is recorded.
LEMMA DeliverPreserves ==
    ASSUME Inv, NEW c \in Calls, pc[c] = "ack", session = "claimed",
           rec \in {Pending(cred[c]), Delivered(cred[c])},
           rec' = Delivered(cred[c]), cache' = NoCall,
           lock' = IF lock = c THEN NoCall ELSE lock,
           pc' = [pc EXCEPT ![c] = "ok"],
           UNCHANGED <<session, active, reserved, lastId, locals, ghosts>>
    PROVE  Inv'
<1>1. pc'[c] = "ok" /\ \A d \in Calls \ {c} : pc'[d] = pc[d]
    BY DEF Inv, TypeOK
<1>2. kind[c] = "ack" /\ PhaseOf(c) /\ OwnerOf(c) /\ result[c] = "none"
    BY DEF Inv, Phased, PhaseOf, Owned
<1>3. /\ ResolvedIds' = ResolvedIds /\ (Forgotten' <=> Forgotten)
      /\ Unshared' <=> Unshared
    BY DEF ResolvedIds, Forgotten, Unshared, Stray
<1>4. Runs(c)' = FALSE /\ \A d \in Calls \ {c} : Runs(d)' <=> Runs(d)
    BY <1>1 DEF Runs, BodyPhases
<1>5. /\ rec'.state = "delivered" /\ rec'.id = cred[c] /\ rec'.target = 0
      /\ rec' \in Records /\ rec' # None
      /\ rec.state \in {"pending", "delivered"} /\ rec.id = cred[c]
    BY DEF Pending, Delivered, Records, None, Inv, TypeOK
<1>6. TypeOK'
  <2>1. pc' \in [Calls -> Phases]
      BY DEF Inv, TypeOK, Phases
  <2> QED BY <1>5, <2>1 DEF Inv, TypeOK
<1>7. Phased'
  <2>1. IsRecord(rec)'
      BY <1>5 DEF Inv, Phased, IsRecord
  <2>2. ASSUME NEW d \in Calls PROVE PhaseOf(d)'
    <3>1. PhaseOf(d) /\ IsRecord(seen[d])' /\ cred'[d] <= lastId'
        BY DEF Inv, Phased, PhaseOf, IsRecord
    <3>2. CASE d = c
        BY <1>1, <1>2, <3>1, <3>2 DEF PhaseOf, BodyPhases, Completing
    <3>3. CASE d # c
        BY <1>1, <3>1, <3>3 DEF PhaseOf
    <3> QED BY <3>2, <3>3
  <2> QED BY <2>1, <2>2 DEF Inv, Phased
<1>8. Owned'
  <2>1. ASSUME NEW d \in Calls PROVE OwnerOf(d)'
    <3>1. OwnerOf(d) /\ (pc[d] = "await" => result[d] \in Calls)
        BY DEF Inv, Owned, Phased, PhaseOf
    <3>2. CASE d = c
        BY <1>1, <1>2, <1>3, <3>1, <3>2 DEF OwnerOf, BodyPhases
    <3>3. CASE d # c
      <4>1. \A e \in Calls : Runs(e) => Runs(e)'
          BY <1>4 DEF Runs, BodyPhases
      <4> QED BY <1>1, <1>3, <3>1, <3>3, <4>1 DEF OwnerOf
    <3> QED BY <3>2, <3>3
  <2> QED BY <2>1 DEF Inv, Owned
<1>9. CASE Unshared
    BY <1>3, <1>6, <1>7, <1>8, <1>9 DEF Inv, Shared, Recorded, Tracked,
       RecordTracksActive, SingleFlight
<1>10. CASE ~Unshared
  <2>1. \A d \in Calls : ~Runs(d)' /\ (locked[d] => pc'[d] \notin {"await", "check"})
      BY <1>1, <1>4, <1>10, NobodyRunsAtDelivery
  <2>2. \A d \in Calls : pc[d] = "check" => locked[d]
      BY DEF Inv, Phased, PhaseOf
  <2>3. Shared'
      BY <1>1, <1>5, <2>1, <2>2 DEF Shared, ShareOf, Runs
  <2>4. Recorded'
    <3>1. ASSUME NEW d \in Calls PROVE RecordOf(d)'
      <4>1. RecordOf(d) /\ rec' # Pending(cred[d])
          BY <1>5, <1>10 DEF Inv, Recorded, Pending
      <4> QED BY <2>1, <4>1 DEF RecordOf, Runs, BodyPhases
    <3> QED BY <1>5, <3>1 DEF Recorded
  <2>5. Tracked'
    <3>1. ASSUME NEW d \in Calls, ~foreign PROVE TrackOf(d)'
      <4>1. TrackOf(d)
          BY <1>10, <3>1 DEF Inv, Tracked
      <4> QED BY <1>1, <2>1, <2>2, <4>1 DEF TrackOf, Runs, BodyPhases
    <3> QED BY <3>1 DEF Tracked, Resolved
  <2>6. RecordTracksActive'
    <3>1. ~foreign => active = rec.id
        BY <1>5, <1>10 DEF Inv, RecordTracksActive
    <3> QED BY <1>5, <3>1 DEF RecordTracksActive
  <2>7. SingleFlight'
      BY <2>1 DEF SingleFlight, Runs
  <2> QED BY <1>6, <1>7, <1>8, <2>3, <2>4, <2>5, <2>6, <2>7 DEF Inv
<1> QED BY <1>9, <1>10

\* An acknowledgement records the delivery or fails.
LEMMA AcknowledgePreserves ==
    ASSUME Inv, NEW c \in Calls, Acknowledge(c)
    PROVE  Inv'
<1>1. CASE /\ session = "claimed" /\ PutDelivered(cred[c])
           /\ cache' = NoCall
           /\ Unlock(c) /\ Go(c, "ok")
           /\ UNCHANGED locals
    BY <1>1, DeliverPreserves DEF Acknowledge, PutDelivered, Unlock, Go
<1>2. CASE Fail(c) /\ UNCHANGED rec
    BY <1>2, StopPreserves DEF Acknowledge
<1> QED BY <1>1, <1>2 DEF Acknowledge

\* After a crash every call is over, nothing is shared and the lock is free.
LEMMA CrashPreserves ==
    ASSUME Inv, Crash
    PROVE  Inv'
<1>1. /\ cache' = NoCall /\ lock' = NoCall
      /\ pc' = [c \in Calls |-> IF Over(c) THEN pc[c] ELSE "failed"]
      /\ UNCHANGED <<store, locals, mutations, foreign, lost>>
    BY DEF Crash
<1>2. \A d \in Calls : /\ pc'[d] \in {"idle", "ok", "failed"}
                       /\ pc'[d] # "failed" => pc'[d] = pc[d]
    BY <1>1 DEF Over
<1>3. /\ ResolvedIds' = ResolvedIds /\ (Forgotten' <=> Forgotten)
      /\ Unshared' <=> Unshared
    BY <1>1 DEF ResolvedIds, Forgotten, Unshared, Stray
<1>4. TypeOK'
  <2>1. pc' \in [Calls -> Phases]
      BY <1>1, <1>2 DEF Phases
  <2>2. crashes' \in Nat
      BY DEF Crash, Inv, TypeOK
  <2> QED BY <1>1, <2>1, <2>2 DEF Inv, TypeOK
<1>5. Phased'
  <2>1. ASSUME NEW d \in Calls PROVE PhaseOf(d)'
    <3>1. PhaseOf(d) /\ IsRecord(seen[d])' /\ cred'[d] <= lastId'
        BY <1>1 DEF Inv, Phased, PhaseOf, IsRecord
    <3> QED BY <1>1, <1>2, <3>1 DEF PhaseOf, BodyPhases
  <2> QED BY <1>1, <2>1 DEF Inv, Phased, IsRecord
<1>6. Owned'
  <2>1. ASSUME NEW d \in Calls PROVE OwnerOf(d)'
    <3>1. OwnerOf(d)
        BY DEF Inv, Owned
    <3> QED BY <1>1, <1>2, <1>3, <3>1 DEF OwnerOf, BodyPhases
  <2> QED BY <1>1, <2>1 DEF Inv, Owned
<1>7. CASE Unshared
    BY <1>3, <1>4, <1>5, <1>6, <1>7 DEF Inv, Shared, Recorded, Tracked,
       RecordTracksActive, SingleFlight
<1>8. CASE ~Unshared
  <2>1. Shared'
    <3>1. \A d \in Calls : ShareOf(d)'
        BY <1>2 DEF ShareOf, BodyPhases
    <3>2. ~StrayFlies'
        BY <1>2 DEF StrayFlies, Over
    <3> QED BY <3>1, <3>2 DEF Shared
  <2>2. Recorded'
    <3>1. ASSUME NEW d \in Calls PROVE RecordOf(d)'
      <4>1. RecordOf(d)
          BY <1>8 DEF Inv, Recorded
      <4> QED BY <1>1, <1>2, <4>1 DEF RecordOf
    <3> QED BY <1>1, <1>3, <1>8, <3>1 DEF Inv, Recorded
  <2>3. Tracked'
    <3>1. \A d \in Calls : TrackOf(d)'
        BY <1>2 DEF TrackOf
    <3> QED BY <1>1, <3>1 DEF Tracked, Resolved
  <2>4. RecordTracksActive'
      BY <1>1, <1>3, <1>8 DEF Inv, RecordTracksActive
  <2>5. SingleFlight'
      BY <1>2 DEF SingleFlight, BodyPhases
  <2> QED BY <1>4, <1>5, <1>6, <2>1, <2>2, <2>3, <2>4, <2>5 DEF Inv
<1> QED BY <1>7, <1>8

-----------------------------------------------------------------------------
(* The theorems. *)

\* Nothing has started.
LEMMA InitEstablishes ==
    ASSUME Init
    PROVE  Inv
<1>1. \A c \in Calls : /\ pc[c] = "idle" /\ kind[c] = "none" /\ cred[c] = 0
                       /\ seen[c] = None /\ result[c] = "none" /\ steps[c] = 0
                       /\ ~locked[c]
    BY DEF Init
<1>2. IsRecord(None)
    BY DEF Init, IsRecord, None, Records
<1>3. TypeOK
  <2>1. 0 \in 0..MaxRecoverySteps /\ None \in Records
      BY <1>2, BoundsAreNat DEF IsRecord
  <2>2. pc \in [Calls -> Phases] /\ steps \in [Calls -> 0..MaxRecoverySteps]
      BY <2>1 DEF Init, Phases
  <2>3. /\ cred \in [Calls -> Nat] /\ seen \in [Calls -> Records]
        /\ kind \in [Calls -> Completing \cup {"ack", "forget", "none"}]
        /\ result \in [Calls -> {"none", "running", "failed", "resolved"} \cup Calls]
        /\ locked \in [Calls -> BOOLEAN]
      BY <2>1 DEF Init
  <2> QED BY <2>1, <2>2, <2>3 DEF Init, TypeOK
<1>4. Phased
    BY <1>1, <1>2 DEF Init, Phased, PhaseOf, BodyPhases
<1>5. Owned
    BY <1>1 DEF Init, Owned, OwnerOf, BodyPhases
<1>6. Shared
    BY <1>1 DEF Init, Shared, ShareOf, BodyPhases, None
<1>7. Recorded
    BY <1>1 DEF Init, Recorded, RecordOf, None
<1>8. Tracked
    BY <1>1 DEF Init, Tracked, TrackOf, Resolved
<1>9. RecordTracksActive /\ SingleFlight
    BY <1>1 DEF Init, RecordTracksActive, SingleFlight, BodyPhases, None
<1> QED BY <1>3, <1>4, <1>5, <1>6, <1>7, <1>8, <1>9 DEF Inv

\* Every step preserves the invariant.
LEMMA NextPreserves ==
    ASSUME Inv, [Next]_vars
    PROVE  Inv'
<1>1. CASE UNCHANGED vars
    BY <1>1 DEF vars, Inv, TypeOK, Phased, PhaseOf, IsRecord, Owned, OwnerOf, Runs,
       ResolvedIds, Resolved, Shared, ShareOf, StrayFlies, Over, Forgotten, Unshared,
       Stray, Recorded, RecordOf, Tracked, TrackOf, RecordTracksActive, SingleFlight
<1>2. ASSUME NEW c \in Calls, CallStep(c) PROVE Inv'
  <2>1. CASE CompletionStep(c)
      BY <2>1, EnterPreserves, AwaitPreserves, SnapshotPreserves, ReservePreserves,
         IssuePreserves, SetPendingPreserves, ReadActivePreserves,
         BeginRecoveryPreserves, LoopPreserves, ComparePreserves,
         AdvanceRecoveryPreserves, RotatePreserves, FinishRecoveryPreserves,
         ConfirmPreserves, CheckPreserves DEF CompletionStep
  <2> QED BY <1>2, <2>1, ClaimSessionPreserves, TransferReservationPreserves,
             AcquireLockPreserves, AckReadPreserves, AckActivePreserves,
             AcknowledgePreserves, ForgetRecordPreserves DEF CallStep
<1> QED BY <1>1, <1>2, StartsPreserve, StartForgetPreserves, SessionGonePreserves,
           RecordExpiresPreserves, MutatePreserves, CrashPreserves DEF Next

\* In every reachable state the record tells which credential is active, one
\* call at most runs #complete, and the lock and the shared promise are held by
\* the calls that must hold them.
THEOREM Inductive == Spec => []Inv
<1>1. Init => Inv
    BY InitEstablishes
<1>2. Inv /\ [Next]_vars => Inv'
    BY NextPreserves
<1> QED BY <1>1, <1>2, PTL DEF Spec

-----------------------------------------------------------------------------
(* What a step may do. *)

\* The acknowledgement is the only step that makes a record delivered.
LEMMA OnlyAcknowledgeDelivers ==
    ASSUME Inv, Next, rec.state # "delivered", rec'.state = "delivered"
    PROVE  \E c \in Calls :
              /\ pc[c] = "ack" /\ session = "claimed" /\ PutDelivered(cred[c])
<1>1. None.state = "none" /\ \A id : Pending(id).state = "pending"
      /\ \A s, t : Recovering(s, t).state = "recovering"
    BY DEF None, Pending, Recovering
<1>2. rec' # rec
    OBVIOUS
<1>3. ASSUME NEW c \in Calls, CallStep(c)
      PROVE  pc[c] = "ack" /\ session = "claimed" /\ PutDelivered(cred[c])
  <2>1. CASE CompletionStep(c)
    <3>1. CASE SetPending(c)
        BY <1>1, <1>2, <3>1 DEF SetPending, PutPending
    <3>2. CASE BeginRecovery(c)
        BY <1>1, <1>2, <3>2 DEF BeginRecovery, PutRecovering
    <3>3. CASE AdvanceRecovery(c) \/ FinishRecovery(c)
        BY <1>1, <1>2, <3>3 DEF AdvanceRecovery, FinishRecovery, SwapRecord
    <3> QED BY <1>2, <2>1, <3>1, <3>2, <3>3
            DEF CompletionStep, Enter, Await, Snapshot, Reserve, Issue, ReadActive,
                Loop, Compare, Rotate, Confirm, Check
  <2> QED BY <1>1, <1>2, <1>3, <2>1
          DEF CallStep, ClaimSession, TransferReservation, AcquireLock, AckRead,
              AckActive, Acknowledge, ForgetRecord
<1> QED BY <1>1, <1>2, <1>3
        DEF Next, StartClaim, StartResume, StartForget, StartAck, StartWrapped, Start,
            SessionGone, RecordExpires, Mutate, Crash

\* A delivery is recorded only while its credential is the active one.
THEOREM DeliveriesAreActive == Spec => AcknowledgedIsActive
<1>1. ASSUME Inv, Next, rec.state = "pending", rec'.state = "delivered", ~Unshared
      PROVE  active = rec.id
  <2>1. PICK c \in Calls :
            pc[c] = "ack" /\ session = "claimed" /\ PutDelivered(cred[c])
      BY <1>1, OnlyAcknowledgeDelivers
  <2>2. rec = Pending(cred[c]) /\ rec.id = cred[c]
      BY <1>1, <2>1 DEF PutDelivered, Pending, Delivered
  <2>3. locked[c]
      BY <1>1, <2>1 DEF Inv, Phased, PhaseOf, Owned, OwnerOf
  <2>4. RecordOf(c)
      BY <1>1 DEF Inv, Recorded
  <2> QED BY <2>1, <2>2, <2>3, <2>4 DEF RecordOf
<1>2. Inv /\ [Next]_vars =>
         [rec.state = "pending" /\ rec'.state = "delivered" /\ ~Unshared
             => active = rec.id]_vars
    BY <1>1
<1> QED BY <1>2, Inductive, PTL DEF Spec, AcknowledgedIsActive

\* The first issue, the rotation of a recovery and the explicit operations are
\* the only steps that change the active credential.
LEMMA OnlyTheseChangeActive ==
    ASSUME Next, active' # active
    PROVE  Mutate \/ \E c \in Calls : Issue(c) \/ Rotate(c)
<1>1. ASSUME NEW c \in Calls, CallStep(c) PROVE Issue(c) \/ Rotate(c)
  <2>1. CASE CompletionStep(c)
      BY <2>1 DEF CompletionStep, Enter, Await, Snapshot, Reserve, SetPending,
         ReadActive, BeginRecovery, Loop, Compare, AdvanceRecovery, FinishRecovery,
         Confirm, Check
  <2> QED BY <1>1, <2>1
          DEF CallStep, ClaimSession, TransferReservation, AcquireLock, AckRead,
              AckActive, Acknowledge, ForgetRecord
<1> QED BY <1>1
        DEF Next, StartClaim, StartResume, StartForget, StartAck, StartWrapped, Start,
            SessionGone, RecordExpires, Crash

\* While there is a record, a completion changes the credential only from the
\* record's source to the record's target.
THEOREM RecoveriesRespectMutations == Spec => RecoveryRespectsMutations
<1>1. ASSUME Inv, Next, active' # active, mutations' = mutations,
             rec.state # "none", ~Unshared
      PROVE  active = rec.id /\ active' = rec.target
  <2>1. ~Mutate
      BY <1>1 DEF Mutate, Inv, TypeOK
  <2>2. PICK c \in Calls : Issue(c) \/ Rotate(c)
      BY <1>1, <2>1, OnlyTheseChangeActive
  <2>3. RecordOf(c) /\ rec # None
      BY <1>1 DEF Inv, Recorded, None
  <2>4. CASE Issue(c)
      BY <2>3, <2>4 DEF Issue, RecordOf
  <2>5. CASE Rotate(c)
      BY <1>1, <2>3, <2>5 DEF Rotate, RecordOf
  <2> QED BY <2>2, <2>4, <2>5
<1>2. Inv /\ [Next]_vars =>
         [/\ active' # active /\ mutations' = mutations
          /\ rec.state # "none" /\ ~Unshared
          => active = rec.id /\ active' = rec.target]_vars
    BY <1>1
<1> QED BY <1>2, Inductive, PTL DEF Spec, RecoveryRespectsMutations

\* A step moves the phase of one call, unless it is a crash.
LEMMA OnePhaseMoves ==
    ASSUME Inv, Next, crashes' = crashes, NEW c \in Calls,
           kind[c] = "resume", pc[c] \notin {"idle", "failed"}, pc'[c] = "failed"
    PROVE  CompletionStep(c)
<1>1. ~Crash
    BY DEF Crash, Inv, TypeOK
<1>2. pc' # pc
    OBVIOUS
<1>3. PhaseOf(c)
    BY DEF Inv, Phased
<1>4. ASSUME NEW d \in Calls, NEW p, pc' = [pc EXCEPT ![d] = p] PROVE d = c
    BY <1>4 DEF Inv, TypeOK
<1>5. ASSUME NEW d \in Calls, CallStep(d) PROVE CompletionStep(c)
  <2>1. \E p : pc' = [pc EXCEPT ![d] = p]
    <3>1. CASE CompletionStep(d)
        BY <3>1 DEF CompletionStep, Enter, Await, Snapshot, Reserve, Issue, SetPending,
           ReadActive, BeginRecovery, Loop, Compare, AdvanceRecovery, Rotate,
           FinishRecovery, Confirm, Check, Fail, Finish, Resolve, Continue, Go
    <3> QED BY <1>5, <3>1 DEF CallStep, ClaimSession, TransferReservation, AcquireLock,
               AckRead, AckActive, Acknowledge, ForgetRecord, Fail, Finish, Go
  <2>2. d = c
      BY <1>4, <2>1
  <2> QED BY <1>3, <1>5, <2>2
          DEF CallStep, ClaimSession, TransferReservation, AcquireLock, AckRead,
              AckActive, Acknowledge, ForgetRecord, PhaseOf, Go, Inv, TypeOK
<1>6. ASSUME NEW d \in Calls,
             \/ StartClaim(d) \/ StartResume(d) \/ StartForget(d)
             \/ \E id \in Returned : StartAck(d, id)
      PROVE  FALSE
  <2>1. pc[d] = "idle" /\ \E p : pc' = [pc EXCEPT ![d] = p]
      BY <1>6 DEF StartClaim, StartResume, StartForget, StartAck, StartWrapped,
         Start, Go
  <2> QED BY <1>4, <2>1
<1> QED BY <1>1, <1>2, <1>5, <1>6 DEF Next, SessionGone, RecordExpires, Mutate

\* A completion step of a resume that fails has a reason.
LEMMA FailsForAReason ==
    ASSUME Inv, NEW c \in Calls, CompletionStep(c), ~Unshared, pc'[c] = "failed"
    PROVE  \/ foreign \/ lost'
           \/ rec.state = "delivered" \/ session # "claimed"
<1> USE DEF Go, Inv, TypeOK
<1>1. RecordOf(c) /\ (~foreign => TrackOf(c)) /\ PhaseOf(c)
    BY DEF Inv, Recorded, Tracked, Phased
<1>2. pc[c] = "loop" /\ ~foreign /\ ~lost =>
         rec.state = "recovering" /\ steps[c] # MaxRecoverySteps
  <2>1. rec.state = "none" => rec = None
      BY DEF Phased, IsRecord
  <2> QED BY <1>1, <2>1, BoundsAreNat DEF RecordOf, TrackOf
<1>3. pc[c] = "compare" /\ ~foreign =>
         active # 0 /\ (active = seen[c].id \/ active = seen[c].target)
  <2>1. IsRecord(seen[c]) /\ (pc[c] = "compare" => seen[c].state = "recovering")
      BY <1>1 DEF PhaseOf
  <2>2. pc[c] = "compare" => seen[c].id # 0 /\ seen[c].target # 0
      BY <2>1, RecordValues DEF IsRecord
  <2> QED BY <1>1, <2>2 DEF TrackOf
<1>4. CASE Enter(c) \/ Await(c)
  <2>1. \A d \in Calls : result[d] = "failed" => foreign \/ lost
      BY DEF Recorded, RecordOf
  <2>2. pc[c] = "await" => result[c] \in Calls
      BY <1>1 DEF PhaseOf
  <2> QED BY <1>4, <2>1, <2>2 DEF Enter, Await, Resolve
<1>5. CASE Snapshot(c) \/ Reserve(c) \/ Issue(c)
  <2>1. CASE Snapshot(c)
    <3>1. CASE rec.state # "delivered"
      <4>1. rec.state \in {"none", "pending", "recovering"}
          BY <3>1 DEF Records
      <4> QED BY <2>1, <3>1, <4>1 DEF Snapshot
    <3> QED BY <3>1
  <2> QED BY <1>5, <2>1 DEF Reserve, Issue
<1>6. CASE SetPending(c)
  <2>1. CASE Resolve(c, cred[c])
      BY <2>1 DEF Resolve
  <2>2. CASE /\ rec \notin {None, Pending(cred[c])} \/ MayBeRefused
             /\ lost' = (lost \/ MayBeRefused)
      BY <1>1, <1>6, <2>2 DEF SetPending, RecordOf
  <2> QED BY <1>6, <2>1, <2>2 DEF SetPending
<1>7. CASE ReadActive(c)
    BY <1>1, <1>7 DEF ReadActive, TrackOf
<1>8. CASE BeginRecovery(c)
    BY <1>8 DEF BeginRecovery
<1>9. CASE Loop(c)
    BY <1>2, <1>9 DEF Loop
<1>10. CASE Compare(c)
    BY <1>3, <1>10 DEF Compare
<1>11. CASE AdvanceRecovery(c) \/ Rotate(c) \/ FinishRecovery(c)
    BY <1>11 DEF AdvanceRecovery, Rotate, FinishRecovery, Continue
<1>12. CASE Confirm(c)
    BY <1>1, <1>12 DEF Confirm, TrackOf, Resolve
<1>13. CASE Check(c)
    BY <1>1, <1>13 DEF Check, TrackOf, Finish
<1> QED BY <1>4, <1>5, <1>6, <1>7, <1>8, <1>9, <1>10, <1>11, <1>12, <1>13
        DEF CompletionStep

\* A claimed pairing can always be resumed, however often the server crashed.
THEOREM ResumesSucceed == Spec => ResumeSucceeds
<1>1. ASSUME Inv, Next, NEW c \in Calls, kind[c] = "resume",
             pc[c] \notin {"idle", "failed"}, pc'[c] = "failed",
             crashes' = crashes
      PROVE  \/ foreign \/ lost' \/ Unshared
             \/ rec.state = "delivered" \/ session # "claimed"
    BY <1>1, OnePhaseMoves, FailsForAReason
<1>2. Inv /\ [Next]_vars =>
         [\A c \in Calls :
            /\ kind[c] = "resume"
            /\ pc[c] \notin {"idle", "failed"} /\ pc'[c] = "failed"
            /\ crashes' = crashes
            => \/ foreign \/ lost' \/ Unshared
               \/ rec.state = "delivered" \/ session # "claimed"]_vars
    BY <1>1
<1> QED BY <1>2, Inductive, PTL DEF Spec, ResumeSucceeds
=============================================================================
