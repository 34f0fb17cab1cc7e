------------------------ MODULE PairingLedgerProofs ------------------------
(***************************************************************************)
(* Proofs about PairingLedger, for every number of sessions and codes and  *)
(* every time limit: IInv is inductive, so a code pairs one device at most *)
(* and a claim is in time; and a final state is final.                     *)
(***************************************************************************)
EXTENDS PairingLedger, TLAPS

USE LimitsArePositive DEF Times, rows

\* Pruning removes the ripe sessions and keeps the digests of their codes.
LEMMA PrunedLemma ==
    ASSUME TypeOK, NEW at \in Times
    PROVE  /\ Pruned(at) \in [Sessions -> {"none", "pending", "claimed",
                                           "expired", "cancelled"}]
           /\ \A i \in Sessions :
                \/ Pruned(at)[i] = session[i]
                \/ /\ Pruned(at)[i] = "none"
                   /\ code[i] \in TombsAfter(at)
           /\ \A i \in Sessions :
                Pruned(at)[i] # "none" =>
                   Pruned(at)[i] = session[i] /\ ~Ripe(i, at)
           /\ tombs \subseteq TombsAfter(at) /\ TombsAfter(at) \subseteq Codes
BY DEF TypeOK, Pruned, TombsAfter, Ripe

\* A code that becomes a tombstone with a pruning was one already, or is that
\* of a stored session.
LEMMA TombsLemma ==
    ASSUME NEW at, NEW c \in TombsAfter(at)
    PROVE  c \in tombs \/ \E i \in Stored : Ripe(i, at) /\ code[i] = c
BY DEF TombsAfter, Stored, Ripe

\* Codes stay unique over a pruning: a session that stays has no code of a
\* session that goes.
LEMMA PrunedKeepsCodes ==
    ASSUME TypeOK, CodesAreUnique, NEW at \in Times
    PROVE  \A i \in Sessions :
              Pruned(at)[i] # "none" =>
                 /\ i \in Stored
                 /\ code[i] \notin TombsAfter(at)
                 /\ \A j \in Sessions : Pruned(at)[j] # "none" /\ code[i] = code[j]
                                        => i = j
<1> SUFFICES ASSUME NEW i \in Sessions, Pruned(at)[i] # "none"
             PROVE  /\ i \in Stored
                    /\ code[i] \notin TombsAfter(at)
                    /\ \A j \in Sessions : Pruned(at)[j] # "none" /\ code[i] = code[j]
                                           => i = j
    OBVIOUS
<1>1. i \in Stored /\ ~Ripe(i, at)
    BY PrunedLemma DEF Stored
<1>2. code[i] \notin TombsAfter(at)
    BY <1>1, TombsLemma DEF CodesAreUnique
<1>3. ASSUME NEW j \in Sessions, Pruned(at)[j] # "none", code[i] = code[j]
      PROVE  i = j
    BY <1>1, <1>3, PrunedLemma DEF CodesAreUnique, Stored
<1> QED BY <1>1, <1>2, <1>3

-----------------------------------------------------------------------------

LEMMA InitIInv == Init => IInv
BY DEF Init, IInv, TypeOK, CodesAreUnique, CodeIsSingleUse, DeviceIffClaimed,
       ClaimedInTime, Stored

\* Pruning disturbs nothing: what it forgets is remembered as a tombstone.
LEMMA PruneIInv ==
    ASSUME IInv, NEW at \in Times, Prune(at)
    PROVE  IInv'
<1> USE DEF IInv
<1>1. TypeOK'
    BY PrunedLemma DEF Prune, TypeOK
<1>2. Stored' \subseteq Stored
    BY PrunedLemma DEF Prune, Stored
<1>3. CodesAreUnique'
    BY PrunedKeepsCodes DEF Prune, CodesAreUnique, Stored
<1>4. CodeIsSingleUse'
    BY DEF Prune, CodeIsSingleUse
<1>5. ASSUME NEW i \in Stored'
      PROVE  devices[code[i]] = (IF session'[i] = "claimed" THEN 1 ELSE 0)
    BY <1>2, <1>5, PrunedLemma DEF Prune, DeviceIffClaimed, Stored
<1>6. ASSUME NEW c \in Codes, c \notin tombs', \A i \in Stored' : code[i] # c
      PROVE  devices[c] = 0
    <2>1. \A i \in Stored : code[i] # c
        BY <1>6, PrunedLemma DEF Prune, Stored
    <2>2. c \notin tombs
        BY <1>6, PrunedLemma DEF Prune
    <2> QED BY <2>1, <2>2 DEF DeviceIffClaimed
<1>7. DeviceIffClaimed'
    BY <1>5, <1>6 DEF Prune, DeviceIffClaimed
<1>8. ClaimedInTime'
    BY PrunedLemma DEF Prune, ClaimedInTime, Expires
<1> QED BY <1>1, <1>3, <1>4, <1>7, <1>8

\* A created session has a code that no stored session and no tombstone has,
\* so no device was created with it.
LEMMA CreateIInv ==
    ASSUME IInv, NEW n \in Sessions, NEW c \in Codes, NEW at \in Times,
           Create(n, c, at)
    PROVE  IInv'
<1> USE DEF IInv
<1>1. /\ Pruned(at)[n] = "none"
      /\ c \notin TombsAfter(at)
      /\ \A i \in Sessions : Pruned(at)[i] # "none" => code[i] # c
    BY DEF Create, CodeIsFree
<1>2. /\ session' = [Pruned(at) EXCEPT ![n] = "pending"]
      /\ code' = [code EXCEPT ![n] = c]
      /\ created' = [created EXCEPT ![n] = at]
      /\ tombs' = TombsAfter(at)
      /\ UNCHANGED <<clock, claimed, devices>>
    BY DEF Create
<1>3. TypeOK'
    BY <1>2, PrunedLemma DEF TypeOK
<1>4. \A i \in Sessions \ {n} : /\ session'[i] = Pruned(at)[i]
                                /\ code'[i] = code[i] /\ created'[i] = created[i]
    BY <1>2, PrunedLemma DEF TypeOK
<1>5. session'[n] = "pending" /\ code'[n] = c /\ created'[n] = at
    BY <1>2, PrunedLemma DEF TypeOK
<1>6. \A i \in Stored' : i # n => Pruned(at)[i] # "none" /\ i \in Stored
    BY <1>4, PrunedLemma DEF Stored
<1>7. CodesAreUnique'
    <2>1. ASSUME NEW i \in Stored'
          PROVE  code'[i] \notin tombs'
        BY <1>1, <1>2, <1>4, <1>5, <1>6, PrunedKeepsCodes DEF Stored
    <2>2. ASSUME NEW i \in Stored', NEW j \in Stored', code'[i] = code'[j]
          PROVE  i = j
        BY <2>2, <1>1, <1>4, <1>5, <1>6, PrunedKeepsCodes DEF Stored
    <2> QED BY <2>1, <2>2 DEF CodesAreUnique
<1>8. CodeIsSingleUse'
    BY <1>2 DEF CodeIsSingleUse
<1>9. \A i \in Stored : code[i] = c => i = n \/ Pruned(at)[i] = "none"
    BY <1>1 DEF Stored
<1>10. c \notin tombs /\ \A i \in Stored : code[i] # c
    BY <1>1, PrunedLemma DEF Stored
<1>11. devices[c] = 0
    BY <1>10 DEF DeviceIffClaimed
<1>12. ASSUME NEW i \in Stored'
       PROVE  devices'[code'[i]] = (IF session'[i] = "claimed" THEN 1 ELSE 0)
    <2>1. CASE i = n
        BY <2>1, <1>2, <1>5, <1>11
    <2>2. CASE i # n
        BY <2>2, <1>2, <1>4, <1>6, PrunedLemma DEF DeviceIffClaimed, Stored
    <2> QED BY <2>1, <2>2
<1>13. ASSUME NEW k \in Codes, k \notin tombs', \A i \in Stored' : code'[i] # k
       PROVE  devices'[k] = 0
    <2>1. k \notin tombs
        BY <1>2, <1>13, PrunedLemma
    <2>2. ASSUME NEW i \in Stored, code[i] = k
          PROVE  FALSE
        <3>1. Pruned(at)[i] # "none"
            BY <2>2, <1>2, <1>13, PrunedLemma DEF Stored
        <3>2. i \in Stored' /\ code'[i] = k
            BY <2>2, <3>1, <1>1, <1>4 DEF Stored
        <3> QED BY <3>2, <1>13
    <2> QED BY <2>1, <2>2, <1>2 DEF DeviceIffClaimed
<1>14. DeviceIffClaimed'
    BY <1>12, <1>13 DEF DeviceIffClaimed
<1>15. ClaimedInTime'
    BY <1>2, <1>4, <1>5, PrunedLemma DEF ClaimedInTime, Expires
<1> QED BY <1>3, <1>7, <1>8, <1>14, <1>15

\* A claim finds the only stored session with the code, and it is pending: no
\* device was created with the code before.
LEMMA ClaimIInv ==
    ASSUME IInv, NEW c \in Codes, Claim(c)
    PROVE  IInv'
<1> USE DEF IInv
<1>1. PICK i \in Sessions :
        /\ session[i] = "pending" /\ code[i] = c
        /\ IF clock >= Expires(i)
           THEN /\ session' = [session EXCEPT ![i] = "expired"]
                /\ UNCHANGED <<claimed, devices>>
           ELSE /\ clock >= created[i]
                /\ session' = [session EXCEPT ![i] = "claimed"]
                /\ claimed' = [claimed EXCEPT ![i] = clock]
                /\ devices' = [devices EXCEPT ![c] = @ + 1]
        /\ clock' \in Times
        /\ UNCHANGED <<code, created, tombs>>
    BY DEF Claim
<1>2. i \in Stored /\ devices[c] = 0 /\ c \notin tombs
    BY <1>1 DEF Stored, DeviceIffClaimed, CodesAreUnique
<1>3. TypeOK'
    BY <1>1 DEF TypeOK
<1>4. Stored' = Stored
    BY <1>1, <1>2 DEF Stored, TypeOK
<1>5. CodesAreUnique'
    BY <1>1, <1>4 DEF CodesAreUnique
<1>6. CodeIsSingleUse'
    BY <1>1, <1>2 DEF CodeIsSingleUse, TypeOK
<1>7. ASSUME NEW j \in Stored
      PROVE  devices'[code[j]] = (IF session'[j] = "claimed" THEN 1 ELSE 0)
    <2>1. j \in Sessions /\ code[j] \in Codes
        BY DEF Stored, TypeOK
    <2>2. CASE j = i
        BY <2>2, <1>1, <1>2 DEF TypeOK
    <2>3. CASE j # i
        <3>1. code[j] # c
            BY <2>3, <1>1, <1>2 DEF CodesAreUnique
        <3>2. devices'[code[j]] = devices[code[j]] /\ session'[j] = session[j]
            BY <3>1, <2>1, <2>3, <1>1 DEF TypeOK
        <3> QED BY <3>2 DEF DeviceIffClaimed
    <2> QED BY <2>2, <2>3
<1>8. ASSUME NEW k \in Codes, k \notin tombs, \A j \in Stored : code[j] # k
      PROVE  devices'[k] = 0
    <2>1. k # c
        BY <1>8, <1>1, <1>2
    <2>2. devices'[k] = devices[k]
        BY <2>1, <1>1 DEF TypeOK
    <2> QED BY <2>2, <1>8 DEF DeviceIffClaimed
<1>9. DeviceIffClaimed'
    BY <1>1, <1>4, <1>7, <1>8 DEF DeviceIffClaimed
<1>10. ClaimedInTime'
    BY <1>1 DEF ClaimedInTime, Expires, TypeOK
<1> QED BY <1>3, <1>5, <1>6, <1>9, <1>10

\* A pending session that is cancelled or expires stays stored.
LEMMA EndIInv ==
    ASSUME IInv,
           UNCHANGED <<code, created, claimed, tombs, devices>>, clock' \in Times,
           session' \in [Sessions -> {"none", "pending", "claimed", "expired",
                                      "cancelled"}],
           \A i \in Sessions :
              \/ session'[i] = session[i]
              \/ session[i] = "pending" /\ session'[i] \in {"expired", "cancelled"}
    PROVE  IInv'
<1> USE DEF IInv
<1>1. TypeOK'
    BY DEF TypeOK
<1>2. Stored' = Stored
    BY DEF Stored
<1>3. CodesAreUnique' /\ CodeIsSingleUse' /\ ClaimedInTime'
    BY <1>2 DEF CodesAreUnique, CodeIsSingleUse, ClaimedInTime, Expires
<1>4. DeviceIffClaimed'
    BY <1>2 DEF DeviceIffClaimed, Stored
<1> QED BY <1>1, <1>3, <1>4

LEMMA NextIInv ==
    ASSUME IInv, [Next]_vars
    PROVE  IInv'
<1>1. CASE \E i \in Sessions, c \in Codes, at \in Times : Create(i, c, at)
    BY <1>1, CreateIInv
<1>2. CASE \E c \in Codes : Claim(c)
    BY <1>2, ClaimIInv
<1>3. CASE \E i \in Sessions, at \in Times : Cancel(i, at)
    BY <1>3, EndIInv DEF Cancel, IInv, TypeOK
<1>4. CASE \E at \in Times : Expire(at)
    BY <1>4, EndIInv DEF Expire, IInv, TypeOK
<1>5. CASE \E at \in Times : Prune(at)
    BY <1>5, PruneIInv
<1>6. CASE \E t \in Times : Tick(t)
    BY <1>6, EndIInv DEF Tick, IInv, TypeOK
<1>7. CASE UNCHANGED vars
    BY <1>7, EndIInv DEF vars, IInv, TypeOK
<1> QED BY <1>1, <1>2, <1>3, <1>4, <1>5, <1>6, <1>7 DEF Next

-----------------------------------------------------------------------------

\* The whole invariant holds in every reachable state of the repository.
THEOREM LedgerInvariant == Spec => []IInv
BY InitIInv, NextIInv, PTL DEF Spec

\* A code pairs one device at most, whatever was expired, cancelled, pruned or
\* created again in between (claim with the tombstones of #prune).
THEOREM SingleUse == Spec => []CodeIsSingleUse
<1>1. IInv => CodeIsSingleUse BY DEF IInv
<1> QED BY <1>1, LedgerInvariant, PTL

\* A session is claimed in its life by the clock read in claim's transaction,
\* even though that clock may be set back.
THEOREM InTime == Spec => []ClaimedInTime
<1>1. IInv => ClaimedInTime BY DEF IInv
<1> QED BY <1>1, LedgerInvariant, PTL

\* A step of the repository changes a final session only by pruning it, and its
\* identifier comes back only when its code can no longer be used.
LEMMA FinalStep ==
    ASSUME IInv, Next, NEW i \in Sessions,
           session[i] \in {"claimed", "expired", "cancelled"}
    PROVE  /\ session'[i] \in {session[i], "none", "pending"}
           /\ session'[i] = "pending" => code[i] \in tombs'
<1> USE DEF IInv
<1>1. ASSUME NEW n \in Sessions, NEW c \in Codes, NEW at \in Times,
             Create(n, c, at)
      PROVE  /\ session'[i] \in {session[i], "none", "pending"}
             /\ session'[i] = "pending" => code[i] \in tombs'
    <2>1. Pruned(at)[n] = "none" /\ tombs' = TombsAfter(at)
        BY <1>1 DEF Create
    <2>2. i = n => session'[i] = "pending" /\ code[i] \in tombs'
        BY <2>1, <1>1, PrunedLemma DEF Create
    <2>3. i # n => session'[i] \in {session[i], "none"}
        BY <1>1, PrunedLemma DEF Create
    <2> QED BY <2>2, <2>3
<1>2. ASSUME NEW c \in Codes, Claim(c)
      PROVE  session'[i] = session[i]
    BY <1>2 DEF Claim, TypeOK
<1>3. ASSUME NEW n \in Sessions, NEW at \in Times, Cancel(n, at)
      PROVE  session'[i] = session[i]
    BY <1>3 DEF Cancel, TypeOK
<1>4. ASSUME NEW at \in Times, Expire(at) \/ Tick(at)
      PROVE  session'[i] = session[i]
    BY <1>4 DEF Expire, Tick, TypeOK
<1>5. ASSUME NEW at \in Times, Prune(at)
      PROVE  session'[i] \in {session[i], "none"}
    BY <1>5, PrunedLemma DEF Prune
<1> QED BY <1>1, <1>2, <1>3, <1>4, <1>5 DEF Next

\* A claimed, expired or cancelled session is never claimed, cancelled or
\* expired again (the state guards of claim, cancel and expire).
THEOREM FinalStays == Spec => FinalIsFinal
<1>1. ASSUME IInv, [Next]_vars
      PROVE  [\A i \in Sessions : session[i] \in {"claimed", "expired", "cancelled"}
                => session'[i] \in {session[i], "none", "pending"}
                   /\ (session'[i] = "pending" => code[i] \in tombs')]_vars
    BY <1>1, FinalStep
<1> QED BY <1>1, LedgerInvariant, PTL DEF Spec, FinalIsFinal
=============================================================================
