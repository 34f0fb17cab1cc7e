---------------------------- MODULE PairingLedger ----------------------------
(***************************************************************************)
(* The pairing sessions as SqlitePairingSessionRepository keeps them: each *)
(* operation is one immediate transaction, so it is one step here.  It is  *)
(* also what the in-memory repository promises (see PairingSessions).      *)
(*                                                                         *)
(* A claim reads the clock inside its transaction.  The other operations   *)
(* are given a time their caller has read before; the clock may be set     *)
(* back, so that time may be any.                                          *)
(***************************************************************************)
EXTENDS Integers, FiniteSets

CONSTANTS
    Sessions,       \* pairing session identifiers
    Codes,          \* digests of pairing codes
    MaxSessions,    \* maxSessions of the repository
    TTL,            \* life of a pending session
    Retention,      \* claimedRetentionMs
    MaxTime         \* bound of the clock

ASSUME LimitsArePositive == /\ MaxSessions \in Nat \ {0} /\ TTL \in Nat \ {0}
                            /\ Retention \in Nat \ {0} /\ MaxTime \in Nat

VARIABLES
    clock,
    session,    \* the row of a session: its state, or "none"
    code,       \* ... and the digest of its code
    created,    \* ... and the times of its creation, its expiry is TTL later,
    claimed,    \* ... and of its claim
    tombs,      \* digests of the pruned sessions
    devices     \* the number of devices created with a code

rows == <<session, code, created, claimed>>
vars == <<clock, rows, tombs, devices>>

Times   == 0..MaxTime
Stored  == {i \in Sessions : session[i] # "none"}
Expires(i) == created[i] + TTL

Init ==
    /\ clock = 0
    /\ session = [i \in Sessions |-> "none"]
    /\ code \in [Sessions -> Codes]
    /\ created = [i \in Sessions |-> 0] /\ claimed = [i \in Sessions |-> 0]
    /\ tombs = {}
    /\ devices = [c \in Codes |-> 0]

-----------------------------------------------------------------------------
\* PRUNE_CONDITION.
Ripe(i, at) ==
    /\ session[i] # "none"
    /\ IF session[i] = "claimed" THEN claimed[i] + Retention <= at
                                 ELSE Expires(i) <= at

\* The codes of the sessions that are removed are never used again.
TombsAfter(at) == tombs \cup {code[i] : i \in {j \in Sessions : Ripe(j, at)}}

Pruned(at) == [i \in Sessions |-> IF Ripe(i, at) THEN "none" ELSE session[i]]

\* Mutant: the tombstones are not looked at.
CodeIsUnheld(c, at) == \A i \in Sessions : Pruned(at)[i] # "none" => code[i] # c

\* Neither a session nor a tombstone has the digest.
CodeIsFree(c, at) ==
    /\ c \notin TombsAfter(at)
    /\ \A i \in Sessions : Pruned(at)[i] # "none" => code[i] # c

HasRoom(at) == Cardinality({i \in Sessions : Pruned(at)[i] # "none"}) < MaxSessions

\* create: prunes, then inserts.  A refusal rolls the pruning back.
Create(i, c, at) ==
    /\ Pruned(at)[i] = "none" /\ CodeIsFree(c, at) /\ HasRoom(at)
    /\ session' = [Pruned(at) EXCEPT ![i] = "pending"]
    /\ code' = [code EXCEPT ![i] = c]
    /\ created' = [created EXCEPT ![i] = at]
    /\ tombs' = TombsAfter(at)
    /\ UNCHANGED <<clock, claimed, devices>>

\* claim: the device and the claim are one transaction, which may take time.  A
\* session that is found out of date becomes expired; a clock set back refuses
\* the claim.
Claim(c) ==
    \E i \in Sessions :
        /\ session[i] = "pending" /\ code[i] = c
        /\ IF clock >= Expires(i)
           THEN /\ session' = [session EXCEPT ![i] = "expired"]
                /\ UNCHANGED <<claimed, devices>>
           ELSE /\ clock >= created[i]
                /\ session' = [session EXCEPT ![i] = "claimed"]
                /\ claimed' = [claimed EXCEPT ![i] = clock]
                /\ devices' = [devices EXCEPT ![c] = @ + 1]
        /\ clock' \in Times
        /\ UNCHANGED <<code, created, tombs>>

\* Mutant: a claimed session can be cancelled.
CancelAny(i, at) ==
    /\ session[i] \in {"pending", "claimed"}
    /\ session' = [session EXCEPT ![i] = "cancelled"]
    /\ UNCHANGED <<clock, code, created, claimed, tombs, devices>>

\* cancel
Cancel(i, at) ==
    /\ session[i] = "pending"
    /\ IF at >= Expires(i) THEN session' = [session EXCEPT ![i] = "expired"]
       ELSE at >= created[i] /\ session' = [session EXCEPT ![i] = "cancelled"]
    /\ UNCHANGED <<clock, code, created, claimed, tombs, devices>>

\* expire
Expire(at) ==
    /\ session' = [i \in Sessions |->
                     IF session[i] = "pending" /\ Expires(i) <= at
                     THEN "expired" ELSE session[i]]
    /\ UNCHANGED <<clock, code, created, claimed, tombs, devices>>

\* pruneExpired
Prune(at) ==
    /\ session' = Pruned(at) /\ tombs' = TombsAfter(at)
    /\ UNCHANGED <<clock, code, created, claimed, devices>>

\* Time passes, or the wall clock is set back.
Tick(t) == clock' = t /\ UNCHANGED <<rows, tombs, devices>>

Next ==
    \/ \E t \in Times : Tick(t)
    \/ \E c \in Codes : Claim(c)
    \/ \E i \in Sessions, at \in Times : Cancel(i, at)
    \/ \E at \in Times : Expire(at) \/ Prune(at)
    \/ \E i \in Sessions, c \in Codes, at \in Times : Create(i, c, at)

Spec == Init /\ [][Next]_vars

-----------------------------------------------------------------------------
(* Properties. *)

TypeOK ==
    /\ clock \in Times
    /\ session \in [Sessions -> {"none", "pending", "claimed", "expired",
                                 "cancelled"}]
    /\ code \in [Sessions -> Codes]
    /\ created \in [Sessions -> Times] /\ claimed \in [Sessions -> Times]
    /\ tombs \subseteq Codes
    /\ devices \in [Codes -> Nat]

\* A code names one session, and none once its session has been pruned.
CodesAreUnique ==
    \A i \in Stored : /\ code[i] \notin tombs
                      /\ \A j \in Stored : code[i] = code[j] => i = j

\* A code pairs one device at most, whatever was expired, cancelled, pruned or
\* created again meanwhile.
CodeIsSingleUse == \A c \in Codes : devices[c] <= 1

\* The count of devices agrees with the sessions: a code that has not been
\* pruned has paired a device exactly when its session is claimed.
DeviceIffClaimed ==
    /\ \A i \in Stored : devices[code[i]] = (IF session[i] = "claimed" THEN 1 ELSE 0)
    /\ \A c \in Codes : c \notin tombs /\ (\A i \in Stored : code[i] # c)
                        => devices[c] = 0

\* A session is claimed within its life, by a clock that may be set back.
ClaimedInTime ==
    \A i \in Sessions : session[i] = "claimed"
                        => created[i] <= claimed[i] /\ claimed[i] < Expires(i)

\* A session that is claimed, expired or cancelled stays so until it is
\* pruned: no later claim, cancel or expiry changes it.
FinalIsFinal ==
    [][\A i \in Sessions : session[i] \in {"claimed", "expired", "cancelled"}
                           => session'[i] \in {session[i], "none", "pending"}
                              /\ (session'[i] = "pending" => code[i] \in tombs')]_vars

\* What every transaction of the pairing store keeps.
IInv == TypeOK /\ CodesAreUnique /\ CodeIsSingleUse /\ DeviceIffClaimed
            /\ ClaimedInTime
=============================================================================
