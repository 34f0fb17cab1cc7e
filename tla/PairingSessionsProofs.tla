----------------------- MODULE PairingSessionsProofs -----------------------
(***************************************************************************)
(* For every number of owners, callers, sessions, codes and devices, and    *)
(* every time limit:                                                       *)
(*  - the gate of the devices_pair calls lets one call of an owner in at a *)
(*    time, and so no owner gets more devices than the limit;              *)
(*  - the repository's index of codes, its tombstones and the calls that   *)
(*    wait for its lock agree with the sessions it holds;                  *)
(*  - a code that can be claimed has a channel it is delivered on;         *)
(*  - what the repository does to a code is a step of the pairing ledger.  *)
(*                                                                         *)
(* The gate: the calls of an owner are linked, each to the one before it,  *)
(* and the owner to the last.  That the links form one chain, and no other *)
(* call is at its beginning, takes an order: the rank a call gets as it    *)
(* comes.  The repository: every step that changes it is taken by the call *)
(* at the head of the lock's queue, so a proof about the sessions is one   *)
(* about that call and what the calls behind it remember.                  *)
(***************************************************************************)
EXTENDS PairingSessionsRefinement, FiniteSetTheorems, TLAPS

USE NothingIsNothing, DeviceLimitIsNat

InGate(p) == task[p].pc \in {"gate", "claim", "device", "issue"}
Inside(p) == task[p].pc \in {"claim", "device", "issue"}

GateType ==
    /\ clock \in Nat
    /\ task \in [Callers -> Tasks]
    /\ tail \in [Owners -> Callers \cup {NoCaller}]
    /\ owned \in [Owners -> Nat]
    /\ \A p \in Callers : InGate(p) => task[p].owner \in Owners
    /\ \A p \in Callers : Inside(p) => task[p].prev = NoCaller

\* The last call of an owner has the highest rank of those in the gate, and the
\* call before another one is at least as late as any that came before that.
Ordered(rank) ==
    /\ \A o \in Owners : tail[o] # NoCaller =>
          InGate(tail[o]) /\ task[tail[o]].owner = o
    /\ \A p \in Callers : InGate(p) =>
          /\ tail[task[p].owner] # NoCaller
          /\ rank[p] <= rank[tail[task[p].owner]]
    /\ \A p, q \in Callers :
          InGate(p) /\ InGate(q) /\ task[p].owner = task[q].owner /\ p # q =>
             /\ rank[p] # rank[q]
             /\ rank[p] < rank[q] =>
                   /\ task[q].prev # NoCaller
                   /\ InGate(task[q].prev)
                   /\ task[task[q].prev].owner = task[q].owner
                   /\ rank[p] <= rank[task[q].prev]

\* There is room for the device of a call that has counted.
HasCounted ==
    \A p \in Callers : task[p].pc \in {"claim", "device"} =>
        /\ owned[task[p].owner] < MaxDevices
        /\ task[p].code \in Codes

GateInv ==
    /\ GateType
    /\ \E rank \in [Callers -> Nat] : Ordered(rank)
    /\ HasCounted
    /\ WithinDeviceLimit

-----------------------------------------------------------------------------

LEMMA InitGate == Init => GateInv
<1> SUFFICES ASSUME Init PROVE GateInv
    OBVIOUS
<1>1. Idle \in Tasks
    BY DEF Idle, Tasks
<1>2. GateType
    BY <1>1 DEF Init, GateType, Idle, InGate, Inside
<1>3. Ordered([p \in Callers |-> 0])
    BY DEF Init, Ordered, Idle, InGate
<1>4. HasCounted /\ WithinDeviceLimit
    BY DEF Init, HasCounted, WithinDeviceLimit, Idle
<1> QED BY <1>2, <1>3, <1>4 DEF GateInv

\* A caller that is not in the gate disturbs nothing there.
LEMMA OutsideStep ==
    ASSUME GateInv, NEW p \in Callers, ~InGate(p), NEW t \in Tasks,
           t.pc \notin {"gate", "claim", "device", "issue"},
           task' = [task EXCEPT ![p] = t],
           UNCHANGED <<clock, tail, owned>>
    PROVE  GateInv'
<1>1. \A q \in Callers : q # p => task'[q] = task[q]
    BY DEF GateInv, GateType
<1>2. task'[p] = t /\ ~InGate(p)'
    BY DEF GateInv, GateType, InGate
<1>3. \A q \in Callers : InGate(q)' <=> InGate(q)
    BY <1>1, <1>2 DEF InGate
<1>4. GateType'
    BY <1>1, <1>2, <1>3 DEF GateInv, GateType, InGate, Inside
<1>5. PICK rank \in [Callers -> Nat] : Ordered(rank)
    BY DEF GateInv
<1>6. Ordered(rank)'
  <2>1. \A o \in Owners : tail[o] # NoCaller =>
          InGate(tail[o])' /\ task'[tail[o]].owner = o
      BY <1>1, <1>3, <1>5 DEF Ordered, GateInv, GateType
  <2>2. \A q \in Callers : InGate(q)' =>
          /\ tail[task'[q].owner] # NoCaller
          /\ rank[q] <= rank[tail[task'[q].owner]]
      BY <1>1, <1>3, <1>5 DEF Ordered
  <2>3. ASSUME NEW q \in Callers, NEW s \in Callers, InGate(q)', InGate(s)',
               task'[q].owner = task'[s].owner, q # s
        PROVE  /\ rank[q] # rank[s]
               /\ rank[q] < rank[s] =>
                   /\ task'[s].prev # NoCaller
                   /\ InGate(task[s].prev)'
                   /\ task'[task'[s].prev].owner = task'[s].owner
                   /\ rank[q] <= rank[task'[s].prev]
    <3>1. InGate(q) /\ InGate(s) /\ q # p /\ s # p
        BY <1>3, <2>3
    <3>2. task[s].prev \in Callers \cup {NoCaller}
        BY DEF GateInv, GateType, Tasks
    <3> QED BY <1>1, <1>3, <1>5, <2>3, <3>1, <3>2 DEF Ordered
  <2> QED BY <1>1, <1>3, <2>1, <2>2, <2>3 DEF Ordered
<1>7. HasCounted' /\ WithinDeviceLimit'
    BY <1>1, <1>2 DEF GateInv, HasCounted, WithinDeviceLimit, InGate
<1> QED BY <1>4, <1>5, <1>6, <1>7 DEF GateInv

-----------------------------------------------------------------------------
(* The gate. *)

\* The call that waits for no other one is the first of its owner, and the
\* only one that may be inside.
LEMMA FirstIsAlone ==
    ASSUME GateInv, NEW rank \in [Callers -> Nat], Ordered(rank),
           NEW p \in Callers, InGate(p), task[p].prev = NoCaller,
           NEW q \in Callers, InGate(q), q # p, task[q].owner = task[p].owner
    PROVE  rank[p] < rank[q] /\ task[q].prev # NoCaller
<1>1. rank[p] # rank[q] /\ rank[p] \in Nat /\ rank[q] \in Nat
    BY DEF Ordered
<1>2. ~(rank[q] < rank[p])
    BY DEF Ordered
<1>3. rank[p] < rank[q]
    BY <1>1, <1>2
<1> QED BY <1>3 DEF Ordered

LEMMA StartClaimGate ==
    ASSUME GateInv, NEW p \in Callers, StartClaim(p)
    PROVE  GateInv'
<1>1. PICK o \in Owners :
          /\ task' = [task EXCEPT ![p] =
                        [@ EXCEPT !.pc = "gate", !.owner = o, !.prev = tail[o]]]
          /\ tail' = [tail EXCEPT ![o] = p]
    BY DEF StartClaim
<1>2. PICK rank \in [Callers -> Nat] : Ordered(rank)
    BY DEF GateInv
<1> DEFINE t == [task[p] EXCEPT !.pc = "gate", !.owner = o, !.prev = tail[o]]
<1>3. ~InGate(p) /\ owned' = owned /\ clock' = clock
    BY DEF StartClaim, At, InGate
<1>4. t \in Tasks /\ t.pc = "gate" /\ t.owner = o /\ t.prev = tail[o]
  <2>1. task[p] \in Tasks /\ tail[o] \in Callers \cup {NoCaller}
      BY DEF GateInv, GateType
  <2> QED BY <2>1 DEF Tasks
<1>5. /\ task'[p] = t
      /\ \A q \in Callers : q # p => task'[q] = task[q]
    BY <1>1 DEF GateInv, GateType
<1>6. tail'[o] = p /\ \A u \in Owners : u # o => tail'[u] = tail[u]
    BY <1>1 DEF GateInv, GateType
<1>7. \A q \in Callers : InGate(q)' <=> InGate(q) \/ q = p
    BY <1>4, <1>5 DEF InGate
<1>8. GateType'
    BY <1>1, <1>3, <1>4, <1>5, <1>6, <1>7 DEF GateInv, GateType, InGate, Inside
<1>9. tail[o] = NoCaller \/ (tail[o] \in Callers /\ tail[o] # p)
    BY <1>2, <1>3 DEF GateInv, GateType, Ordered
<1>10. PICK new \in [Callers -> Nat] :
          /\ \A q \in Callers : q # p => new[q] = rank[q]
          /\ new[p] = IF tail[o] = NoCaller THEN 0 ELSE rank[tail[o]] + 1
  <2>1. [rank EXCEPT ![p] = IF tail[o] = NoCaller THEN 0 ELSE rank[tail[o]] + 1]
           \in [Callers -> Nat]
      BY <1>9
  <2> QED BY <2>1
<1> HIDE DEF t
<1>11. \A q \in Callers : InGate(q) /\ task[q].owner = o =>
          /\ tail[o] \in Callers /\ InGate(tail[o]) /\ task[tail[o]].owner = o
          /\ rank[q] <= rank[tail[o]] /\ new[q] < new[p] /\ q # p
  <2> SUFFICES ASSUME NEW q \in Callers, InGate(q), task[q].owner = o
               PROVE  /\ tail[o] \in Callers /\ InGate(tail[o])
                      /\ task[tail[o]].owner = o
                      /\ rank[q] <= rank[tail[o]] /\ new[q] < new[p] /\ q # p
      OBVIOUS
  <2>1. tail[o] # NoCaller /\ rank[q] <= rank[tail[o]]
      BY <1>2 DEF Ordered
  <2>2. tail[o] \in Callers /\ InGate(tail[o]) /\ task[tail[o]].owner = o
      BY <1>2, <1>9, <2>1 DEF Ordered
  <2> QED BY <1>3, <1>10, <2>1, <2>2
<1>12. Ordered(new)'
  <2>1. \A u \in Owners : tail'[u] # NoCaller =>
          InGate(tail[u])' /\ task'[tail'[u]].owner = u
      BY <1>2, <1>3, <1>4, <1>5, <1>6, <1>7 DEF Ordered, GateInv, GateType
  <2>2. ASSUME NEW q \in Callers, InGate(q)'
        PROVE  /\ tail'[task'[q].owner] # NoCaller
               /\ new[q] <= new[tail'[task'[q].owner]]
    <3>1. CASE task'[q].owner = o
        BY <1>4, <1>5, <1>6, <1>7, <1>10, <1>11, <2>2, <3>1
    <3>2. CASE task'[q].owner # o
      <4>1. q # p /\ InGate(q) /\ task'[q] = task[q] /\ task[q].owner \in Owners
          BY <1>4, <1>5, <1>7, <2>2, <3>2 DEF GateInv, GateType
      <4>2. /\ tail[task[q].owner] # NoCaller
            /\ rank[q] <= rank[tail[task[q].owner]]
          BY <1>2, <4>1 DEF Ordered
      <4>3. tail[task[q].owner] \in Callers /\ tail[task[q].owner] # p
          BY <1>2, <1>3, <4>1, <4>2 DEF Ordered, GateInv, GateType
      <4> QED BY <1>6, <1>10, <3>2, <4>1, <4>2, <4>3
    <3> QED BY <3>1, <3>2
  <2>3. ASSUME NEW q \in Callers, NEW s \in Callers, InGate(q)', InGate(s)',
               task'[q].owner = task'[s].owner, q # s
        PROVE  /\ new[q] # new[s]
               /\ new[q] < new[s] =>
                   /\ task'[s].prev # NoCaller
                   /\ InGate(task[s].prev)'
                   /\ task'[task'[s].prev].owner = task'[s].owner
                   /\ new[q] <= new[task'[s].prev]
    <3>1. CASE s = p
      <4>1. q # p /\ InGate(q) /\ task[q].owner = o
          BY <1>4, <1>5, <1>7, <2>3, <3>1
      <4> QED BY <1>4, <1>5, <1>7, <1>9, <1>10, <1>11, <2>3, <3>1, <4>1
    <3>2. CASE q = p
      <4>1. s # p /\ InGate(s) /\ task[s].owner = o
          BY <1>4, <1>5, <1>7, <2>3, <3>2
      <4> QED BY <1>10, <1>11, <3>2, <4>1
    <3>3. CASE q # p /\ s # p
      <4>1. InGate(q) /\ InGate(s) /\ task'[q] = task[q] /\ task'[s] = task[s]
          BY <1>5, <1>7, <2>3, <3>3
      <4>2. task[s].prev \in Callers \cup {NoCaller}
          BY DEF GateInv, GateType, Tasks
      <4>3. /\ rank[q] # rank[s]
            /\ rank[q] < rank[s] =>
                   /\ task[s].prev # NoCaller /\ InGate(task[s].prev)
                   /\ task[task[s].prev].owner = task[s].owner
                   /\ rank[q] <= rank[task[s].prev]
          BY <1>2, <2>3, <4>1 DEF Ordered
      <4>4. rank[q] < rank[s] => task[s].prev \in Callers /\ task[s].prev # p
          BY <1>3, <4>2, <4>3
      <4> QED BY <1>5, <1>7, <1>10, <3>3, <4>1, <4>3, <4>4
    <3> QED BY <3>1, <3>2, <3>3
  <2> QED BY <2>1, <2>2, <2>3 DEF Ordered
<1>13. HasCounted' /\ WithinDeviceLimit'
    BY <1>3, <1>4, <1>5 DEF GateInv, HasCounted, WithinDeviceLimit
<1> QED BY <1>8, <1>10, <1>12, <1>13 DEF GateInv

\* A call that is first goes on inside.
LEMMA GoesOnGate ==
    ASSUME GateInv, NEW p \in Callers, InGate(p), task[p].prev = NoCaller,
           NEW t \in Tasks, t.pc \in {"claim", "device", "issue"},
           t.owner = task[p].owner, t.prev = NoCaller,
           task' = [task EXCEPT ![p] = t],
           UNCHANGED <<clock, tail>>
    PROVE  /\ owned' = owned => GateType'
           /\ \E rank \in [Callers -> Nat] : Ordered(rank)'
<1>1. /\ task'[p] = t
      /\ \A q \in Callers : q # p => task'[q] = task[q]
    BY DEF GateInv, GateType
<1>2. \A q \in Callers : InGate(q)' <=> InGate(q)
    BY <1>1 DEF InGate
<1>3. \A q \in Callers : task'[q].owner = task[q].owner /\ task'[q].prev = task[q].prev
    BY <1>1
<1>4. owned' = owned => GateType'
    BY <1>1, <1>2, <1>3 DEF GateInv, GateType, Inside
<1>5. PICK rank \in [Callers -> Nat] : Ordered(rank)
    BY DEF GateInv
<1>6. Ordered(rank)'
  <2>1. \A q \in Callers : task[q].prev \in Callers \cup {NoCaller}
      BY DEF GateInv, GateType, Tasks
  <2> QED BY <1>2, <1>3, <1>5, <2>1 DEF Ordered, GateInv, GateType
<1> QED BY <1>4, <1>5, <1>6 DEF GateInv

\* A call that is first leaves: the next one is first, if there is one.
LEMMA LeavesGate ==
    ASSUME GateInv, NEW p \in Callers, InGate(p), task[p].prev = NoCaller,
           Leaves(p), UNCHANGED <<clock, owned>>
    PROVE  GateInv'
<1> DEFINE o == task[p].owner
<1>1. o \in Owners
    BY DEF GateInv, GateType
<1>2. PICK rank \in [Callers -> Nat] : Ordered(rank)
    BY DEF GateInv
<1>3. Idle \in Tasks
    BY DEF Idle, Tasks
<1>4. \A q \in Callers : task[q] \in Tasks
    BY DEF GateInv, GateType
<1>5. ASSUME NEW q \in Callers, q # p
      PROVE  /\ task'[q] \in Tasks /\ task'[q].pc = task[q].pc
             /\ task'[q].owner = task[q].owner /\ task'[q].code = task[q].code
             /\ task'[q].prev = IF task[q].prev = p THEN NoCaller ELSE task[q].prev
    BY <1>4, <1>5 DEF Leaves, Tasks
<1>6. task'[p] = Idle /\ task' \in [Callers -> Tasks]
    BY <1>3, <1>4, <1>5 DEF Leaves
<1>7. \A q \in Callers : InGate(q)' <=> InGate(q) /\ q # p
    BY <1>5, <1>6 DEF InGate, Idle
<1>8. /\ tail' \in [Owners -> Callers \cup {NoCaller}]
      /\ tail'[o] = IF tail[o] = p THEN NoCaller ELSE tail[o]
      /\ \A u \in Owners : u # o => tail'[u] = tail[u]
    BY <1>1 DEF Leaves, GateInv, GateType
<1>9. GateType'
    BY <1>5, <1>6, <1>7, <1>8 DEF GateInv, GateType, InGate, Inside, Idle
\* The others of the owner came later.
<1>10. \A q \in Callers : InGate(q) /\ q # p /\ task[q].owner = o => rank[p] < rank[q]
    BY <1>2, FirstIsAlone
<1>11. \A q \in Callers : InGate(q) /\ q # p /\ task[q].owner = o => tail[o] # p
    BY <1>2, <1>10 DEF Ordered
<1> HIDE DEF o
<1>12. Ordered(rank)'
  <2>1. ASSUME NEW u \in Owners, tail'[u] # NoCaller
        PROVE  InGate(tail[u])' /\ task'[tail'[u]].owner = u
    <3>1. tail'[u] = tail[u] /\ tail[u] # p /\ tail[u] \in Callers
        BY <1>2, <1>8, <2>1 DEF Ordered, GateInv, GateType, o
    <3> QED BY <1>2, <1>5, <1>7, <2>1, <3>1 DEF Ordered
  <2>2. ASSUME NEW q \in Callers, InGate(q)'
        PROVE  /\ tail'[task'[q].owner] # NoCaller
               /\ rank[q] <= rank[tail'[task'[q].owner]]
    <3>1. /\ InGate(q) /\ q # p /\ task'[q].owner = task[q].owner
          /\ task[q].owner \in Owners
        BY <1>5, <1>7, <2>2 DEF GateInv, GateType
    <3>2. tail'[task[q].owner] = tail[task[q].owner]
        BY <1>8, <1>11, <3>1
    <3> QED BY <1>2, <3>1, <3>2 DEF Ordered
  <2>3. ASSUME NEW q \in Callers, NEW s \in Callers, InGate(q)', InGate(s)',
               task'[q].owner = task'[s].owner, q # s
        PROVE  /\ rank[q] # rank[s]
               /\ rank[q] < rank[s] =>
                   /\ task'[s].prev # NoCaller
                   /\ InGate(task[s].prev)'
                   /\ task'[task'[s].prev].owner = task'[s].owner
                   /\ rank[q] <= rank[task'[s].prev]
    <3>1. InGate(q) /\ InGate(s) /\ q # p /\ s # p /\ task[q].owner = task[s].owner
        BY <1>5, <1>7, <2>3
    <3>2. rank[q] # rank[s]
        BY <1>2, <2>3, <3>1 DEF Ordered
    <3>3. ASSUME rank[q] < rank[s]
          PROVE  /\ task'[s].prev # NoCaller
                 /\ InGate(task[s].prev)'
                 /\ task'[task'[s].prev].owner = task'[s].owner
                 /\ rank[q] <= rank[task'[s].prev]
      <4>1. /\ task[s].prev # NoCaller /\ InGate(task[s].prev)
            /\ task[task[s].prev].owner = task[s].owner
            /\ rank[q] <= rank[task[s].prev]
          BY <1>2, <2>3, <3>1, <3>3 DEF Ordered
      <4>2. task[s].prev \in Callers
          BY <1>4, <4>1 DEF Tasks
      <4>3. task[s].prev # p
          BY <1>10, <3>1, <4>1, <4>2 DEF o
      <4>4. task'[s].prev = task[s].prev
          BY <1>5, <3>1, <4>3
      <4> QED BY <1>5, <1>7, <3>1, <4>1, <4>2, <4>3, <4>4
    <3> QED BY <3>2, <3>3
  <2> QED BY <2>1, <2>2, <2>3 DEF Ordered
<1>13. HasCounted' /\ WithinDeviceLimit'
    BY <1>5, <1>6 DEF GateInv, HasCounted, WithinDeviceLimit, Idle
<1> QED BY <1>9, <1>12, <1>13 DEF GateInv

-----------------------------------------------------------------------------
(* The steps of Next. *)

IndexType == index \in [Codes -> Sessions \cup {NoSession}]

LEMMA ClaimSteps ==
    ASSUME GateInv, IndexType, NEW p \in Callers,
           CountDevices(p) \/ RunClaim(p) \/ CreateDevice(p) \/ IssueCredential(p)
    PROVE  GateInv'
<1>1. /\ task[p] \in Tasks /\ clock \in Nat
      /\ \A q \in Callers : task[q] \in Tasks
    BY DEF GateInv, GateType
<1>2. CASE CountDevices(p)
  <2>1. InGate(p) /\ task[p].prev = NoCaller /\ UNCHANGED <<clock, owned>>
      BY <1>2 DEF CountDevices, At, InGate
  <2>2. ASSUME owned[task[p].owner] < MaxDevices, NEW c \in Codes,
               task' = [task EXCEPT ![p] = [@ EXCEPT !.pc = "claim", !.code = c]],
               UNCHANGED tail
        PROVE  GateInv'
    <3> DEFINE t == [task[p] EXCEPT !.pc = "claim", !.code = c]
    <3>1. /\ t \in Tasks /\ t.pc = "claim" /\ t.owner = task[p].owner
          /\ t.prev = NoCaller /\ t.code = c
        BY <1>1, <2>1 DEF Tasks
    <3>2. task' = [task EXCEPT ![p] = t]
        BY <2>2
    <3> HIDE DEF t
    <3>3. GateType' /\ \E rank \in [Callers -> Nat] : Ordered(rank)'
        BY <2>1, <2>2, <3>1, <3>2, GoesOnGate
    <3>4. HasCounted' /\ WithinDeviceLimit'
        BY <2>1, <2>2, <3>1, <3>2 DEF GateInv, GateType, HasCounted, WithinDeviceLimit
    <3> QED BY <3>3, <3>4 DEF GateInv
  <2>3. CASE Leaves(p)
      BY <2>1, <2>3, LeavesGate
  <2> QED BY <1>2, <2>2, <2>3 DEF CountDevices
<1>3. CASE RunClaim(p)
  <2> DEFINE i == index[task[p].code]
             t == [task[p] EXCEPT !.pc = "device", !.id = i, !.at = clock]
  <2>1. InGate(p) /\ task[p].prev = NoCaller /\ UNCHANGED <<clock, owned>>
      BY <1>3 DEF RunClaim, At, InGate, Inside, GateInv, GateType
  <2>2. CASE task' = [task EXCEPT ![p] = t] /\ i \in Sessions /\ UNCHANGED tail
    <3>1. /\ t \in Tasks /\ t.pc = "device" /\ t.owner = task[p].owner
          /\ t.prev = NoCaller /\ t.code = task[p].code
        BY <1>1, <2>1, <2>2 DEF Tasks
    <3> HIDE DEF t
    <3>2. GateType' /\ \E rank \in [Callers -> Nat] : Ordered(rank)'
        BY <2>1, <2>2, <3>1, GoesOnGate
    <3>3. task[p].pc = "claim"
        BY <1>3 DEF RunClaim, At
    <3>4. HasCounted' /\ WithinDeviceLimit'
        BY <2>1, <2>2, <3>1, <3>3 DEF GateInv, GateType, HasCounted, WithinDeviceLimit
    <3> QED BY <3>2, <3>4 DEF GateInv
  <2>3. CASE Leaves(p)
      BY <2>1, <2>3, LeavesGate
  <2>4. i # NoSession => i \in Sessions
      BY <1>3 DEF RunClaim, At, GateInv, HasCounted, IndexType
  <2> QED BY <1>3, <2>2, <2>3, <2>4 DEF RunClaim
<1>4. CASE CreateDevice(p)
  <2>1. /\ InGate(p) /\ Inside(p) /\ task[p].prev = NoCaller
        /\ task[p].pc = "device" /\ clock' = clock
      BY <1>4 DEF CreateDevice, At, InGate, Inside, GateInv, GateType
  <2> DEFINE o == task[p].owner
             t == [task[p] EXCEPT !.pc = "issue"]
  <2>2. CASE /\ owned' = [owned EXCEPT ![o] = @ + 1]
             /\ task' = [task EXCEPT ![p] = t]
             /\ UNCHANGED tail
    <3>1. t \in Tasks /\ t.pc = "issue" /\ t.owner = o /\ t.prev = NoCaller
        BY <1>1, <2>1 DEF Tasks
    <3>2. o \in Owners /\ owned[o] \in Nat /\ owned[o] < MaxDevices
        BY <2>1 DEF GateInv, GateType, HasCounted
    <3> HIDE DEF t, o
    <3>3. /\ \E rank \in [Callers -> Nat] : Ordered(rank)'
        BY <2>1, <2>2, <3>1, GoesOnGate DEF o
    <3>4. /\ task'[p] = t
          /\ \A q \in Callers : q # p => task'[q] = task[q]
        BY <2>2 DEF GateInv, GateType
    <3>5. /\ owned' \in [Owners -> Nat] /\ owned'[o] = owned[o] + 1
          /\ \A u \in Owners : u # o => owned'[u] = owned[u]
        BY <2>2, <3>2 DEF GateInv, GateType
    <3>6. GateType'
        BY <2>1, <2>2, <3>1, <3>2, <3>4, <3>5 DEF GateInv, GateType, InGate, Inside
    \* No other call of the owner has counted: it is not inside.
    <3>7. ASSUME NEW q \in Callers, q # p, Inside(q) PROVE task[q].owner # o
      <4>1. PICK rank \in [Callers -> Nat] : Ordered(rank)
          BY DEF GateInv
      <4>2. InGate(q) /\ task[q].prev = NoCaller
          BY <3>7 DEF GateInv, GateType, InGate, Inside
      <4> QED BY <2>1, <3>7, <4>1, <4>2, FirstIsAlone DEF o
    <3>8. HasCounted'
      <4> SUFFICES ASSUME NEW q \in Callers, task'[q].pc \in {"claim", "device"}
                   PROVE  /\ owned'[task'[q].owner] < MaxDevices
                          /\ task'[q].code \in Codes
          BY DEF HasCounted
      <4>1. q # p /\ task'[q] = task[q]
          BY <3>1, <3>4
      <4>2. task[q].owner # o /\ task[q].owner \in Owners
          BY <3>7, <4>1 DEF GateInv, GateType, InGate, Inside
      <4> QED BY <3>5, <4>1, <4>2 DEF GateInv, HasCounted
    <3>9. WithinDeviceLimit'
        BY <3>2, <3>5 DEF GateInv, WithinDeviceLimit
    <3> QED BY <3>3, <3>6, <3>8, <3>9 DEF GateInv
  <2>3. CASE Leaves(p) /\ UNCHANGED owned
      BY <2>1, <2>3, LeavesGate
  <2> QED BY <1>4, <2>2, <2>3 DEF CreateDevice, Goes
<1>5. CASE IssueCredential(p)
  <2>1. InGate(p) /\ task[p].prev = NoCaller /\ Leaves(p) /\ UNCHANGED <<clock, owned>>
      BY <1>5 DEF IssueCredential, At, InGate, Inside, GateInv, GateType
  <2> QED BY <2>1, LeavesGate
<1> QED BY <1>2, <1>3, <1>4, <1>5

LEMMA OtherSteps ==
    ASSUME GateInv, NEW p \in Callers,
           \/ StartPairing(p) \/ Generate(p) \/ RunCreate(p) \/ Register(p)
           \/ Admit(p) \/ Undo(p) \/ StartCancel(p) \/ RunCancel(p) \/ Detach(p)
           \/ StartSweep(p) \/ RunPrune(p) \/ RunExpire(p)
    PROVE  GateInv'
<1>1. task[p] \in Tasks /\ clock \in Nat /\ Idle \in Tasks
    BY DEF GateInv, GateType, Idle, Tasks
<1>2. Idle.pc = "idle"
    BY DEF Idle
<1>3. UNCHANGED <<clock, tail, owned>> /\ ~InGate(p)
    BY DEF StartPairing, Generate, RunCreate, Register, Admit, Undo, StartCancel,
           RunCancel, Detach, StartSweep, RunPrune, RunExpire, gate, At, InGate
<1>4. \E t \in Tasks : /\ t.pc \notin {"gate", "claim", "device", "issue"}
                       /\ task' = [task EXCEPT ![p] = t]
  <2> DEFINE Goal == \E t \in Tasks :
                        /\ t.pc \notin {"gate", "claim", "device", "issue"}
                        /\ task' = [task EXCEPT ![p] = t]
  <2>1. CASE Ends(p)
      BY <1>1, <1>2, <2>1 DEF Ends
  <2>2. ASSUME NEW pc \in {"generate", "create", "register", "admit", "undo",
                           "cancelOnly", "cancel", "detach", "prune", "expire"},
               Goes(p, pc)
        PROVE  Goal
    <3>1. /\ [task[p] EXCEPT !.pc = pc] \in Tasks
          /\ [task[p] EXCEPT !.pc = pc].pc = pc
        BY <1>1 DEF Tasks
    <3> QED BY <2>2, <3>1 DEF Goes
  <2>3. CASE StartPairing(p)
    <3>1. [task[p] EXCEPT !.pc = "generate", !.at = clock] \in Tasks
        BY <1>1 DEF Tasks
    <3>2. [task[p] EXCEPT !.pc = "generate", !.at = clock].pc = "generate"
        BY <1>1 DEF Tasks
    <3> QED BY <2>3, <3>1, <3>2 DEF StartPairing
  <2>4. CASE Generate(p)
    <3>1. ASSUME NEW i \in Sessions, NEW c \in Codes,
                 task' = [task EXCEPT ![p] =
                            [@ EXCEPT !.pc = "create", !.id = i, !.code = c]]
          PROVE  Goal
      <4>1. [task[p] EXCEPT !.pc = "create", !.id = i, !.code = c] \in Tasks
          BY <1>1 DEF Tasks
      <4>2. [task[p] EXCEPT !.pc = "create", !.id = i, !.code = c].pc = "create"
          BY <1>1 DEF Tasks
      <4> QED BY <3>1, <4>1, <4>2
    <3> QED BY <2>1, <2>4, <3>1 DEF Generate
  <2>5. CASE RunCreate(p)
    <3> DEFINE n == task[p].tries + 1
               t == [task[p] EXCEPT !.pc = "generate", !.tries = n]
    <3>1. n \in Nat
        BY <1>1 DEF Tasks
    <3>2. \/ Goes(p, "register") \/ Ends(p)
          \/ task' = [task EXCEPT ![p] = t]
        BY <2>5 DEF RunCreate, Ends
    <3> HIDE DEF n
    <3>3. t \in Tasks /\ t.pc = "generate"
        BY <1>1, <3>1 DEF Tasks
    <3> HIDE DEF t
    <3> QED BY <2>1, <2>2, <3>2, <3>3
  <2>6. CASE Register(p) \/ Admit(p) \/ RunCancel(p) \/ Detach(p) \/ RunPrune(p)
             \/ RunExpire(p)
      BY <2>1, <2>2, <2>6 DEF Register, Admit, RunCancel, Detach, RunPrune, RunExpire
  <2>7. CASE Undo(p)
    <3>1. /\ [task[p] EXCEPT !.pc = "cancelOnly", !.at = clock] \in Tasks
          /\ [task[p] EXCEPT !.pc = "cancelOnly", !.at = clock].pc = "cancelOnly"
        BY <1>1 DEF Tasks
    <3> QED BY <2>7, <3>1 DEF Undo
  <2>8. CASE StartCancel(p)
    <3>1. PICK i \in Sessions :
             task' = [task EXCEPT ![p] =
                        [@ EXCEPT !.pc = "cancel", !.id = i, !.at = clock]]
        BY <2>8 DEF StartCancel
    <3>2. /\ [task[p] EXCEPT !.pc = "cancel", !.id = i, !.at = clock] \in Tasks
          /\ [task[p] EXCEPT !.pc = "cancel", !.id = i, !.at = clock].pc = "cancel"
        BY <1>1 DEF Tasks
    <3> QED BY <3>1, <3>2
  <2>9. CASE StartSweep(p)
    <3>1. PICK pc \in {"prune", "expire"} :
             task' = [task EXCEPT ![p] = [@ EXCEPT !.pc = pc, !.at = clock]]
        BY <2>9 DEF StartSweep
    <3>2. /\ [task[p] EXCEPT !.pc = pc, !.at = clock] \in Tasks
          /\ [task[p] EXCEPT !.pc = pc, !.at = clock].pc = pc
        BY <1>1 DEF Tasks
    <3> QED BY <3>1, <3>2
  <2> QED BY <2>3, <2>4, <2>5, <2>6, <2>7, <2>8, <2>9
<1> QED BY <1>3, <1>4, OutsideStep

LEMMA IndexTypeKept ==
    ASSUME GateInv, IndexType, Next
    PROVE  IndexType'
<1>1. \A at : IndexAfter(at) \in [Codes -> Sessions \cup {NoSession}]
    BY DEF IndexType, IndexAfter
<1>2. ASSUME NEW p \in Callers, RunCreate(p) PROVE IndexType'
  <2>1. task[p].id \in Sessions \cup {NoSession}
      BY DEF GateInv, GateType, Tasks
  <2> QED BY <1>1, <1>2, <2>1 DEF RunCreate, IndexType
<1>3. ASSUME NEW p \in Callers, RunPrune(p) PROVE IndexType'
    BY <1>1, <1>3 DEF RunPrune, IndexType
<1>4. ASSUME NEW p \in Callers,
             \/ StartPairing(p) \/ StartClaim(p) \/ StartCancel(p) \/ StartSweep(p)
             \/ Generate(p) \/ Register(p) \/ Admit(p) \/ Undo(p)
             \/ CountDevices(p) \/ RunClaim(p) \/ CreateDevice(p) \/ IssueCredential(p)
             \/ RunCancel(p) \/ Detach(p) \/ RunExpire(p)
      PROVE  index' = index
    BY <1>4 DEF StartPairing, StartClaim, StartCancel, StartSweep, Generate, Register,
                Admit, Undo, CountDevices, RunClaim, CreateDevice, IssueCredential,
                RunCancel, Detach, RunExpire, records
<1>5. ASSUME NEW i \in Sessions, ExpireChannel(i) PROVE index' = index
    BY <1>5 DEF ExpireChannel, records
<1>6. Tick => index' = index
    BY DEF Tick, records
<1> QED BY <1>2, <1>3, <1>4, <1>5, <1>6 DEF Next, CallerStep, IndexType

LEMMA NextKeepsGate ==
    ASSUME GateInv, IndexType, Next
    PROVE  GateInv'
<1>1. ASSUME UNCHANGED <<task, tail, owned>>, clock' \in Nat
      PROVE  GateInv'
  <2>1. PICK rank \in [Callers -> Nat] : Ordered(rank)
      BY DEF GateInv
  <2>2. Ordered(rank)'
      BY <1>1, <2>1 DEF Ordered, InGate
  <2> QED BY <1>1, <2>2 DEF GateInv, GateType, HasCounted, WithinDeviceLimit, InGate, Inside
<1>2. ASSUME NEW i \in Sessions, ExpireChannel(i) PROVE GateInv'
    BY <1>1, <1>2 DEF ExpireChannel, gate, GateInv, GateType
<1>3. CASE Tick
    BY <1>1, <1>3 DEF Tick, gate, GateInv, GateType
<1> QED BY <1>2, <1>3, StartClaimGate, ClaimSteps, OtherSteps DEF Next, CallerStep

\* No owner ever has more devices than the limit, whatever number of devices_pair
\* calls run at once and wherever each of them waits or fails: OwnerPairingGate
\* of public-mcp-endpoint.ts makes the count and the creation one step.
THEOREM DeviceLimit == Spec => []WithinDeviceLimit
<1>1. Init => GateInv /\ IndexType
    BY InitGate DEF Init, IndexType
<1>2. GateInv /\ IndexType /\ [Next]_vars => GateInv' /\ IndexType'
  <2> SUFFICES ASSUME GateInv, IndexType, [Next]_vars
               PROVE  GateInv' /\ IndexType'
      OBVIOUS
  <2>1. CASE Next
      BY <2>1, IndexTypeKept, NextKeepsGate
  <2>2. CASE UNCHANGED vars
    <3>1. PICK rank \in [Callers -> Nat] : Ordered(rank)
        BY DEF GateInv
    <3>2. Ordered(rank)'
        BY <2>2, <3>1 DEF vars, gate, Ordered, InGate
    <3> QED BY <2>2, <3>2 DEF vars, gate, records, IndexType, GateInv, GateType,
                              HasCounted, WithinDeviceLimit, InGate, Inside
  <2> QED BY <2>1, <2>2
<1>3. GateInv => WithinDeviceLimit
    BY DEF GateInv
<1> QED BY <1>1, <1>2, <1>3, PTL DEF Spec

-----------------------------------------------------------------------------
(* The repository and the channels.  The queue of the lock and the tasks   *)
(* of the others are the same for every operation; the lemmas that follow  *)
(* say what an operation outside the lock, and one that has it, keeps.     *)

SessionsInv == GateInv /\ Inv /\ ClaimableHasChannel

\* The requests that are still to give their session a channel or to cancel it.
Delivering == {"register", "admit", "undo", "cancelOnly"}

\* A step leaves a caller where it is.
Stays(q) == /\ task'[q].pc = task[q].pc /\ task'[q].id = task[q].id
            /\ task'[q].code = task[q].code /\ task'[q].at = task[q].at
            /\ task'[q].tries = task[q].tries

\* A step does no more to a session than let it end or go.
Ages(i) == /\ created'[i] = created[i]
           /\ session[i] = "none" => session'[i] = "none"
           /\ session'[i] = "pending" => session[i] = "pending"
           /\ session'[i] = "none" /\ session[i] # "none" => Expires(i) <= clock

CallerMoves(p) ==
    \/ StartPairing(p) \/ StartClaim(p) \/ StartCancel(p) \/ StartSweep(p)
    \/ CallerStep(p)

\* A caller's step leaves the other callers where they are: the end of a call
\* only takes it from the links of the gate.
LEMMA OthersStay ==
    ASSUME GateInv, NEW p \in Callers, CallerMoves(p)
    PROVE  \A q \in Callers : q # p => Stays(q)
<1> SUFFICES ASSUME NEW q \in Callers, q # p PROVE Stays(q)
    OBVIOUS
<1>1. task \in [Callers -> Tasks] /\ task[q] \in Tasks
    BY DEF GateInv, GateType
<1>2. ASSUME NEW t, task' = [task EXCEPT ![p] = t] PROVE Stays(q)
    BY <1>1, <1>2 DEF Stays
<1>3. CASE Leaves(p)
  <2>1. task'[q] = IF task[q].prev = p THEN [task[q] EXCEPT !.prev = NoCaller]
                                       ELSE task[q]
      BY <1>3 DEF Leaves
  <2> QED BY <1>1, <2>1 DEF Stays, Tasks
<1>4. CASE StartPairing(p) \/ StartClaim(p) \/ StartCancel(p) \/ StartSweep(p)
    BY <1>2, <1>4 DEF StartPairing, StartClaim, StartCancel, StartSweep
<1>5. CASE \/ Generate(p) \/ RunCreate(p) \/ Register(p) \/ Admit(p) \/ Undo(p)
           \/ RunCancel(p) \/ Detach(p) \/ RunPrune(p) \/ RunExpire(p)
    BY <1>2, <1>5 DEF Generate, RunCreate, Register, Admit, Undo, RunCancel, Detach,
                      RunPrune, RunExpire, Goes, Ends
<1>6. CASE CountDevices(p) \/ RunClaim(p) \/ CreateDevice(p) \/ IssueCredential(p)
    BY <1>2, <1>3, <1>6 DEF CountDevices, RunClaim, CreateDevice, IssueCredential, Goes
<1> QED BY <1>4, <1>5, <1>6 DEF CallerMoves, CallerStep

-----------------------------------------------------------------------------
(* The queue. *)

\* A caller that did not wait takes the last place, behind the holder.
LEMMA QueueGrows ==
    ASSUME queue \in Seq(Callers), QueueIsWaiting, NEW p \in Callers,
           task[p].pc \notin Waiting, task'[p].pc \in Waiting,
           \A q \in Callers : q # p => Stays(q), Asks(p)
    PROVE  /\ queue' \in Seq(Callers) /\ QueueIsWaiting'
           /\ queue' # <<>> /\ (queue # <<>> => Head(queue') = Head(queue))
<1>1. /\ queue' \in Seq(Callers) /\ Len(queue') = Len(queue) + 1
      /\ Len(queue) \in Nat
      /\ queue'[Len(queue) + 1] = p
      /\ \A n \in 1..Len(queue) : queue'[n] = queue[n] /\ queue[n] \in Callers
    BY DEF Asks
<1>2. queue' # <<>> /\ (queue # <<>> => Head(queue') = Head(queue))
    BY <1>1 DEF Asks
<1>3. \A n \in 1..Len(queue) : queue[n] # p
    BY DEF QueueIsWaiting
<1>4. \A m, n \in 1..Len(queue)' : queue'[m] = queue'[n] => m = n
    BY <1>1, <1>3 DEF QueueIsWaiting
<1>5. ASSUME NEW q \in Callers
      PROVE  (\E n \in 1..Len(queue)' : queue'[n] = q) <=> task'[q].pc \in Waiting
  <2>1. CASE q = p
      BY <1>1, <2>1
  <2>2. CASE q # p
    <3>1. (\E n \in 1..Len(queue)' : queue'[n] = q)
             <=> (\E n \in 1..Len(queue) : queue[n] = q)
        BY <1>1, <2>2
    <3> QED BY <2>2, <3>1 DEF QueueIsWaiting, Stays
  <2> QED BY <2>1, <2>2
<1> QED BY <1>1, <1>2, <1>4, <1>5 DEF QueueIsWaiting, Waiting

\* The holder leaves the queue.
LEMMA QueueShrinks ==
    ASSUME queue \in Seq(Callers), QueueIsWaiting, NEW p \in Callers,
           Holds(p), HandsOn, task'[p].pc \notin Waiting,
           \A q \in Callers : q # p => Stays(q)
    PROVE  queue' \in Seq(Callers) /\ QueueIsWaiting'
<1>1. /\ queue' \in Seq(Callers) /\ Len(queue') = Len(queue) - 1
      /\ Len(queue) \in Nat \ {0} /\ queue[1] = p
      /\ \A n \in 1..Len(queue') : queue'[n] = queue[n + 1]
    BY DEF Holds, HandsOn
<1>2. \A m, n \in 1..Len(queue)' : queue'[m] = queue'[n] => m = n
    BY <1>1 DEF QueueIsWaiting
<1>3. ASSUME NEW q \in Callers
      PROVE  (\E n \in 1..Len(queue)' : queue'[n] = q) <=> task'[q].pc \in Waiting
  <2>1. CASE q = p
    <3>1. \A n \in 1..Len(queue)' : queue'[n] # p
        BY <1>1 DEF QueueIsWaiting
    <3> QED BY <2>1, <3>1
  <2>2. CASE q # p
    <3>1. ASSUME NEW n \in 1..Len(queue), queue[n] = q
          PROVE  \E m \in 1..Len(queue)' : queue'[m] = q
      <4>1. n # 1 /\ n - 1 \in 1..Len(queue)'
          BY <1>1, <2>2, <3>1
      <4>2. queue'[n - 1] = queue[(n - 1) + 1] /\ (n - 1) + 1 = n
          BY <1>1, <4>1
      <4> QED BY <3>1, <4>1, <4>2
    <3>2. ASSUME NEW n \in 1..Len(queue)', queue'[n] = q
          PROVE  \E m \in 1..Len(queue) : queue[m] = q
      <4>1. n + 1 \in 1..Len(queue)
          BY <1>1, <3>2
      <4> QED BY <1>1, <3>2, <4>1
    <3> QED BY <2>2, <3>1, <3>2 DEF QueueIsWaiting, Stays
  <2> QED BY <2>1, <2>2
<1> QED BY <1>1, <1>2, <1>3 DEF QueueIsWaiting, Waiting

\* Nobody comes or goes.
LEMMA QueueStands ==
    ASSUME QueueIsWaiting, NEW p \in Callers, queue' = queue,
           task[p].pc \in Waiting <=> task'[p].pc \in Waiting,
           \A q \in Callers : q # p => Stays(q)
    PROVE  QueueIsWaiting'
<1>1. \A q \in Callers : task[q].pc \in Waiting <=> task'[q].pc \in Waiting
    BY DEF Stays
<1> QED BY <1>1 DEF QueueIsWaiting, Waiting

-----------------------------------------------------------------------------
(* The tasks of the others, and the channels. *)

\* What the other callers rely on stays true when each session, but for one the
\* step itself creates, only ages, and no drawn identifier is touched.
LEMMA OthersStayTrue ==
    ASSUME TypeOK, TasksAreTrue, NEW p \in Callers, NEW q \in Callers, q # p,
           clock' = clock, \A s \in Callers : s # p => Stays(s),
           \A i \in Sessions : Ages(i) \/ (task[p].pc = "create" /\ i = task[p].id),
           task[q].pc = "create" => deadline'[task[q].id] = 0
                                    /\ task'[p].id # task[q].id
    PROVE  TaskIsTrue(q)'
<1>1. TaskIsTrue(q) /\ TaskIsTrue(p) /\ Stays(q)
    BY DEF TasksAreTrue
<1>2. task[q].pc \in Referring =>
          task[q].id \in Sessions /\ (Ages(task[q].id) \/ task[p].pc = "create")
    BY <1>1 DEF TaskIsTrue
<1>3. task[q].pc \in Referring => Ages(task[q].id)
    BY <1>1, <1>2 DEF TaskIsTrue
<1>4. task[q].pc = "create" => \A s \in Callers : task'[s].id = task[q].id => s = q
    BY <1>1 DEF TaskIsTrue, Stays
<1>5. task'[q].at <= clock'
    BY <1>1 DEF TaskIsTrue, Stays
<1>6. /\ task'[q].pc \in Referring => task'[q].id \in Sessions
      /\ task'[q].pc \in {"create", "claim", "device"} => task'[q].code \in Codes
    BY <1>1 DEF TaskIsTrue, Stays
<1>7. task'[q].pc = "create" =>
          session'[task'[q].id] = "none" /\ deadline'[task'[q].id] = 0
    BY <1>1, <1>3 DEF TaskIsTrue, Stays, Ages, Referring
<1>8. task'[q].pc \in {"register", "admit"} /\ session'[task'[q].id] = "none" =>
          Expires(task[q].id)' <= clock'
    BY <1>1, <1>3 DEF TaskIsTrue, Stays, Ages, Referring, Expires
<1>9. task'[q].pc \in {"cancelOnly", "cancel", "device"}
        /\ session'[task'[q].id] # "none" => created'[task'[q].id] <= task'[q].at
    BY <1>1, <1>3 DEF TaskIsTrue, Stays, Ages, Referring
<1>10. task'[q].pc = "detach" => session'[task'[q].id] # "pending"
    BY <1>1, <1>3 DEF TaskIsTrue, Stays, Ages, Referring
<1>11. task'[q].pc = "create" =>
          \A s \in Callers : task'[s].id = task'[q].id => s = q
    BY <1>1, <1>4 DEF Stays
<1>12. task'[q].pc = "device" => task'[q].at < Expires(task[q].id)'
    BY <1>1, <1>3 DEF TaskIsTrue, Stays, Ages, Referring, Expires
<1> QED BY <1>1, <1>5, <1>6, <1>7, <1>8, <1>9, <1>10, <1>11, <1>12
        DEF TaskIsTrue, Expires, Referring, Stays

\* The sessions that can be claimed keep their channel, or the request that is
\* to give them one, when the step does not take either.
LEMMA ChannelsStay ==
    ASSUME TypeOK, ClaimableHasChannel, NEW p \in Callers, clock' = clock,
           \A q \in Callers : q # p => Stays(q),
           \A i \in Sessions : Ages(i) \/ (task[p].pc = "create" /\ i = task[p].id),
           \A i \in Sessions : session'[i] = "pending" /\ clock < Expires(i)
                                  /\ i \in answered /\ deadline[i] # 0
                                  => i \in answered' /\ deadline'[i] # 0,
           task[p].pc \in Delivering
               /\ session'[task[p].id] = "pending" /\ clock < Expires(task[p].id)
               => \/ task'[p].pc \in Delivering /\ task'[p].id = task[p].id
                  \/ task[p].id \in answered' /\ deadline'[task[p].id] # 0,
           task[p].pc = "create" /\ session'[task[p].id] = "pending"
               => task'[p].pc = "register" /\ task'[p].id = task[p].id
    PROVE  ClaimableHasChannel'
<1> SUFFICES ASSUME NEW i \in Sessions, session'[i] = "pending", clock < Expires(i)'
             PROVE  \/ i \in answered' /\ deadline'[i] # 0
                    \/ \E q \in Callers : /\ task'[q].pc \in Delivering
                                          /\ task'[q].id = i
    BY DEF ClaimableHasChannel, Delivering, Expires
<1>1. CASE task[p].pc = "create" /\ i = task[p].id
    BY <1>1 DEF Delivering
<1>2. CASE Ages(i)
  <2>1. session[i] = "pending" /\ clock < Expires(i)
      BY <1>2 DEF Ages, Expires
  <2>2. CASE i \in answered /\ deadline[i] # 0
      BY <2>1, <2>2
  <2>3. ASSUME NEW q \in Callers, task[q].pc \in Delivering, task[q].id = i
        PROVE  \/ i \in answered' /\ deadline'[i] # 0
               \/ \E s \in Callers : /\ task'[s].pc \in Delivering
                                     /\ task'[s].id = i
    <3>1. CASE q = p
        BY <2>1, <2>3, <3>1
    <3>2. CASE q # p
        BY <2>3, <3>2 DEF Stays
    <3> QED BY <3>1, <3>2
  <2> QED BY <2>1, <2>2, <2>3 DEF ClaimableHasChannel, Delivering
<1> QED BY <1>1, <1>2

\* A claim that creates its device goes on from what it has read when no other
\* operation has the lock, and none does.
LEMMA DeviceHasLock ==
    ASSUME Inv, NEW p \in Callers, NEW q \in Callers, Holds(p), At(q, "device")
    PROVE  q = p
BY DEF Inv, ClaimStillHolds, Holds

-----------------------------------------------------------------------------
(* Outside the lock. *)

ChannelTimes == 0..(MaxTime + TTL + Delivery)

\* A step that does not touch the repository, and may ask for its lock.
LEMMA AwayStep ==
    ASSUME SessionsInv, GateInv', NEW p \in Callers,
           UNCHANGED <<clock, records>>,
           \A q \in Callers : q # p => Stays(q),
           task[p].pc \notin Waiting, task'[p].pc # "device",
           \/ task'[p].pc \notin Waiting /\ queue' = queue
           \/ task'[p].pc \in Waiting /\ Asks(p),
           task'[p].tries < MaxAttempts,
           deadline' \in [Sessions -> ChannelTimes], answered' \subseteq Stored,
           TaskIsTrue(p)',
           \A i \in Sessions : session[i] # "none" /\ deadline'[i] # 0 =>
                                  Expires(i) <= deadline'[i],
           \A q \in Callers : q # p /\ task[q].pc = "create" =>
               deadline'[task[q].id] = 0 /\ task'[p].id # task[q].id,
           \A i \in Sessions : session[i] = "pending" /\ clock < Expires(i)
                                  /\ i \in answered /\ deadline[i] # 0
                                  => i \in answered' /\ deadline'[i] # 0,
           task[p].pc \in Delivering
               /\ session[task[p].id] = "pending" /\ clock < Expires(task[p].id)
               => \/ task'[p].pc \in Delivering /\ task'[p].id = task[p].id
                  \/ task[p].id \in answered' /\ deadline'[task[p].id] # 0
    PROVE  SessionsInv'
<1>1. /\ TypeOK /\ IndexAgrees /\ TombsAreApart /\ ClaimStillHolds /\ QueueIsWaiting
      /\ TasksAreTrue /\ TimesAreOrdered /\ ClaimableHasChannel
    BY DEF SessionsInv, Inv
<1>2. /\ session' = session /\ code' = code /\ created' = created /\ clock' = clock
      /\ claimed' = claimed /\ devices' = devices /\ index' = index /\ tombs' = tombs
    BY DEF records
<1>3. queue \in Seq(Callers)
    BY <1>1 DEF TypeOK
<1>4. /\ queue' \in Seq(Callers) /\ QueueIsWaiting'
      /\ queue # <<>> => queue' # <<>> /\ Head(queue') = Head(queue)
    BY <1>1, <1>3, QueueGrows, QueueStands
<1>5. \A i \in Sessions : Ages(i)
    BY <1>2 DEF Ages
<1>6. TypeOK'
  <2>1. \A q \in Callers : task'[q].tries < MaxAttempts
      BY <1>1 DEF TypeOK, Stays
  <2>2. /\ task' \in [Callers -> Tasks] /\ owned' \in [Owners -> Nat]
        /\ tail' \in [Owners -> Callers \cup {NoCaller}]
      BY DEF GateInv, GateType
  <2> QED BY <1>1, <1>2, <1>4, <2>1, <2>2 DEF TypeOK, Stored, ChannelTimes
<1>7. IndexAgrees' /\ TombsAreApart'
    BY <1>1, <1>2 DEF IndexAgrees, TombsAreApart, Stored, SeqRange
<1>8. ClaimStillHolds'
  <2> SUFFICES ASSUME NEW q \in Callers, task'[q].pc = "device"
               PROVE  /\ session'[task'[q].id] = "pending"
                      /\ index'[task'[q].code] = task'[q].id /\ Holds(q)'
      BY DEF ClaimStillHolds, At
  <2>1. q # p /\ Stays(q)
      OBVIOUS
  <2>2. task[q].pc = "device"
      BY <2>1 DEF Stays
  <2>3. /\ session[task[q].id] = "pending"
        /\ index[task[q].code] = task[q].id /\ Holds(q)
      BY <1>1, <2>2 DEF ClaimStillHolds, At
  <2> QED BY <1>2, <1>4, <2>1, <2>3 DEF Stays, Holds
<1>9. TasksAreTrue'
  <2>1. ASSUME NEW q \in Callers, q # p PROVE TaskIsTrue(q)'
      BY <1>1, <1>2, <1>5, <2>1, OthersStayTrue
  <2> QED BY <2>1 DEF TasksAreTrue
<1>10. TimesAreOrdered'
    BY <1>1, <1>2 DEF TimesAreOrdered, Stored, Expires
<1>11. ClaimableHasChannel'
    BY <1>1, <1>2, <1>5, ChannelsStay DEF Delivering, Waiting
<1> QED BY <1>4, <1>6, <1>7, <1>8, <1>9, <1>10, <1>11 DEF SessionsInv, Inv

\* An operation that has the lock and leaves it.
LEMMA LockedStep ==
    ASSUME SessionsInv, GateInv', NEW p \in Callers,
           Holds(p), HandsOn, task'[p].pc \notin Waiting,
           UNCHANGED <<clock, deadline>>,
           \A q \in Callers : q # p => Stays(q),
           task'[p].tries < MaxAttempts, TaskIsTrue(p)',
           \A q \in Callers : q # p /\ task[q].pc = "create" =>
               task'[p].id # task[q].id,
           session' \in [Sessions -> {"none", "pending", "claimed", "expired",
                                      "cancelled"}],
           code' \in [Sessions -> Codes], devices' \in [Codes -> Nat],
           created' \in [Sessions -> Times], claimed' \in [Sessions -> Times],
           index' \in [Codes -> Sessions \cup {NoSession}],
           tombs' \in Seq(Codes), Len(tombs') <= MaxTombstones,
           answered' \subseteq Stored',
           IndexAgrees', TombsAreApart', TimesAreOrdered',
           \A i \in Sessions : Ages(i) \/ (task[p].pc = "create" /\ i = task[p].id),
           \A i \in Sessions : session'[i] = "pending" /\ i \in answered
                                  => i \in answered',
           task[p].pc \in Delivering /\ session'[task[p].id] = "pending"
               => Expires(task[p].id) <= clock,
           task[p].pc = "create" /\ session'[task[p].id] = "pending"
               => task'[p].pc = "register" /\ task'[p].id = task[p].id
    PROVE  SessionsInv'
<1>1. /\ TypeOK /\ IndexAgrees /\ TombsAreApart /\ ClaimStillHolds /\ QueueIsWaiting
      /\ TasksAreTrue /\ TimesAreOrdered /\ ClaimableHasChannel
    BY DEF SessionsInv, Inv
<1>2. queue' \in Seq(Callers) /\ QueueIsWaiting'
  <2>1. queue \in Seq(Callers)
      BY <1>1 DEF TypeOK
  <2> QED BY <1>1, <2>1, QueueShrinks
<1>3. TypeOK'
  <2>1. \A q \in Callers : task'[q].tries < MaxAttempts
      BY <1>1 DEF TypeOK, Stays
  <2>2. /\ task' \in [Callers -> Tasks] /\ owned' \in [Owners -> Nat]
        /\ tail' \in [Owners -> Callers \cup {NoCaller}]
      BY DEF GateInv, GateType
  <2>3. clock' \in Times /\ deadline' \in [Sessions -> 0..(MaxTime + TTL + Delivery)]
      BY <1>1 DEF TypeOK
  <2> QED BY <1>2, <2>1, <2>2, <2>3 DEF TypeOK
<1>4. ClaimStillHolds'
  <2>1. ASSUME NEW q \in Callers, task'[q].pc = "device" PROVE FALSE
    <3>1. q # p
        BY <2>1 DEF Waiting
    <3>2. At(q, "device")
        BY <2>1, <3>1 DEF Stays, At
    <3> QED BY <3>1, <3>2, DeviceHasLock DEF SessionsInv
  <2> QED BY <2>1 DEF ClaimStillHolds, At
<1>5. TasksAreTrue'
  <2>1. ASSUME NEW q \in Callers, q # p PROVE TaskIsTrue(q)'
    <3>1. task[q].pc = "create" => deadline'[task[q].id] = 0
        BY <1>1 DEF TasksAreTrue, TaskIsTrue
    <3> QED BY <1>1, <2>1, <3>1, OthersStayTrue
  <2> QED BY <2>1 DEF TasksAreTrue
<1>6. ClaimableHasChannel'
  <2>1. task[p].id \in Sessions => Expires(task[p].id) \in Int /\ clock \in Int
      BY <1>1, LimitsAreNat, SMTT(30) DEF TypeOK, Expires, Times
  <2>2. task[p].pc \in Delivering => task[p].id \in Sessions
      BY <1>1 DEF TasksAreTrue, TaskIsTrue, Delivering, Referring
  <2>3. task[p].pc \in Delivering /\ session'[task[p].id] = "pending"
            => ~(clock < Expires(task[p].id))
      BY <2>1, <2>2
  <2>4. \A i \in Sessions : session'[i] = "pending" /\ clock < Expires(i)
                                /\ i \in answered /\ deadline[i] # 0
                                => i \in answered' /\ deadline'[i] # 0
      OBVIOUS
  <2> QED BY <1>1, <2>3, <2>4, ChannelsStay
<1> QED BY <1>2, <1>3, <1>4, <1>5, <1>6 DEF SessionsInv, Inv

\* What a step outside the lock finds.
LEMMA AwayFacts ==
    ASSUME SessionsInv, NEW p \in Callers
    PROVE  /\ task[p] \in Tasks /\ task[p].tries < MaxAttempts
           /\ TaskIsTrue(p) /\ clock \in Nat
           /\ task \in [Callers -> Tasks]
           /\ tail \in [Owners -> Callers \cup {NoCaller}]
           /\ deadline \in [Sessions -> ChannelTimes] /\ answered \subseteq Stored
           /\ \A i \in Sessions : session[i] # "none" /\ deadline[i] # 0 =>
                                     Expires(i) <= deadline[i]
           /\ \A i \in Sessions : session[i] # "none" => created[i] <= clock
           /\ \A q \in Callers : task[q].pc = "create" =>
                 /\ task[q].id \in Sessions /\ deadline[task[q].id] = 0
                 /\ q # p => task[p].id # task[q].id
BY DEF SessionsInv, Inv, TypeOK, TimesAreOrdered, TasksAreTrue, TaskIsTrue, Stored,
       Times, ChannelTimes, GateInv, GateType, Referring

\* The task of a caller is a record of the type, and the time a natural number.
LEMMA TaskTyped ==
    ASSUME SessionsInv, NEW p \in Callers
    PROVE  task[p] \in Tasks /\ clock \in Nat
BY AwayFacts

\* A caller that ends is idle.
LEMMA EndsAway ==
    ASSUME SessionsInv, GateInv', NEW p \in Callers, task'[p] = Idle,
           UNCHANGED <<clock, records>>, queue' = queue, answered' = answered,
           \A q \in Callers : q # p => Stays(q),
           task[p].pc \notin Waiting, deadline' \in [Sessions -> ChannelTimes],
           \A i \in Sessions : deadline'[i] \in {0, deadline[i]},
           \A i \in Sessions : session[i] = "pending" => deadline'[i] = deadline[i],
           task[p].pc \notin Delivering
    PROVE  SessionsInv'
<1>1. TaskIsTrue(p)'
    BY AwayFacts DEF TaskIsTrue, Idle, Referring
<1>2. \A q \in Callers : q # p /\ task[q].pc = "create" =>
          deadline'[task[q].id] = 0 /\ task'[p].id # task[q].id
    BY AwayFacts DEF Idle
<1>3. task'[p].tries < MaxAttempts /\ task'[p].pc \notin Waiting \cup {"device"}
    BY LimitsAreNat DEF Idle, Waiting
<1>4. \A i \in Sessions : session[i] # "none" /\ deadline'[i] # 0 =>
                                  Expires(i) <= deadline'[i]
    BY AwayFacts
<1>5. answered' \subseteq Stored
    BY AwayFacts
<1> QED BY <1>1, <1>2, <1>3, <1>4, <1>5, AwayStep

\* A caller that goes on with no session of its own, or with that it had.
LEMMA GoesAway ==
    ASSUME SessionsInv, GateInv', NEW p \in Callers, NEW t \in Tasks, task'[p] = t,
           UNCHANGED <<clock, records, channel>>,
           \A q \in Callers : q # p => Stays(q),
           task[p].pc \notin Waiting, t.pc # "device",
           \/ t.pc \notin Waiting /\ queue' = queue
           \/ t.pc \in Waiting /\ Asks(p),
           t.tries = task[p].tries, TaskIsTrue(p)',
           \/ t.id = task[p].id
           \/ deadline[t.id] # 0
           \/ \A q \in Callers : task[q].id # t.id,
           task[p].pc \in Delivering => t.pc \in Delivering /\ t.id = task[p].id
    PROVE  SessionsInv'
<1>1. deadline' = deadline /\ answered' = answered
    BY DEF channel
<1>2. \A q \in Callers : q # p /\ task[q].pc = "create" =>
          deadline'[task[q].id] = 0 /\ task'[p].id # task[q].id
    BY <1>1, AwayFacts
<1> QED BY <1>1, <1>2, AwayFacts, AwayStep

LEMMA StartSteps ==
    ASSUME SessionsInv, GateInv', NEW p \in Callers,
           StartPairing(p) \/ StartClaim(p) \/ StartCancel(p) \/ StartSweep(p)
    PROVE  SessionsInv'
<1>1. \A q \in Callers : q # p => Stays(q)
    BY OthersStay DEF SessionsInv, CallerMoves
<1>2. /\ UNCHANGED <<clock, records, channel>> /\ task[p].pc = "idle"
      /\ task[p].pc \notin Waiting \cup Delivering
    BY DEF StartPairing, StartClaim, StartCancel, StartSweep, At, channel, Waiting,
           Delivering
<1>3. CASE StartPairing(p)
  <2> DEFINE t == [task[p] EXCEPT !.pc = "generate", !.at = clock]
  <2>1. /\ t \in Tasks
        /\ t.pc = "generate" /\ t.at = clock /\ t.id = task[p].id
        /\ t.tries = task[p].tries
    <3>1. t \in Tasks
        BY TaskTyped, Zenon DEF Tasks
    <3>2. /\ t.pc = "generate" /\ t.at = clock /\ t.id = task[p].id
          /\ t.tries = task[p].tries
        BY TaskTyped DEF Tasks
    <3> QED BY <3>1, <3>2
  <2>2. task'[p] = t /\ queue' = queue
      BY <1>3, AwayFacts DEF StartPairing
  <2> HIDE DEF t
  <2>3. TaskIsTrue(p)'
      BY <1>2, <2>1, <2>2, AwayFacts DEF TaskIsTrue, Referring
  <2>4. t.pc \notin Waiting \cup {"device"}
      BY <2>1 DEF Waiting
  <2> QED BY <1>1, <1>2, <2>1, <2>2, <2>3, <2>4, GoesAway
<1>4. CASE StartClaim(p)
  <2>1. PICK o \in Owners :
            task' = [task EXCEPT ![p] =
                       [@ EXCEPT !.pc = "gate", !.owner = o, !.prev = tail[o]]]
      BY <1>4 DEF StartClaim
  <2> DEFINE t == [task[p] EXCEPT !.pc = "gate", !.owner = o, !.prev = tail[o]]
  <2>2. /\ t \in Tasks
        /\ t.pc = "gate" /\ t.at = task[p].at /\ t.id = task[p].id
        /\ t.tries = task[p].tries
    <3>0. tail[o] \in Callers \cup {NoCaller}
        BY AwayFacts
    <3>1. t \in Tasks
        BY <3>0, TaskTyped, Zenon DEF Tasks
    <3>2. /\ t.pc = "gate" /\ t.at = task[p].at /\ t.id = task[p].id
          /\ t.tries = task[p].tries
        BY TaskTyped DEF Tasks
    <3> QED BY <3>1, <3>2
  <2>3. task'[p] = t /\ queue' = queue
      BY <1>4, <2>1, AwayFacts DEF StartClaim
  <2> HIDE DEF t
  <2>4. TaskIsTrue(p)'
      BY <1>2, <2>2, <2>3, AwayFacts DEF TaskIsTrue, Referring
  <2>5. t.pc \notin Waiting \cup {"device"}
      BY <2>2 DEF Waiting
  <2> QED BY <1>1, <1>2, <2>2, <2>3, <2>4, <2>5, GoesAway
<1>5. CASE StartCancel(p)
  <2>1. PICK i \in Sessions :
          /\ deadline[i] # 0
          /\ task' = [task EXCEPT ![p] =
                        [@ EXCEPT !.pc = "cancel", !.id = i, !.at = clock]]
      BY <1>5 DEF StartCancel
  <2> DEFINE t == [task[p] EXCEPT !.pc = "cancel", !.id = i, !.at = clock]
  <2>2. /\ t \in Tasks
        /\ t.pc = "cancel" /\ t.at = clock /\ t.id = i
        /\ t.tries = task[p].tries
    <3>1. t \in Tasks
        BY TaskTyped, Zenon DEF Tasks
    <3>2. /\ t.pc = "cancel" /\ t.at = clock /\ t.id = i
          /\ t.tries = task[p].tries
        BY TaskTyped DEF Tasks
    <3> QED BY <3>1, <3>2
  <2>3. task'[p] = t /\ Asks(p)
      BY <1>5, <2>1, AwayFacts DEF StartCancel
  <2> HIDE DEF t
  <2>4. TaskIsTrue(p)'
      BY <1>2, <2>2, <2>3, AwayFacts DEF TaskIsTrue, Referring, records
  <2>5. t.pc \in Waiting /\ t.pc # "device"
      BY <2>2 DEF Waiting
  <2> QED BY <1>1, <1>2, <2>1, <2>2, <2>3, <2>4, <2>5, GoesAway
<1>6. CASE StartSweep(p)
  <2>1. PICK pc \in {"prune", "expire"} :
            task' = [task EXCEPT ![p] = [@ EXCEPT !.pc = pc, !.at = clock]]
      BY <1>6 DEF StartSweep
  <2> DEFINE t == [task[p] EXCEPT !.pc = pc, !.at = clock]
  <2>2. /\ t \in Tasks
        /\ t.pc = pc /\ t.at = clock /\ t.id = task[p].id
        /\ t.tries = task[p].tries
    <3>1. t \in Tasks
        BY TaskTyped, Zenon DEF Tasks
    <3>2. /\ t.pc = pc /\ t.at = clock /\ t.id = task[p].id
          /\ t.tries = task[p].tries
        BY TaskTyped DEF Tasks
    <3> QED BY <3>1, <3>2
  <2>3. task'[p] = t /\ Asks(p)
      BY <1>6, <2>1, AwayFacts DEF StartSweep
  <2> HIDE DEF t
  <2>4. TaskIsTrue(p)'
      BY <1>2, <2>2, <2>3, AwayFacts DEF TaskIsTrue, Referring
  <2>5. t.pc \in Waiting /\ t.pc # "device"
      BY <2>2 DEF Waiting
  <2> QED BY <1>1, <1>2, <2>2, <2>3, <2>4, <2>5, GoesAway
<1> QED BY <1>3, <1>4, <1>5, <1>6

LEMMA GenerateStep ==
    ASSUME SessionsInv, GateInv', NEW p \in Callers, Generate(p)
    PROVE  SessionsInv'
<1>1. \A q \in Callers : q # p => Stays(q)
    BY OthersStay DEF SessionsInv, CallerMoves, CallerStep
<1>2. /\ UNCHANGED <<clock, records, channel>> /\ task[p].pc = "generate"
      /\ task[p].pc \notin Waiting \cup Delivering
    BY DEF Generate, At, channel, Waiting, Delivering
<1>3. ASSUME NEW i \in Sessions, Drawable(i), NEW c \in Codes, Asks(p),
             task' = [task EXCEPT ![p] =
                        [@ EXCEPT !.pc = "create", !.id = i, !.code = c]]
      PROVE  SessionsInv'
  <2> DEFINE t == [task[p] EXCEPT !.pc = "create", !.id = i, !.code = c]
  <2>1. /\ t \in Tasks
        /\ t.pc = "create" /\ t.at = task[p].at /\ t.id = i
        /\ t.code = c /\ t.tries = task[p].tries
    <3>1. t \in Tasks
        BY TaskTyped, Zenon DEF Tasks
    <3>2. /\ t.pc = "create" /\ t.at = task[p].at /\ t.id = i
          /\ t.code = c /\ t.tries = task[p].tries
        BY TaskTyped DEF Tasks
    <3> QED BY <3>1, <3>2
  <2>2. task'[p] = t
      BY <1>3, AwayFacts
  <2> HIDE DEF t
  <2>3. \A q \in Callers : task'[q].id = i => q = p
      BY <1>1, <1>3 DEF Drawable, Stays
  <2>4. TaskIsTrue(p)'
      BY <1>2, <1>3, <2>1, <2>2, <2>3, AwayFacts
      DEF TaskIsTrue, Referring, Drawable, records, channel
  <2>5. t.pc \in Waiting /\ t.pc # "device"
      BY <2>1 DEF Waiting
  <2> QED BY <1>1, <1>2, <1>3, <2>1, <2>2, <2>4, <2>5, GoesAway DEF Drawable
<1>4. CASE Ends(p) /\ UNCHANGED queue
  <2>1. task'[p] = Idle
      BY <1>4, AwayFacts DEF Ends
  <2> QED BY <1>1, <1>2, <1>4, <2>1, AwayFacts, EndsAway DEF channel
<1> QED BY <1>3, <1>4 DEF Generate

LEMMA RegisterStep ==
    ASSUME SessionsInv, GateInv', NEW p \in Callers, Register(p) \/ Undo(p)
    PROVE  SessionsInv'
<1>1. \A q \in Callers : q # p => Stays(q)
    BY OthersStay DEF SessionsInv, CallerMoves, CallerStep
<1>2. /\ UNCHANGED <<clock, records, channel>>
      /\ task[p].pc \in {"register", "undo"} /\ task[p].pc \notin Waiting
    BY DEF Register, Undo, At, Waiting
<1>3. CASE Register(p)
  <2> DEFINE pc == IF clock < Expires(task[p].id) THEN "admit" ELSE "undo"
             t == [task[p] EXCEPT !.pc = pc]
  <2>1. pc \in {"admit", "undo"}
      OBVIOUS
  <2>2. task' = [task EXCEPT ![p].pc = pc] /\ queue' = queue /\ task[p].pc = "register"
      BY <1>3 DEF Register, Goes, At
  <2> HIDE DEF pc
  <2>3. /\ t \in Tasks
        /\ t.pc = pc /\ t.at = task[p].at /\ t.id = task[p].id
        /\ t.tries = task[p].tries
    <3>1. t \in Tasks
        BY <2>1, TaskTyped, Zenon DEF Tasks
    <3>2. /\ t.pc = pc /\ t.at = task[p].at /\ t.id = task[p].id
          /\ t.tries = task[p].tries
        BY <2>1, TaskTyped DEF Tasks
    <3> QED BY <3>1, <3>2
  <2>4. task'[p] = t
      BY <2>2, AwayFacts
  <2> HIDE DEF t
  <2>5. TaskIsTrue(p)'
      BY <1>2, <2>1, <2>2, <2>3, <2>4, AwayFacts
      DEF TaskIsTrue, Referring, records, Expires
  <2>6. t.pc \in Delivering /\ t.pc \notin Waiting /\ t.pc # "device"
      BY <2>1, <2>3 DEF Waiting, Delivering
  <2> QED BY <1>1, <1>2, <2>2, <2>3, <2>4, <2>5, <2>6, GoesAway
<1>4. CASE Undo(p)
  <2> DEFINE t == [task[p] EXCEPT !.pc = "cancelOnly", !.at = clock]
  <2>1. /\ t \in Tasks
        /\ t.pc = "cancelOnly" /\ t.at = clock /\ t.id = task[p].id
        /\ t.tries = task[p].tries
    <3>1. t \in Tasks
        BY TaskTyped, Zenon DEF Tasks
    <3>2. /\ t.pc = "cancelOnly" /\ t.at = clock /\ t.id = task[p].id
          /\ t.tries = task[p].tries
        BY TaskTyped DEF Tasks
    <3> QED BY <3>1, <3>2
  <2>2. task'[p] = t /\ Asks(p) /\ task[p].pc = "undo"
      BY <1>4, AwayFacts DEF Undo, At
  <2> HIDE DEF t
  <2>3. TaskIsTrue(p)'
      BY <1>2, <2>1, <2>2, AwayFacts DEF TaskIsTrue, Referring, records
  <2>4. t.pc \in Waiting /\ t.pc \in Delivering /\ t.pc # "device"
      BY <2>1 DEF Waiting, Delivering
  <2> QED BY <1>1, <1>2, <2>1, <2>2, <2>3, <2>4, GoesAway
<1> QED BY <1>3, <1>4

LEMMA AdmitStep ==
    ASSUME SessionsInv, GateInv', NEW p \in Callers, Admit(p)
    PROVE  SessionsInv'
<1> DEFINE i == task[p].id
<1>1. \A q \in Callers : q # p => Stays(q)
    BY OthersStay DEF SessionsInv, CallerMoves, CallerStep
<1>2. /\ UNCHANGED <<clock, records>> /\ queue' = queue
      /\ task[p].pc = "admit" /\ task[p].pc \notin Waiting
    BY DEF Admit, At, Waiting
<1>3. i \in Sessions
    BY <1>2, AwayFacts DEF TaskIsTrue, Referring
<1>4. CASE Admissible(i)
  <2>1. /\ deadline' = [deadline EXCEPT ![i] = Expires(i) + Delivery]
        /\ answered' = answered \cup {i} /\ task'[p] = Idle
      BY <1>4, AwayFacts DEF Admit, Ends
  <2>2. created[i] \in Nat /\ created[i] <= MaxTime /\ clock \in Nat
      BY <1>3 DEF SessionsInv, Inv, TypeOK, Times
  <2>3. session[i] # "none"
    <3>1. session[i] = "none" => Expires(i) <= clock
        BY <1>2, AwayFacts DEF TaskIsTrue
    <3>2. clock < Expires(i) /\ Expires(i) \in Int
        BY <1>4, <2>2, LimitsAreNat DEF Admissible, Expires
    <3> QED BY <2>2, <3>1, <3>2
  <2>4. /\ Expires(i) + Delivery \in ChannelTimes /\ Expires(i) + Delivery # 0
        /\ Expires(i) <= Expires(i) + Delivery
      BY <2>2, LimitsAreNat DEF Expires, ChannelTimes
  <2>5. /\ deadline' \in [Sessions -> ChannelTimes] /\ deadline'[i] = Expires(i) + Delivery
        /\ \A j \in Sessions : j # i => deadline'[j] = deadline[j]
      BY <1>3, <2>1, <2>4, AwayFacts
  <2>6. TaskIsTrue(p)'
      BY <1>2, <2>1, AwayFacts DEF TaskIsTrue, Idle, Referring
  <2>7. \A q \in Callers : q # p /\ task[q].pc = "create" =>
            deadline'[task[q].id] = 0 /\ task'[p].id # task[q].id
      BY <2>1, <2>5, AwayFacts DEF Idle
  <2>8. task'[p].tries < MaxAttempts /\ task'[p].pc \notin Waiting \cup {"device"}
      BY <2>1, LimitsAreNat DEF Idle, Waiting
  <2>9. answered' \subseteq Stored
      BY <1>3, <2>1, <2>3, AwayFacts DEF Stored
  <2>10. \A j \in Sessions : session[j] # "none" /\ deadline'[j] # 0 =>
                                    Expires(j) <= deadline'[j]
      BY <2>4, <2>5, AwayFacts
  <2>11. \A j \in Sessions : deadline[j] # 0 => deadline'[j] # 0
      BY <2>4, <2>5
  <2>12. i \in answered' /\ deadline'[i] # 0 /\ answered \subseteq answered'
      BY <2>1, <2>4, <2>5
  <2> HIDE DEF i
  <2> QED BY <1>1, <1>2, <2>5, <2>6, <2>7, <2>8, <2>9, <2>10, <2>11, <2>12, AwayStep DEF i
<1>5. CASE ~Admissible(i)
  <2> DEFINE t == [task[p] EXCEPT !.pc = "undo"]
  <2>1. /\ t \in Tasks
        /\ t.pc = "undo" /\ t.at = task[p].at /\ t.id = task[p].id
        /\ t.tries = task[p].tries
    <3>1. t \in Tasks
        BY TaskTyped, Zenon DEF Tasks
    <3>2. /\ t.pc = "undo" /\ t.at = task[p].at /\ t.id = task[p].id
          /\ t.tries = task[p].tries
        BY TaskTyped DEF Tasks
    <3> QED BY <3>1, <3>2
  <2>2. task'[p] = t /\ UNCHANGED channel
      BY <1>5, AwayFacts DEF Admit, Goes
  <2> HIDE DEF t
  <2>3. TaskIsTrue(p)'
      BY <1>2, <1>3, <2>1, <2>2, AwayFacts DEF TaskIsTrue, Referring
  <2>4. t.pc \in Delivering /\ t.pc \notin Waiting /\ t.pc # "device"
      BY <2>1 DEF Waiting, Delivering
  <2> QED BY <1>1, <1>2, <2>1, <2>2, <2>3, <2>4, GoesAway
<1> QED BY <1>4, <1>5

LEMMA DetachStep ==
    ASSUME SessionsInv, GateInv', NEW p \in Callers, Detach(p)
    PROVE  SessionsInv'
<1>1. \A q \in Callers : q # p => Stays(q)
    BY OthersStay DEF SessionsInv, CallerMoves, CallerStep
<1>2. /\ UNCHANGED <<clock, records>> /\ queue' = queue /\ answered' = answered
      /\ task[p].pc = "detach" /\ task[p].pc \notin Waiting \cup Delivering
    BY DEF Detach, At, Waiting, Delivering
<1>3. task'[p] = Idle
    BY AwayFacts DEF Detach, Ends
<1>4. task[p].id \in Sessions /\ session[task[p].id] # "pending"
    BY <1>2, AwayFacts DEF TaskIsTrue, Referring
<1>5. /\ deadline' \in [Sessions -> ChannelTimes] /\ deadline'[task[p].id] = 0
      /\ \A i \in Sessions : i # task[p].id => deadline'[i] = deadline[i]
  <2>1. 0 \in ChannelTimes
      BY LimitsAreNat DEF ChannelTimes
  <2> QED BY <1>4, <2>1, AwayFacts DEF Detach
<1> QED BY <1>1, <1>2, <1>3, <1>4, <1>5, EndsAway

LEMMA CountDevicesStep ==
    ASSUME SessionsInv, GateInv', NEW p \in Callers,
           CountDevices(p) \/ IssueCredential(p)
    PROVE  SessionsInv'
<1>1. \A q \in Callers : q # p => Stays(q)
    BY OthersStay DEF SessionsInv, CallerMoves, CallerStep
<1>2. /\ UNCHANGED <<clock, records, channel>> /\ task[p].pc \in {"gate", "issue"}
      /\ task[p].pc \notin Waiting \cup Delivering
    BY DEF CountDevices, IssueCredential, At, channel, Waiting, Delivering
<1>3. CASE Leaves(p) /\ UNCHANGED queue
  <2>1. task'[p] = Idle
      BY <1>3 DEF Leaves
  <2> QED BY <1>1, <1>2, <1>3, <2>1, AwayFacts, EndsAway DEF channel
<1>4. ASSUME NEW c \in Codes, Asks(p),
             task' = [task EXCEPT ![p] = [@ EXCEPT !.pc = "claim", !.code = c]]
      PROVE  SessionsInv'
  <2> DEFINE t == [task[p] EXCEPT !.pc = "claim", !.code = c]
  <2>1. /\ t \in Tasks
        /\ t.pc = "claim" /\ t.at = task[p].at /\ t.id = task[p].id
        /\ t.code = c /\ t.tries = task[p].tries
    <3>1. t \in Tasks
        BY TaskTyped, Zenon DEF Tasks
    <3>2. /\ t.pc = "claim" /\ t.at = task[p].at /\ t.id = task[p].id
          /\ t.code = c /\ t.tries = task[p].tries
        BY TaskTyped DEF Tasks
    <3> QED BY <3>1, <3>2
  <2>2. task'[p] = t
      BY <1>4, AwayFacts
  <2> HIDE DEF t
  <2>3. TaskIsTrue(p)'
      BY <1>2, <2>1, <2>2, AwayFacts DEF TaskIsTrue, Referring
  <2>4. t.pc \in Waiting /\ t.pc # "device"
      BY <2>1 DEF Waiting
  <2> QED BY <1>1, <1>2, <1>4, <2>1, <2>2, <2>3, <2>4, GoesAway
<1> QED BY <1>3, <1>4 DEF CountDevices, IssueCredential

-----------------------------------------------------------------------------
(* With the lock. *)

States == {"none", "pending", "claimed", "expired", "cancelled"}

\* What an operation that has the lock finds.
LEMMA LockedFacts ==
    ASSUME SessionsInv, NEW p \in Callers
    PROVE  /\ task[p] \in Tasks /\ task[p].tries < MaxAttempts /\ task[p].at \in Nat
           /\ task[p].at <= clock /\ TaskIsTrue(p) /\ clock \in Nat /\ clock <= MaxTime
           /\ task \in [Callers -> Tasks]
           /\ session \in [Sessions -> States] /\ code \in [Sessions -> Codes]
           /\ created \in [Sessions -> Times] /\ claimed \in [Sessions -> Times]
           /\ devices \in [Codes -> Nat] /\ index \in [Codes -> Sessions \cup {NoSession}]
           /\ tombs \in Seq(Codes) /\ Len(tombs) <= MaxTombstones
           /\ answered \subseteq Stored
           /\ \A i \in Sessions : Expires(i) \in Nat
           /\ \A q \in Callers : task[q].pc = "create" =>
                 /\ task[q].id \in Sessions /\ session[task[q].id] = "none"
                 /\ q # p => task[p].id # task[q].id
<1>1. /\ \A i \in Sessions : Expires(i) \in Nat
      /\ task[p].at \in Nat /\ clock \in Nat /\ clock <= MaxTime
    BY LimitsAreNat, SMTT(30)
    DEF SessionsInv, Inv, TypeOK, Times, Expires, GateInv, GateType, Tasks
<1> QED BY <1>1 DEF SessionsInv, Inv, TypeOK, TasksAreTrue, TaskIsTrue, Stored, States,
                    GateInv, GateType, Referring

\* Pruning takes an expired or an old claimed session, after its life is over.
LEMMA RipeIsOver ==
    ASSUME SessionsInv, NEW p \in Callers, NEW i \in Sessions, Ripe(i, task[p].at)
    PROVE  Expires(i) <= clock
<1>1. /\ task[p].at <= clock /\ task[p].at \in Nat /\ clock \in Nat
      /\ created[i] \in Nat /\ claimed[i] \in Nat
    BY LockedFacts DEF Times
<1>2. session[i] = "claimed" => created[i] <= claimed[i]
    BY DEF SessionsInv, Inv, TimesAreOrdered, Stored
<1> QED BY <1>1, <1>2, LimitsAreNat, ClaimedOutlivesPending DEF Ripe, Expires

\* Pruning keeps the two maps in agreement.
LEMMA PrunedAgrees ==
    ASSUME SessionsInv, NEW at
    PROVE  /\ Surviving(at) \in [Sessions -> States]
           /\ IndexAfter(at) \in [Codes -> Sessions \cup {NoSession}]
           /\ \A c \in Codes, i \in Sessions :
                 IndexAfter(at)[c] = i <=> Surviving(at)[i] # "none" /\ code[i] = c
<1>1. /\ session \in [Sessions -> States] /\ code \in [Sessions -> Codes]
      /\ index \in [Codes -> Sessions \cup {NoSession}] /\ IndexAgrees
    BY DEF SessionsInv, Inv, TypeOK, States
<1>2. Surviving(at) \in [Sessions -> States]
    BY <1>1 DEF Surviving, States
<1>3. IndexAfter(at) \in [Codes -> Sessions \cup {NoSession}]
    BY <1>1 DEF IndexAfter
<1>4. ASSUME NEW c \in Codes, NEW i \in Sessions
      PROVE  IndexAfter(at)[c] = i <=> Surviving(at)[i] # "none" /\ code[i] = c
  <2>1. CASE c \in RipeCodes(at)
    <3>1. PICK j \in Sessions : Ripe(j, at) /\ code[j] = c
        BY <2>1 DEF RipeCodes
    <3>2. index[c] = j
        BY <1>1, <3>1 DEF IndexAgrees, Ripe
    <3>3. session[i] # "none" /\ code[i] = c => i = j
        BY <1>1, <3>2 DEF IndexAgrees
    <3> QED BY <2>1, <3>1, <3>3 DEF IndexAfter, Surviving
  <2>2. CASE c \notin RipeCodes(at)
    <3>1. IndexAfter(at)[c] = index[c]
        BY <2>2 DEF IndexAfter
    <3>2. code[i] = c => ~Ripe(i, at)
        BY <2>2 DEF RipeCodes
    <3> QED BY <1>1, <3>1, <3>2 DEF IndexAgrees, Surviving
  <2> QED BY <2>1, <2>2
<1> QED BY <1>2, <1>3, <1>4

\* What pruning appends: each digest once.
LEMMA OrderIsSequence ==
    ASSUME SessionsInv, NEW at, NEW o \in Orders(RipeCodes(at))
    PROVE  /\ o \in Seq(Codes)
           /\ \A n \in 1..Len(o) : o[n] \in RipeCodes(at)
           /\ \A m, n \in 1..Len(o) : o[m] = o[n] => m = n
<1> DEFINE S == RipeCodes(at)
           N == Cardinality(S)
<1>1. S \subseteq Codes
    BY DEF SessionsInv, Inv, TypeOK, RipeCodes
<1>2. N \in Nat /\ IsFiniteSet(S)
    BY <1>1, CodesAreFinite, FS_Subset, FS_CardinalityType
<1> HIDE DEF N
<1>3. o \in [1..N -> S] /\ SeqRange(o) = S
    BY DEF Orders, N
<1> HIDE DEF S
<1>4. o \in Seq(Codes) /\ Len(o) = N
    BY <1>1, <1>2, <1>3
<1>5. o \in Surjection(1..N, S)
    BY <1>3, <1>4 DEF Surjection, SeqRange
<1>6. IsFiniteSet(1..N) /\ Cardinality(1..N) = Cardinality(S)
    BY <1>2, FS_Interval DEF N
<1>7. o \in Injection(1..N, S)
    BY <1>2, <1>5, <1>6, FS_SurjSameCardinalityImpliesInj
<1> QED BY <1>3, <1>4, <1>7 DEF Injection, IsInjective, S

\* The tombstones stay codes, each once, and within their bound; they are those
\* there were and those of the removed sessions.
LEMMA TombsStay ==
    ASSUME SessionsInv, NEW at, ForgetRipe(at)
    PROVE  /\ tombs' \in Seq(Codes) /\ Len(tombs') <= MaxTombstones
           /\ SeqRange(tombs') \subseteq SeqRange(tombs) \cup RipeCodes(at)
           /\ \A m, n \in 1..Len(tombs') : tombs'[m] = tombs'[n] => m = n
           /\ MaxTombstones >= Cardinality(Codes) =>
                 SeqRange(tombs) \cup RipeCodes(at) \subseteq SeqRange(tombs')
<1>1. tombs \in Seq(Codes) /\ TombsAreApart
    BY DEF SessionsInv, Inv, TypeOK
<1>2. PICK o \in Orders(RipeCodes(at)) :
          tombs' = IF Len(tombs \o o) > MaxTombstones THEN Newest(tombs \o o)
                                                      ELSE tombs \o o
    BY DEF ForgetRipe
<1>3. /\ o \in Seq(Codes)
      /\ \A n \in 1..Len(o) : o[n] \in RipeCodes(at)
      /\ \A m, n \in 1..Len(o) : o[m] = o[n] => m = n
    BY OrderIsSequence
<1>4. SeqRange(o) = RipeCodes(at)
    BY DEF Orders
<1> DEFINE all == tombs \o o
<1>5. /\ all \in Seq(Codes) /\ Len(all) = Len(tombs) + Len(o)
      /\ Len(all) \in Nat /\ Len(tombs) \in Nat /\ Len(o) \in Nat
      /\ \A n \in 1..Len(tombs) : all[n] = tombs[n]
      /\ \A n \in 1..Len(o) : all[Len(tombs) + n] = o[n]
    BY <1>1, <1>3
<1> HIDE DEF all
<1>6. ASSUME NEW n \in 1..Len(all)
      PROVE  \/ n \in 1..Len(tombs) /\ all[n] = tombs[n]
             \/ /\ n - Len(tombs) \in 1..Len(o) /\ all[n] = o[n - Len(tombs)]
                /\ n \notin 1..Len(tombs)
  <2>1. CASE n <= Len(tombs)
      BY <1>5, <2>1
  <2>2. CASE ~(n <= Len(tombs))
    <3>1. n - Len(tombs) \in 1..Len(o) /\ Len(tombs) + (n - Len(tombs)) = n
        BY <1>5, <2>2
    <3>2. all[Len(tombs) + (n - Len(tombs))] = o[n - Len(tombs)]
        BY <1>5, <3>1
    <3> QED BY <2>2, <3>1, <3>2
  <2> QED BY <2>1, <2>2
<1>7. /\ \A n \in 1..Len(tombs) : tombs[n] \in SeqRange(tombs)
      /\ SeqRange(tombs) \cap RipeCodes(at) = {}
  <2>1. \A i \in Sessions : Ripe(i, at) => code[i] \notin SeqRange(tombs)
      BY <1>1 DEF TombsAreApart, Stored, Ripe
  <2> QED BY <2>1 DEF SeqRange, RipeCodes
<1>8. \A n \in 1..Len(all) : all[n] \in SeqRange(tombs) \cup RipeCodes(at)
    BY <1>3, <1>6, <1>7
<1>9. ASSUME NEW m \in 1..Len(all), NEW n \in 1..Len(all), all[m] = all[n]
      PROVE  m = n
  <2>1. CASE m \in 1..Len(tombs) /\ n \in 1..Len(tombs)
      BY <1>1, <1>5, <1>9, <2>1 DEF TombsAreApart
  <2>2. CASE m \notin 1..Len(tombs) /\ n \notin 1..Len(tombs)
    <3>1. /\ m - Len(tombs) \in 1..Len(o) /\ all[m] = o[m - Len(tombs)]
          /\ n - Len(tombs) \in 1..Len(o) /\ all[n] = o[n - Len(tombs)]
        BY <1>6, <2>2
    <3>2. m - Len(tombs) = n - Len(tombs)
        BY <1>3, <1>9, <3>1
    <3> QED BY <1>5, <3>2
  <2>3. CASE m \in 1..Len(tombs) /\ n \notin 1..Len(tombs)
      BY <1>3, <1>6, <1>7, <1>9, <2>3
  <2>4. CASE m \notin 1..Len(tombs) /\ n \in 1..Len(tombs)
      BY <1>3, <1>6, <1>7, <1>9, <2>4
  <2> QED BY <2>1, <2>2, <2>3, <2>4
<1>10. CASE Len(all) > MaxTombstones
  <2> DEFINE first == Len(all) - MaxTombstones + 1
  <2>1. tombs' = SubSeq(all, first, Len(all))
      BY <1>2, <1>10 DEF Newest, all
  <2>2. first \in 1..(Len(all) + 1) /\ first > 1
      BY <1>5, <1>10, LimitsAreNat
  <2>3. Len(all) - first + 1 = MaxTombstones
      BY <1>5, LimitsAreNat
  <2> HIDE DEF first
  <2>4. tombs' \in Seq(Codes)
      BY <1>5, <2>1, <2>2
  <2>5. Len(tombs') = MaxTombstones
      BY <1>5, <2>1, <2>2, <2>3
  <2>6. \A n \in 1..Len(tombs') :
            first + n - 1 \in 1..Len(all) /\ tombs'[n] = all[first + n - 1]
      BY <1>5, <2>1, <2>2, <2>3, <2>5
  <2>7. SeqRange(tombs') \subseteq SeqRange(tombs) \cup RipeCodes(at)
      BY <1>8, <2>6 DEF SeqRange
  <2>8. ASSUME NEW m \in 1..Len(tombs'), NEW n \in 1..Len(tombs'),
               tombs'[m] = tombs'[n]
        PROVE  m = n
    <3>1. first + m - 1 = first + n - 1
        BY <1>9, <2>6, <2>8
    <3> QED BY <2>2, <2>5, <3>1, LimitsAreNat
  \* All the codes would not fill it.
  <2>9. ~(MaxTombstones >= Cardinality(Codes))
    <3>1. all \in Injection(1..Len(all), Codes)
        BY <1>5, <1>9 DEF Injection, IsInjective
    <3>2. Cardinality(1..Len(all)) <= Cardinality(Codes)
        BY <3>1, CodesAreFinite, FS_Injection
    <3>3. \A n \in Nat : Cardinality(1..n) = n
        BY FS_Interval
    <3>4. Cardinality(Codes) \in Nat
        BY CodesAreFinite, FS_CardinalityType
    <3> QED BY <1>5, <1>10, <3>2, <3>3, <3>4, LimitsAreNat
  <2> QED BY <2>4, <2>5, <2>7, <2>8, <2>9, LimitsAreNat
<1>11. CASE ~(Len(all) > MaxTombstones)
  <2>1. tombs' = all
      BY <1>2, <1>11 DEF all
  <2>2. Len(tombs') <= MaxTombstones
      BY <1>5, <1>11, <2>1, LimitsAreNat
  <2>3. SeqRange(tombs') \subseteq SeqRange(tombs) \cup RipeCodes(at)
      BY <1>8, <2>1 DEF SeqRange
  <2>4. SeqRange(tombs) \subseteq SeqRange(tombs')
      BY <1>5, <2>1 DEF SeqRange
  <2>5. SeqRange(o) \subseteq SeqRange(tombs')
    <3>1. \A n \in 1..Len(o) : Len(tombs) + n \in 1..Len(all)
        BY <1>5
    <3> QED BY <1>5, <2>1, <3>1 DEF SeqRange
  <2> QED BY <1>4, <1>5, <1>9, <2>1, <2>2, <2>3, <2>4, <2>5
<1> QED BY <1>10, <1>11

\* The sessions that are left after pruning have none of the tombstones' codes.
LEMMA PrunedApart ==
    ASSUME SessionsInv, NEW at, ForgetRipe(at),
           NEW i \in Sessions, Surviving(at)[i] # "none"
    PROVE  code[i] \notin SeqRange(tombs')
<1>1. session[i] # "none" /\ ~Ripe(i, at) /\ code[i] \in Codes
    BY DEF Surviving, SessionsInv, Inv, TypeOK
<1>2. code[i] \notin SeqRange(tombs)
    BY <1>1 DEF SessionsInv, Inv, TombsAreApart, Stored
<1>3. code[i] \notin RipeCodes(at)
  <2>1. ASSUME NEW j \in Sessions, Ripe(j, at), code[j] = code[i] PROVE FALSE
    <3>1. index[code[i]] = i /\ index[code[i]] = j
        BY <1>1, <2>1 DEF SessionsInv, Inv, IndexAgrees, Ripe
    <3> QED BY <1>1, <2>1, <3>1
  <2> QED BY <2>1 DEF RipeCodes
<1> QED BY <1>2, <1>3, TombsStay

\* An operation of which nothing is left to do once it has the lock.
LEMMA LockedEnds ==
    ASSUME SessionsInv, GateInv', NEW p \in Callers, Holds(p), HandsOn,
           task'[p] = Idle, task[p].pc # "create",
           UNCHANGED <<clock, deadline>>,
           \A q \in Callers : q # p => Stays(q),
           session' \in [Sessions -> States],
           code' = code, devices' \in [Codes -> Nat], created' = created,
           claimed' = claimed,
           index' \in [Codes -> Sessions \cup {NoSession}],
           tombs' \in Seq(Codes), Len(tombs') <= MaxTombstones,
           answered' = answered \ {i \in Sessions : session'[i] = "none"},
           IndexAgrees', TombsAreApart',
           \A i \in Sessions : session'[i] = "claimed" => session[i] = "claimed",
           \A i \in Sessions : Ages(i),
           task[p].pc \in Delivering /\ session'[task[p].id] = "pending"
               => Expires(task[p].id) <= clock
    PROVE  SessionsInv'
<1>1. /\ task'[p].tries < MaxAttempts /\ task'[p].pc \notin Waiting
      /\ \A q \in Callers : q # p /\ task[q].pc = "create" =>
             task'[p].id # task[q].id
    BY LockedFacts, LimitsAreNat DEF Idle, Waiting
<1>2. TaskIsTrue(p)'
    BY LockedFacts DEF TaskIsTrue, Idle, Referring
<1>3. TimesAreOrdered'
    BY DEF SessionsInv, Inv, TimesAreOrdered, Stored, Ages, Expires
<1>4. answered' \subseteq Stored'
    BY LockedFacts DEF Stored
<1>5. /\ code' \in [Sessions -> Codes] /\ created' \in [Sessions -> Times]
      /\ claimed' \in [Sessions -> Times]
    BY LockedFacts
<1>6. \A i \in Sessions : session'[i] = "pending" /\ i \in answered => i \in answered'
    OBVIOUS
<1> QED BY <1>1, <1>2, <1>3, <1>4, <1>5, <1>6, LockedStep DEF States

LEMMA RunPruneStep ==
    ASSUME SessionsInv, GateInv', NEW p \in Callers, RunPrune(p)
    PROVE  SessionsInv'
<1> DEFINE at == task[p].at
<1>1. /\ \A q \in Callers : q # p => Stays(q)
      /\ Holds(p) /\ HandsOn /\ task'[p] = Idle /\ task[p].pc = "prune"
      /\ UNCHANGED <<clock, code, created, claimed, devices, deadline>>
      /\ ForgetRipe(at) /\ session' = Surviving(at) /\ index' = IndexAfter(at)
    BY OthersStay, LockedFacts
    DEF SessionsInv, CallerMoves, CallerStep, RunPrune, Ends, At
<1>2. task[p].pc # "create" /\ task[p].pc \notin Delivering
    BY <1>1 DEF Delivering
<1> HIDE DEF at
<1>3. tombs' \in Seq(Codes) /\ Len(tombs') <= MaxTombstones
    BY <1>1, TombsStay
<1>4. /\ session' \in [Sessions -> States]
      /\ index' \in [Codes -> Sessions \cup {NoSession}] /\ IndexAgrees'
    BY <1>1, PrunedAgrees DEF IndexAgrees
<1>10. TombsAreApart'
  <2>1. \A m, n \in 1..Len(tombs') : tombs'[m] = tombs'[n] => m = n
      BY <1>1, TombsStay
  <2>2. \A i \in Sessions : session'[i] # "none" => code'[i] \notin SeqRange(tombs')
      BY <1>1, PrunedApart
  <2> QED BY <2>1, <2>2 DEF TombsAreApart, Stored, SeqRange
<1>5. \A i \in Sessions : session'[i] = IF Ripe(i, at) THEN "none" ELSE session[i]
    BY <1>1 DEF Surviving
<1>6. \A i \in Sessions : Ages(i)
    BY <1>1, <1>5, RipeIsOver DEF Ages, at
<1>7. answered' = answered \ {i \in Sessions : session'[i] = "none"}
    BY <1>1, <1>5, LockedFacts DEF ForgetRipe, Stored
<1>8. \A i \in Sessions : session'[i] = "claimed" => session[i] = "claimed"
    BY <1>5
<1>9. devices' \in [Codes -> Nat]
    BY <1>1, LockedFacts
<1> QED BY <1>1, <1>2, <1>3, <1>4, <1>6, <1>7, <1>8, <1>9, <1>10, LockedEnds

\* The sessions end or stay; nothing is pruned.
LEMMA EndsKeepIndex ==
    ASSUME SessionsInv, UNCHANGED <<code, index, tombs>>, NEW p \in Callers,
           session' \in [Sessions -> States],
           \A i \in Sessions : session[i] = "none" <=> session'[i] = "none"
    PROVE  /\ IndexAgrees' /\ TombsAreApart'
           /\ answered = answered \ {i \in Sessions : session'[i] = "none"}
<1>1. IndexAgrees' /\ TombsAreApart'
    BY DEF SessionsInv, Inv, IndexAgrees, TombsAreApart, Stored, SeqRange
<1>2. answered = answered \ {i \in Sessions : session'[i] = "none"}
    BY LockedFacts DEF Stored
<1> QED BY <1>1, <1>2

LEMMA RunExpireStep ==
    ASSUME SessionsInv, GateInv', NEW p \in Callers, RunExpire(p)
    PROVE  SessionsInv'
<1>1. /\ \A q \in Callers : q # p => Stays(q)
      /\ Holds(p) /\ HandsOn /\ task'[p] = Idle /\ task[p].pc = "expire"
      /\ UNCHANGED <<clock, code, created, claimed, devices, index, tombs, deadline,
                     answered>>
    BY OthersStay, LockedFacts
    DEF SessionsInv, CallerMoves, CallerStep, RunExpire, Ends, At, channel
<1>2. task[p].pc # "create" /\ task[p].pc \notin Delivering
    BY <1>1 DEF Delivering
<1>3. /\ \A i \in Sessions : session'[i] \in {session[i], "expired"}
      /\ \A i \in Sessions : session[i] # "pending" => session'[i] = session[i]
      /\ session' \in [Sessions -> States]
    BY LockedFacts DEF RunExpire, States
<1>4. \A i \in Sessions : session[i] = "none" <=> session'[i] = "none"
    BY <1>3
<1>5. /\ IndexAgrees' /\ TombsAreApart'
      /\ answered' = answered \ {i \in Sessions : session'[i] = "none"}
    BY <1>1, <1>3, <1>4, EndsKeepIndex
<1>6. \A i \in Sessions : Ages(i)
    BY <1>1, <1>3, <1>4 DEF Ages
<1>7. /\ devices' \in [Codes -> Nat] /\ index' \in [Codes -> Sessions \cup {NoSession}]
      /\ tombs' \in Seq(Codes) /\ Len(tombs') <= MaxTombstones
    BY <1>1, LockedFacts
<1> QED BY <1>1, <1>2, <1>3, <1>5, <1>6, <1>7, LockedEnds

LEMMA RunCancelStep ==
    ASSUME SessionsInv, GateInv', NEW p \in Callers, RunCancel(p)
    PROVE  SessionsInv'
<1> DEFINE i == task[p].id
           t == [task[p] EXCEPT !.pc = "detach"]
<1>1. /\ \A q \in Callers : q # p => Stays(q)
      /\ Holds(p) /\ HandsOn /\ task[p].pc \in {"cancel", "cancelOnly"}
      /\ UNCHANGED <<clock, code, created, claimed, devices, index, tombs, deadline,
                     answered>>
    BY OthersStay DEF SessionsInv, CallerMoves, CallerStep, RunCancel, channel
<1>2. task[p].pc # "create" /\ i \in Sessions
    BY <1>1, LockedFacts DEF TaskIsTrue, Referring
<1>3. \/ session' = session
      \/ session[i] = "pending" /\ session' = [session EXCEPT ![i] = "expired"]
      \/ session[i] = "pending" /\ session' = [session EXCEPT ![i] = "cancelled"]
    BY DEF RunCancel
<1>4. /\ \A j \in Sessions : session'[j] \in {session[j], "expired", "cancelled"}
      /\ \A j \in Sessions : session[j] # "pending" => session'[j] = session[j]
      /\ session' \in [Sessions -> States]
    BY <1>2, <1>3, LockedFacts, ZenonT(30) DEF States
\* The session was created before the cancel was asked for.
<1>5. session'[i] # "pending"
  <2>1. CASE session[i] # "pending" \/ task[p].at < created[i]
    <3>1. session[i] # "none" => created[i] <= task[p].at
        BY <1>1, LockedFacts DEF TaskIsTrue
    <3>2. created[i] \in Nat /\ task[p].at \in Nat
        BY <1>2, LockedFacts DEF Times
    <3> QED BY <1>4, <1>2, <2>1, <3>1, <3>2
  <2>2. CASE ~(session[i] # "pending" \/ task[p].at < created[i])
      BY <1>2, <2>2, LockedFacts DEF RunCancel
  <2> QED BY <2>1, <2>2
<1>6. \A j \in Sessions : session[j] = "none" <=> session'[j] = "none"
    BY <1>4
<1>7. /\ IndexAgrees' /\ TombsAreApart'
      /\ answered' = answered \ {j \in Sessions : session'[j] = "none"}
    BY <1>1, <1>4, <1>6, EndsKeepIndex
<1>8. \A j \in Sessions : Ages(j)
    BY <1>1, <1>4, <1>6 DEF Ages
<1>9. /\ devices' \in [Codes -> Nat] /\ index' \in [Codes -> Sessions \cup {NoSession}]
      /\ tombs' \in Seq(Codes) /\ Len(tombs') <= MaxTombstones
      /\ code' \in [Sessions -> Codes] /\ created' \in [Sessions -> Times]
      /\ claimed' \in [Sessions -> Times]
    BY <1>1, LockedFacts
<1>10. \A j \in Sessions : session'[j] = "claimed" => session[j] = "claimed"
    BY <1>4
<1>11. CASE task[p].pc = "cancelOnly"
  <2>1. task'[p] = Idle
      BY <1>11, LockedFacts DEF RunCancel, Ends
  <2> QED BY <1>1, <1>2, <1>4, <1>5, <1>7, <1>8, <1>9, <1>10, <2>1, LockedEnds
<1>12. CASE task[p].pc = "cancel"
  <2>1. /\ t \in Tasks /\ t.pc = "detach" /\ t.at = task[p].at /\ t.id = i
        /\ t.tries = task[p].tries
    <3>1. task[p] \in Tasks
        BY LockedFacts
    <3> QED BY <3>1 DEF Tasks
  <2>2. task'[p] = t
      BY <1>12, LockedFacts DEF RunCancel, Goes
  <2> HIDE DEF t
  <2>3. TaskIsTrue(p)'
      BY <1>1, <1>2, <1>5, <2>1, <2>2, LockedFacts DEF TaskIsTrue, Referring
  <2>4. /\ task'[p].tries < MaxAttempts /\ task'[p].pc \notin Waiting
        /\ \A q \in Callers : q # p /\ task[q].pc = "create" =>
               task'[p].id # task[q].id
      BY <2>1, <2>2, LockedFacts DEF Waiting
  <2>5. TimesAreOrdered'
      BY <1>1, <1>6, <1>10 DEF SessionsInv, Inv, TimesAreOrdered, Stored, Expires
  <2>6. answered' \subseteq Stored'
      BY <1>1, <1>6, LockedFacts DEF Stored
  <2>7. task[p].pc \notin Delivering
      BY <1>12 DEF Delivering
  <2> HIDE DEF i
  <2> QED BY <1>1, <1>2, <1>4, <1>7, <1>8, <1>9, <2>3, <2>4, <2>5, <2>6, <2>7, LockedStep
          DEF States
<1> QED BY <1>1, <1>11, <1>12

LEMMA RunClaimStep ==
    ASSUME SessionsInv, GateInv', NEW p \in Callers, RunClaim(p)
    PROVE  SessionsInv'
<1> DEFINE c == task[p].code
           i == index[c]
           t == [task[p] EXCEPT !.pc = "device", !.id = i, !.at = clock]
           pending == i # NoSession /\ session[i] = "pending"
           claimable == pending /\ clock < Expires(i) /\ clock >= created[i]
<1>1. /\ \A q \in Callers : q # p => Stays(q)
      /\ Holds(p) /\ task[p].pc = "claim"
      /\ UNCHANGED <<clock, code, created, claimed, devices, index, tombs, deadline,
                     answered>>
    BY OthersStay DEF SessionsInv, CallerMoves, CallerStep, RunClaim, channel, At
<1>2. /\ task[p].pc # "create" /\ task[p].pc \notin Delivering
      /\ c \in Codes /\ i \in Sessions \cup {NoSession}
  <2>1. c \in Codes
      BY <1>1, LockedFacts DEF TaskIsTrue
  <2> QED BY <1>1, <2>1, LockedFacts DEF Delivering
<1>3. CASE claimable
  <2>1. task' = [task EXCEPT ![p] = t] /\ session' = session /\ queue' = queue
      BY <1>3 DEF RunClaim
  <2>2. /\ i \in Sessions /\ session[i] = "pending" /\ created[i] <= clock
        /\ clock < Expires(i)
      BY <1>2, <1>3, LockedFacts DEF Times
  <2>3. /\ t.pc = "device" /\ t.id = i /\ t.at = clock /\ t.code = c
        /\ t.tries = task[p].tries
    <3>1. task[p] \in Tasks
        BY LockedFacts
    <3> QED BY <3>1 DEF Tasks
  <2>4. task'[p] = t
      BY <2>1, LockedFacts
  <2> HIDE DEF t
  <2>5. index[c] = i
      OBVIOUS
  <2> HIDE DEF i, c
  <2>6. TaskIsTrue(p)'
      BY <1>1, <1>2, <2>1, <2>2, <2>3, <2>4, LockedFacts DEF TaskIsTrue, Referring, Expires
  <2>7. \A j \in Sessions : Ages(j)
      BY <1>1, <2>1 DEF Ages
  <2>8. /\ TypeOK /\ IndexAgrees /\ TombsAreApart /\ ClaimStillHolds /\ QueueIsWaiting
        /\ TasksAreTrue /\ TimesAreOrdered /\ ClaimableHasChannel
      BY DEF SessionsInv, Inv
  <2>9. TypeOK'
    <3>1. \A q \in Callers : task'[q].tries < MaxAttempts
        BY <1>1, <2>3, <2>4, <2>8 DEF TypeOK, Stays
    <3>2. /\ task' \in [Callers -> Tasks] /\ owned' \in [Owners -> Nat]
          /\ tail' \in [Owners -> Callers \cup {NoCaller}]
        BY DEF GateInv, GateType
    <3> QED BY <1>1, <2>1, <2>8, <3>1, <3>2 DEF TypeOK, Stored
  <2>10. IndexAgrees' /\ TombsAreApart' /\ TimesAreOrdered'
      BY <1>1, <2>1, <2>8
      DEF IndexAgrees, TombsAreApart, TimesAreOrdered, Stored, Expires, SeqRange
  <2>11. ClaimStillHolds'
    <3>1. ASSUME NEW q \in Callers, q # p, task'[q].pc = "device" PROVE FALSE
      <4>1. At(q, "device")
          BY <1>1, <3>1 DEF Stays, At
      <4> QED BY <1>1, <3>1, <4>1, DeviceHasLock DEF SessionsInv
    <3>2. /\ session'[task'[p].id] = "pending" /\ index'[task'[p].code] = task'[p].id
          /\ Holds(p)'
        BY <1>1, <2>1, <2>2, <2>3, <2>4, <2>5 DEF Holds
    <3> QED BY <3>1, <3>2 DEF ClaimStillHolds, At
  <2>12. QueueIsWaiting'
    <3>1. task[p].pc \in Waiting /\ task'[p].pc \in Waiting
        BY <1>1, <2>3, <2>4 DEF Waiting
    <3> QED BY <1>1, <2>1, <2>8, <3>1, QueueStands
  <2>13. TasksAreTrue'
    <3>1. ASSUME NEW q \in Callers, q # p PROVE TaskIsTrue(q)'
      <4>1. task[q].pc = "create" =>
                deadline'[task[q].id] = 0 /\ task'[p].id # task[q].id
        <5>1. task[q].pc = "create" =>
                  session[task[q].id] = "none" /\ deadline[task[q].id] = 0
            BY <2>8 DEF TasksAreTrue, TaskIsTrue
        <5> QED BY <1>1, <2>2, <2>3, <2>4, <5>1
      <4> QED BY <1>1, <2>7, <2>8, <3>1, <4>1, OthersStayTrue
    <3> QED BY <2>6, <3>1 DEF TasksAreTrue
  <2>14. ClaimableHasChannel'
      BY <1>1, <1>2, <2>7, <2>8, ChannelsStay
  <2> QED BY <2>9, <2>10, <2>11, <2>12, <2>13, <2>14 DEF SessionsInv, Inv
<1>4. CASE ~claimable
  <2>1. /\ session' = IF pending /\ clock >= Expires(i)
                      THEN [session EXCEPT ![i] = "expired"] ELSE session
        /\ Leaves(p) /\ HandsOn
      BY <1>4 DEF RunClaim
  <2>2. task'[p] = Idle
      BY <2>1 DEF Leaves
  <2>3. /\ \A j \in Sessions : session'[j] \in {session[j], "expired"}
        /\ \A j \in Sessions : session[j] # "pending" => session'[j] = session[j]
        /\ session' \in [Sessions -> States]
      BY <1>2, <2>1, LockedFacts DEF States
  <2>4. \A j \in Sessions : session[j] = "none" <=> session'[j] = "none"
      BY <2>3
  <2>5. /\ IndexAgrees' /\ TombsAreApart'
        /\ answered' = answered \ {j \in Sessions : session'[j] = "none"}
      BY <1>1, <2>3, <2>4, EndsKeepIndex
  <2>6. \A j \in Sessions : Ages(j)
      BY <1>1, <2>3, <2>4 DEF Ages
  <2>7. /\ devices' \in [Codes -> Nat] /\ index' \in [Codes -> Sessions \cup {NoSession}]
        /\ tombs' \in Seq(Codes) /\ Len(tombs') <= MaxTombstones
      BY <1>1, LockedFacts
  <2> HIDE DEF claimable, pending, i, c
  <2> QED BY <1>1, <1>2, <2>1, <2>2, <2>3, <2>5, <2>6, <2>7, LockedEnds
<1> QED BY <1>3, <1>4

LEMMA CreateDeviceStep ==
    ASSUME SessionsInv, GateInv', NEW p \in Callers, CreateDevice(p)
    PROVE  SessionsInv'
<1> DEFINE i == task[p].id
           c == task[p].code
           t == [task[p] EXCEPT !.pc = "issue"]
<1>1. /\ \A q \in Callers : q # p => Stays(q)
      /\ HandsOn /\ task[p].pc = "device"
      /\ UNCHANGED <<clock, code, created, index, tombs, deadline, answered>>
    BY OthersStay DEF SessionsInv, CallerMoves, CallerStep, CreateDevice, channel, At
\* The record is still the one the claim has read.
<1>2. /\ Holds(p) /\ session[i] = "pending" /\ index[c] = i
      /\ c \in Codes /\ i \in Sessions /\ created[i] <= task[p].at
  <2>1. Holds(p) /\ session[i] = "pending" /\ index[c] = i
      BY <1>1 DEF SessionsInv, Inv, ClaimStillHolds, At
  <2> QED BY <1>1, <2>1, LockedFacts DEF TaskIsTrue, Referring
<1>3. task[p].pc # "create" /\ task[p].pc \notin Delivering
    BY <1>1 DEF Delivering
<1>4. /\ index' \in [Codes -> Sessions \cup {NoSession}]
      /\ tombs' \in Seq(Codes) /\ Len(tombs') <= MaxTombstones
      /\ code' \in [Sessions -> Codes] /\ created' \in [Sessions -> Times]
    BY <1>1, LockedFacts
<1>5. CASE Leaves(p) /\ UNCHANGED <<devices, owned, session, claimed>>
  <2>1. task'[p] = Idle
      BY <1>5 DEF Leaves
  <2>2. /\ session' \in [Sessions -> States] /\ devices' \in [Codes -> Nat]
        /\ \A j \in Sessions : session[j] = "none" <=> session'[j] = "none"
      BY <1>5, LockedFacts
  <2>3. /\ IndexAgrees' /\ TombsAreApart'
        /\ answered' = answered \ {j \in Sessions : session'[j] = "none"}
      BY <1>1, <2>2, EndsKeepIndex
  <2>4. \A j \in Sessions : Ages(j)
      BY <1>1, <1>5 DEF Ages
  <2> QED BY <1>1, <1>2, <1>3, <1>4, <1>5, <2>1, <2>2, <2>3, <2>4, LockedEnds
<1>6. CASE /\ devices' = [devices EXCEPT ![c] = @ + 1]
           /\ session' = [session EXCEPT ![i] = "claimed"]
           /\ claimed' = [claimed EXCEPT ![i] = task[p].at]
           /\ task' = [task EXCEPT ![p] = t]
  <2>1. t.pc = "issue" /\ t.at = task[p].at /\ t.id = i /\ t.tries = task[p].tries
    <3>1. task[p] \in Tasks
        BY LockedFacts
    <3> QED BY <3>1 DEF Tasks
  <2>2. task'[p] = t
      BY <1>6, LockedFacts
  <2> HIDE DEF t
  <2>3. /\ session' \in [Sessions -> States] /\ session'[i] = "claimed"
        /\ \A j \in Sessions : j # i => session'[j] = session[j]
      BY <1>2, <1>6, LockedFacts DEF States
  <2>4. /\ claimed' \in [Sessions -> Times] /\ claimed'[i] = task[p].at
        /\ \A j \in Sessions : j # i => claimed'[j] = claimed[j]
    <3>1. task[p].at \in Times
        BY LockedFacts, LimitsAreNat DEF Times
    <3> QED BY <1>2, <1>6, <3>1, LockedFacts
  <2>5. devices' \in [Codes -> Nat]
    <3>1. devices[c] + 1 \in Nat
        BY <1>2, LockedFacts
    <3> QED BY <1>6, <3>1, LockedFacts
  <2>6. \A j \in Sessions : session[j] = "none" <=> session'[j] = "none"
      BY <1>2, <2>3
  <2> HIDE DEF i, c
  <2>7. /\ IndexAgrees' /\ TombsAreApart'
        /\ answered' = answered \ {j \in Sessions : session'[j] = "none"}
      BY <1>1, <2>3, <2>6, EndsKeepIndex
  <2>8. \A j \in Sessions : Ages(j)
      BY <1>1, <1>2, <2>3 DEF Ages
  <2>9. TimesAreOrdered'
    <3>1. TimesAreOrdered
        BY DEF SessionsInv, Inv
    <3>2. ASSUME NEW j \in Sessions, session'[j] # "none"
          PROVE  /\ created'[j] <= clock'
                 /\ session'[j] = "claimed" => created'[j] <= claimed'[j]
                 /\ deadline'[j] # 0 => Expires(j)' <= deadline'[j]
      <4>1. session[j] # "none"
          BY <2>6, <3>2
      <4>2. /\ created[j] <= clock
            /\ session[j] = "claimed" => created[j] <= claimed[j]
            /\ deadline[j] # 0 => Expires(j) <= deadline[j]
          BY <3>1, <4>1 DEF TimesAreOrdered, Stored
      <4>3. session'[j] = "claimed" => created'[j] <= claimed'[j]
          BY <1>1, <1>2, <2>3, <2>4, <4>2
      <4> QED BY <1>1, <4>2, <4>3 DEF Expires
    <3> QED BY <3>2 DEF TimesAreOrdered, Stored
  <2>10. TaskIsTrue(p)'
      BY <1>1, <2>1, <2>2, LockedFacts DEF TaskIsTrue, Referring
  <2>11. /\ task'[p].tries < MaxAttempts /\ task'[p].pc \notin Waiting
         /\ \A q \in Callers : q # p /\ task[q].pc = "create" =>
               task'[p].id # task[q].id
      BY <2>1, <2>2, LockedFacts DEF Waiting, i
  <2>12. answered' \subseteq Stored'
      BY <1>1, <2>6, LockedFacts DEF Stored
  <2> QED BY <1>1, <1>2, <1>3, <1>4, <2>3, <2>4, <2>5, <2>7, <2>8, <2>9, <2>10, <2>11,
             <2>12, LockedStep DEF States
<1> QED BY <1>5, <1>6 DEF CreateDevice, Goes

LEMMA RunCreateStep ==
    ASSUME SessionsInv, GateInv', NEW p \in Callers, RunCreate(p)
    PROVE  SessionsInv'
<1> DEFINE at == task[p].at
           i == task[p].id
           c == task[p].code
<1>1. /\ \A q \in Callers : q # p => Stays(q)
      /\ Holds(p) /\ HandsOn /\ task[p].pc = "create" /\ ForgetRipe(at)
      /\ UNCHANGED <<clock, claimed, devices, deadline>>
    BY OthersStay DEF SessionsInv, CallerMoves, CallerStep, RunCreate, At
<1>2. /\ i \in Sessions /\ c \in Codes /\ session[i] = "none" /\ deadline[i] = 0
      /\ at \in Nat /\ at <= clock /\ at \in Times
  <2>1. TaskIsTrue(p) /\ at \in Nat /\ at <= clock /\ clock \in Nat /\ clock <= MaxTime
      BY LockedFacts
  <2>2. at \in Times
      BY <2>1, LimitsAreNat DEF Times
  <2> QED BY <1>1, <2>1, <2>2 DEF TaskIsTrue, Referring
<1>3. /\ Surviving(at) \in [Sessions -> States]
      /\ IndexAfter(at) \in [Codes -> Sessions \cup {NoSession}]
      /\ \A d \in Codes, j \in Sessions :
            IndexAfter(at)[d] = j <=> Surviving(at)[j] # "none" /\ code[j] = d
    BY PrunedAgrees
<1>4. \A j \in Sessions :
          Surviving(at)[j] = IF Ripe(j, at) THEN "none" ELSE session[j]
    BY DEF Surviving
<1>5. \A j \in Sessions : Ripe(j, at) => Expires(j) <= clock
    BY RipeIsOver
<1>6. answered' = answered \ {j \in Sessions : Ripe(j, at)}
    BY <1>1 DEF ForgetRipe
<1>7. /\ tombs' \in Seq(Codes) /\ Len(tombs') <= MaxTombstones
      /\ claimed' \in [Sessions -> Times] /\ devices' \in [Codes -> Nat]
    BY <1>1, TombsStay, LockedFacts
<1>8. TimesAreOrdered
    BY DEF SessionsInv, Inv
<1>12. \A m, n \in 1..Len(tombs') : tombs'[m] = tombs'[n] => m = n
    BY <1>1, TombsStay
<1>13. \A j \in Sessions : Surviving(at)[j] # "none" => code[j] \notin SeqRange(tombs')
    BY <1>1, PrunedApart
<1> DEFINE Succeeds ==
             /\ session' = [Surviving(at) EXCEPT ![i] = "pending"]
             /\ code' = [code EXCEPT ![i] = c]
             /\ created' = [created EXCEPT ![i] = at]
             /\ index' = [IndexAfter(at) EXCEPT ![c] = i]
             /\ Goes(p, "register")
             /\ IndexAfter(at)[c] = NoSession /\ c \notin SeqRange(tombs')
           Fails ==
             /\ session' = Surviving(at) /\ index' = IndexAfter(at)
             /\ UNCHANGED <<code, created>>
             /\ \/ /\ task' = [task EXCEPT ![p] = [task[p] EXCEPT
                                   !.pc = "generate", !.tries = task[p].tries + 1]]
                   /\ task[p].tries + 1 < MaxAttempts
                \/ Ends(p)
<1>9. Succeeds \/ Fails
    BY DEF RunCreate, Ends
<1>10. CASE Succeeds
  <2> DEFINE t == [task[p] EXCEPT !.pc = "register"]
  <2>1. t.pc = "register" /\ t.at = at /\ t.id = i /\ t.tries = task[p].tries
    <3>1. task[p] \in Tasks
        BY LockedFacts
    <3> QED BY <3>1 DEF Tasks
  <2>2. task'[p] = t
      BY <1>10, LockedFacts DEF Goes
  <2> HIDE DEF t, at, i, c
  <2>3. /\ session' \in [Sessions -> States] /\ session'[i] = "pending"
        /\ \A j \in Sessions : j # i => session'[j] = Surviving(at)[j]
      BY <1>2, <1>3, <1>10 DEF States
  <2>4. /\ code' \in [Sessions -> Codes] /\ code'[i] = c
        /\ \A j \in Sessions : j # i => code'[j] = code[j]
      BY <1>2, <1>10, LockedFacts
  <2>5. /\ created' \in [Sessions -> Times] /\ created'[i] = at
        /\ \A j \in Sessions : j # i => created'[j] = created[j]
      BY <1>2, <1>10, LockedFacts
  <2>6. /\ index' \in [Codes -> Sessions \cup {NoSession}] /\ index'[c] = i
        /\ \A d \in Codes : d # c => index'[d] = IndexAfter(at)[d]
      BY <1>2, <1>3, <1>10
  <2>7. IndexAgrees'
    <3>1. ASSUME NEW d \in Codes, NEW j \in Sessions
          PROVE  index'[d] = j <=> session'[j] # "none" /\ code'[j] = d
      <4>1. CASE j = i
        <5>1. Surviving(at)[i] = "none"
            BY <1>2, <1>4
        <5>2. d # c => index'[d] # i
            BY <1>2, <1>3, <2>6, <5>1
        <5> QED BY <2>3, <2>4, <2>6, <4>1, <5>2
      <4>2. CASE j # i /\ d = c
        <5>1. IndexAfter(at)[c] # j
            BY <1>10
        <5>2. ~(Surviving(at)[j] # "none" /\ code[j] = c)
            BY <1>2, <1>3, <5>1
        <5> QED BY <2>3, <2>4, <2>6, <4>2, <5>2
      <4>3. CASE j # i /\ d # c
          BY <1>3, <2>3, <2>4, <2>6, <4>3
      <4> QED BY <4>1, <4>2, <4>3
    <3> QED BY <3>1 DEF IndexAgrees
  <2>8. ASSUME NEW j \in Sessions, j # i PROVE Ages(j)
      BY <1>4, <1>5, <2>3, <2>5, <2>8 DEF Ages
  <2>9. \A j \in Sessions : session'[j] # "none" /\ j # i =>
            session[j] # "none" /\ session'[j] = session[j]
      BY <1>4, <2>3
  <2>10. TimesAreOrdered'
    <3>1. ASSUME NEW j \in Sessions, session'[j] # "none"
          PROVE  /\ created'[j] <= clock'
                 /\ session'[j] = "claimed" => created'[j] <= claimed'[j]
                 /\ deadline'[j] # 0 => Expires(j)' <= deadline'[j]
      <4>1. CASE j = i
          BY <1>1, <1>2, <2>3, <2>5, <4>1
      <4>2. CASE j # i
        <5>1. session[j] # "none" /\ session'[j] = session[j]
            BY <2>9, <3>1, <4>2
        <5> QED BY <1>1, <1>8, <2>5, <4>2, <5>1 DEF TimesAreOrdered, Stored, Expires
      <4> QED BY <4>1, <4>2
    <3> QED BY <3>1 DEF TimesAreOrdered, Stored
  <2>11. answered' \subseteq Stored'
      BY <1>4, <1>6, <2>3, LockedFacts DEF Stored
  <2>12. \A j \in Sessions : session'[j] = "pending" /\ j \in answered => j \in answered'
    <3>1. i \notin answered
        BY <1>2, LockedFacts DEF Stored
    <3>2. \A j \in Sessions : Ripe(j, at) /\ j # i => session'[j] = "none"
        BY <1>4, <2>3
    <3> QED BY <1>6, <3>1, <3>2
  <2>13. TaskIsTrue(p)'
      BY <1>1, <1>2, <2>1, <2>2, <2>3 DEF TaskIsTrue, Referring
  <2>14. /\ task'[p].tries < MaxAttempts /\ task'[p].pc \notin Waiting
         /\ task'[p].pc = "register" /\ task'[p].id = task[p].id
         /\ task[p].pc \notin Delivering
         /\ \A q \in Callers : q # p /\ task[q].pc = "create" =>
               task'[p].id # task[q].id
      BY <1>1, <2>1, <2>2, LockedFacts DEF Waiting, Delivering, i
  <2>15. \A j \in Sessions : Ages(j) \/ (task[p].pc = "create" /\ j = task[p].id)
      BY <1>1, <2>8 DEF i
  <2>16. TombsAreApart'
    <3>1. \A j \in Sessions : session'[j] # "none" => code'[j] \notin SeqRange(tombs')
        BY <1>10, <1>13, <2>3, <2>4
    <3> QED BY <1>12, <3>1 DEF TombsAreApart, Stored, SeqRange
  <2> QED BY <1>1, <1>7, <2>3, <2>4, <2>5, <2>6, <2>7, <2>10, <2>11, <2>12, <2>13, <2>14,
             <2>15, <2>16, LockedStep DEF States
<1>11. CASE Fails
  <2>1. /\ task'[p].pc \in {"generate", "idle"}
        /\ task'[p].id \in {i, NoSession} /\ task'[p].at <= clock
        /\ task'[p].tries < MaxAttempts
    <3>1. CASE Ends(p)
      <4>1. task'[p] = Idle
          BY <3>1, LockedFacts DEF Ends
      <4> QED BY <4>1, LockedFacts, LimitsAreNat DEF Idle
    <3>2. CASE ~Ends(p)
      <4> DEFINE n == task[p].tries + 1
                 t == [task[p] EXCEPT !.pc = "generate", !.tries = n]
      <4>1. task'[p] = t /\ n < MaxAttempts
          BY <1>11, <3>2, LockedFacts
      <4>2. task[p] \in Tasks
          BY LockedFacts
      <4> HIDE DEF n
      <4>3. t.pc = "generate" /\ t.at = at /\ t.id = i /\ t.tries = n
          BY <4>2 DEF Tasks
      <4> HIDE DEF t
      <4> QED BY <1>2, <4>1, <4>3
    <3> QED BY <3>1, <3>2
  <2> HIDE DEF at, i, c
  <2>2. /\ session' \in [Sessions -> States] /\ code' = code /\ created' = created
        /\ code' \in [Sessions -> Codes] /\ created' \in [Sessions -> Times]
        /\ index' \in [Codes -> Sessions \cup {NoSession}]
        /\ \A j \in Sessions : session'[j] = Surviving(at)[j]
      BY <1>3, <1>11, LockedFacts
  <2>3. IndexAgrees'
      BY <1>3, <1>11 DEF IndexAgrees
  <2>4. \A j \in Sessions : Ages(j)
      BY <1>4, <1>5, <2>2 DEF Ages
  <2>5. \A j \in Sessions : session'[j] # "none" =>
            session[j] # "none" /\ session'[j] = session[j]
      BY <1>4, <2>2
  <2>6. TimesAreOrdered'
      BY <1>1, <1>8, <2>2, <2>5 DEF TimesAreOrdered, Stored, Expires
  <2>7. answered' \subseteq Stored'
      BY <1>4, <1>6, <2>2, LockedFacts DEF Stored
  <2>8. \A j \in Sessions : session'[j] = "pending" /\ j \in answered => j \in answered'
      BY <1>4, <1>6, <2>2
  <2>9. session'[i] # "pending"
      BY <1>2, <2>5
  <2>10. TaskIsTrue(p)'
      BY <1>1, <2>1 DEF TaskIsTrue, Referring
  <2>11. /\ task'[p].pc \notin Waiting /\ task[p].pc \notin Delivering
         /\ \A q \in Callers : q # p /\ task[q].pc = "create" =>
               task'[p].id # task[q].id
      BY <1>1, <2>1, LockedFacts DEF Waiting, Delivering, i
  <2>12. TombsAreApart'
    <3>1. \A j \in Sessions : session'[j] # "none" => code'[j] \notin SeqRange(tombs')
        BY <1>13, <2>2
    <3> QED BY <1>12, <3>1 DEF TombsAreApart, Stored, SeqRange
  <2> QED BY <1>1, <1>7, <2>1, <2>2, <2>3, <2>4, <2>6, <2>7, <2>8, <2>9, <2>10, <2>11,
             <2>12, LockedStep DEF States, i
<1> QED BY <1>9, <1>10, <1>11

-----------------------------------------------------------------------------
(* The clock and the timers of the channels. *)

LEMMA TimeSteps ==
    ASSUME SessionsInv, GateInv',
           Tick \/ \E i \in Sessions : ExpireChannel(i)
    PROVE  SessionsInv'
<1>1. /\ UNCHANGED <<records, queue, task, gate, answered>>
      /\ TypeOK /\ IndexAgrees /\ TombsAreApart /\ ClaimStillHolds /\ QueueIsWaiting
      /\ TasksAreTrue /\ TimesAreOrdered /\ ClaimableHasChannel
    BY DEF Tick, ExpireChannel, channel, SessionsInv, Inv
<1>2. /\ clock' \in Times /\ {clock, clock'} \subseteq Nat /\ clock <= clock'
      /\ \A i \in Sessions : created[i] \in Nat /\ Expires(i) \in Nat
      /\ \A p \in Callers : task[p].at \in Nat
    BY <1>1, LimitsAreNat, SMTT(30)
    DEF Tick, ExpireChannel, TypeOK, Times, Expires, GateInv, GateType, SessionsInv, Tasks
<1>3. /\ deadline' \in [Sessions -> ChannelTimes]
      /\ \A i \in Sessions : deadline'[i] \in {0, deadline[i]}
      /\ \A i \in Sessions : deadline'[i] # deadline[i] => deadline[i] <= clock
  <2>1. CASE Tick
      BY <1>1, <2>1 DEF Tick, channel, TypeOK, ChannelTimes
  <2>2. ASSUME NEW i \in Sessions, ExpireChannel(i)
        PROVE  /\ deadline' \in [Sessions -> ChannelTimes]
               /\ \A j \in Sessions : deadline'[j] \in {0, deadline[j]}
               /\ \A j \in Sessions : deadline'[j] # deadline[j] => deadline[j] <= clock
    <3>1. 0 \in ChannelTimes /\ deadline \in [Sessions -> ChannelTimes]
        BY <1>1, LimitsAreNat DEF ChannelTimes, TypeOK
    <3> HIDE DEF ChannelTimes
    <3>2. /\ deadline' = [deadline EXCEPT ![i] = 0] /\ clock >= deadline[i]
        BY <2>2 DEF ExpireChannel
    <3>3. deadline[i] \in Int
        BY <3>1 DEF ChannelTimes
    <3> QED BY <1>2, <3>1, <3>2, <3>3
  <2> QED BY <2>1, <2>2
<1>4. /\ session' = session /\ code' = code /\ created' = created /\ index' = index
      /\ claimed' = claimed /\ devices' = devices /\ tombs' = tombs /\ queue' = queue
      /\ task' = task /\ answered' = answered /\ tail' = tail /\ owned' = owned
    BY <1>1 DEF records, gate
<1>5. TypeOK'
    BY <1>1, <1>2, <1>3, <1>4 DEF TypeOK, Stored, ChannelTimes
<1>6. IndexAgrees' /\ TombsAreApart' /\ ClaimStillHolds' /\ QueueIsWaiting'
    BY <1>1, <1>4 DEF IndexAgrees, TombsAreApart, Stored, SeqRange, ClaimStillHolds,
                      QueueIsWaiting, At, Holds
<1>7. TasksAreTrue'
  <2>1. ASSUME NEW p \in Callers PROVE TaskIsTrue(p)'
    <3>1. TaskIsTrue(p) /\ task'[p] = task[p]
        BY <1>1, <1>4 DEF TasksAreTrue
    <3>2. task[p].pc \in Referring => task[p].id \in Sessions
        BY <3>1 DEF TaskIsTrue
    <3>3. task'[p].at <= clock'
        BY <1>2, <3>1 DEF TaskIsTrue
    <3>4. task'[p].pc \in {"register", "admit"} /\ session'[task'[p].id] = "none" =>
              Expires(task[p].id)' <= clock'
        BY <1>2, <1>4, <3>1, <3>2 DEF TaskIsTrue, Expires, Referring
    <3>5. task'[p].pc = "create" => deadline'[task'[p].id] = 0
        BY <1>3, <3>1, <3>2 DEF TaskIsTrue, Referring
    <3> QED BY <1>4, <3>1, <3>3, <3>4, <3>5 DEF TaskIsTrue, Expires
  <2> QED BY <2>1 DEF TasksAreTrue
<1>8. TimesAreOrdered'
    BY <1>1, <1>2, <1>3, <1>4 DEF TimesAreOrdered, Stored, Expires
<1>9. ClaimableHasChannel'
  <2> SUFFICES ASSUME NEW i \in Sessions, session'[i] = "pending", clock' < Expires(i)'
               PROVE  \/ i \in answered' /\ deadline'[i] # 0
                      \/ \E p \in Callers : /\ task'[p].pc \in Delivering
                                            /\ task'[p].id = i
      BY DEF ClaimableHasChannel, Delivering
  <2>1. session[i] = "pending" /\ clock < Expires(i)
      BY <1>2, <1>4 DEF Times, Expires
  <2>2. CASE i \in answered /\ deadline[i] # 0
    <3>1. Expires(i) <= deadline[i]
        BY <1>1, <2>1, <2>2 DEF TimesAreOrdered, Stored
    <3>2. deadline'[i] = deadline[i]
      <4>1. deadline[i] \in Int
          BY <1>1 DEF TypeOK
      <4> QED BY <1>2, <1>3, <2>1, <3>1, <4>1
    <3> QED BY <1>4, <2>2, <3>2
  <2>3. CASE \E p \in Callers : task[p].pc \in Delivering /\ task[p].id = i
      BY <1>4, <2>3
  <2> QED BY <1>1, <2>1, <2>2, <2>3 DEF ClaimableHasChannel, Delivering
<1> QED BY <1>5, <1>6, <1>7, <1>8, <1>9 DEF SessionsInv, Inv

-----------------------------------------------------------------------------

LEMMA InitSessions == Init => SessionsInv
<1> SUFFICES ASSUME Init PROVE SessionsInv
    OBVIOUS
<1>1. GateInv
    BY InitGate
<1>2. Idle \in Tasks /\ Idle.tries = 0 /\ Idle.pc = "idle" /\ Idle.at = 0
    BY DEF Idle, Tasks
<1>3. \A p \in Callers : task[p] = Idle
    BY DEF Init
<1>4. 0 \in Times /\ 0 < MaxAttempts /\ 0 <= MaxTombstones
      /\ 0 \in 0..(MaxTime + TTL + Delivery)
    BY LimitsAreNat DEF Times
<1>5. TypeOK
    BY <1>2, <1>4 DEF Init, TypeOK
<1>6. IndexAgrees /\ TombsAreApart /\ TimesAreOrdered /\ ClaimableHasChannel
    BY DEF Init, IndexAgrees, TombsAreApart, TimesAreOrdered, ClaimableHasChannel, Stored
<1>7. ClaimStillHolds
    BY <1>2, <1>3 DEF ClaimStillHolds, At
<1>8. QueueIsWaiting
    BY <1>2, <1>3 DEF Init, QueueIsWaiting, Waiting
<1>9. TasksAreTrue
    BY <1>2, <1>3 DEF Init, TasksAreTrue, TaskIsTrue, Referring
<1> QED BY <1>1, <1>5, <1>6, <1>7, <1>8, <1>9 DEF SessionsInv, Inv

LEMMA NextKeepsSessions ==
    ASSUME SessionsInv, [Next]_vars
    PROVE  SessionsInv'
<1>1. IndexType
    BY DEF SessionsInv, Inv, TypeOK, IndexType
<1>2. CASE Next
  <2>1. GateInv'
      BY <1>1, <1>2, NextKeepsGate DEF SessionsInv
  <2>2. ASSUME NEW p \in Callers, CallerMoves(p) PROVE SessionsInv'
      BY <2>1, <2>2, StartSteps, GenerateStep, RegisterStep, AdmitStep, DetachStep,
         CountDevicesStep, RunPruneStep, RunExpireStep, RunCancelStep, RunClaimStep,
         CreateDeviceStep, RunCreateStep DEF CallerMoves, CallerStep
  <2> QED BY <1>2, <2>1, <2>2, TimeSteps DEF Next, CallerMoves
<1>3. CASE UNCHANGED vars
  <2>1. GateInv'
    <3>1. PICK rank \in [Callers -> Nat] : Ordered(rank)
        BY DEF SessionsInv, GateInv
    <3>2. Ordered(rank)'
        BY <1>3, <3>1 DEF vars, gate, Ordered, InGate
    <3> QED BY <1>3, <3>2 DEF vars, gate, records, SessionsInv, GateInv, GateType,
                              HasCounted, WithinDeviceLimit, InGate, Inside
  <2>2. TypeOK' /\ IndexAgrees' /\ ClaimStillHolds' /\ QueueIsWaiting'
      BY <1>3 DEF vars, gate, records, channel, SessionsInv, Inv, TypeOK, Stored,
                  IndexAgrees, ClaimStillHolds, QueueIsWaiting, At, Holds
  <2>4. TombsAreApart'
      BY <1>3 DEF vars, records, SessionsInv, Inv, TombsAreApart, Stored, SeqRange
  <2>3. TasksAreTrue' /\ TimesAreOrdered' /\ ClaimableHasChannel'
      BY <1>3 DEF vars, gate, records, channel, SessionsInv, Inv, TasksAreTrue, TaskIsTrue,
                  TimesAreOrdered, Stored, Expires, ClaimableHasChannel
  <2> QED BY <2>1, <2>2, <2>3, <2>4 DEF SessionsInv, Inv
<1> QED BY <1>2, <1>3

\* For every number of sessions, codes and callers: the two maps of the
\* repository agree, the record a claim has read is still the stored one when the
\* device has been created, and the queue of #runExclusive loses nobody.
THEOREM RepositoryAgrees == Spec => []Inv
<1>1. SessionsInv => Inv
    BY DEF SessionsInv
<1> QED BY <1>1, InitSessions, NextKeepsSessions, PTL DEF Spec

\* A session that can be claimed has its channel, or the request that made it is
\* still to give it one or to cancel it, wherever the requests, the cancels, the
\* sweeps and the timers stand.
THEOREM ClaimablesAreDelivered == Spec => []ClaimableHasChannel
<1>1. SessionsInv => ClaimableHasChannel
    BY DEF SessionsInv
<1> QED BY <1>1, InitSessions, NextKeepsSessions, PTL DEF Spec

-----------------------------------------------------------------------------
(* The repository implements the ledger. *)

\* At most one claim awaits its device, and the ledger's clock is the time it has
\* read.
LedgerClockIsRead ==
    /\ LedgerTime \in Times
    /\ \A p \in Claiming : LedgerTime = task[p].at
    /\ \A p \in Callers : Holds(p) => Claiming \subseteq {p}

LEMMA LedgerClock == SessionsInv => LedgerClockIsRead
<1> SUFFICES ASSUME SessionsInv PROVE LedgerClockIsRead
    OBVIOUS
<1>1. \A p, q \in Claiming : p = q
    BY DEF SessionsInv, Inv, ClaimStillHolds, Claiming, Holds
<1>2. \A p \in Callers : task[p].at \in Times
  <2>1. ASSUME NEW p \in Callers PROVE task[p].at \in Times
      BY LockedFacts, LimitsAreNat DEF Times
  <2> QED BY <2>1
<1>3. clock \in Times
    BY DEF SessionsInv, Inv, TypeOK
<1>4. \A p \in Claiming : LedgerTime = task[p].at
    BY <1>1 DEF LedgerTime
<1>5. LedgerTime \in Times
  <2>1. CASE Claiming = {}
      BY <1>3, <2>1 DEF LedgerTime
  <2>2. CASE Claiming # {}
    <3>1. PICK p \in Claiming : TRUE
        BY <2>2
    <3> QED BY <1>2, <1>4, <3>1 DEF Claiming
  <2> QED BY <2>1, <2>2
<1>6. \A p \in Callers : Holds(p) => Claiming \subseteq {p}
    BY DEF SessionsInv, Inv, ClaimStillHolds, Claiming, Holds
<1> QED BY <1>4, <1>5, <1>6 DEF LedgerClockIsRead

\* Where no record changes and no claim begins or ends, nothing is seen.
LEMMA QuietStep ==
    ASSUME SessionsInv, SessionsInv', UNCHANGED records,
           Claiming' = Claiming, \A q \in Claiming : task'[q].at = task[q].at,
           Claiming = {} => clock' = clock
    PROVE  UNCHANGED Ledger!vars
<1>1. LedgerClockIsRead /\ LedgerClockIsRead'
    BY LedgerClock, PTL
<1>2. LedgerTime' = LedgerTime
  <2>1. CASE Claiming = {}
      BY <2>1 DEF LedgerTime
  <2>2. CASE Claiming # {}
    <3>1. PICK p \in Claiming : TRUE
        BY <2>2
    <3> QED BY <1>1, <3>1 DEF LedgerClockIsRead
  <2> QED BY <2>1, <2>2
<1> QED BY <1>2 DEF Ledger!vars, Ledger!rows, records, SeqRange

\* Outside the lock nothing is seen.
LEMMA AwayIsQuiet ==
    ASSUME SessionsInv, SessionsInv', NEW p \in Callers,
           \/ StartPairing(p) \/ StartClaim(p) \/ StartCancel(p) \/ StartSweep(p)
           \/ Generate(p) \/ Register(p) \/ Admit(p) \/ Undo(p) \/ CountDevices(p)
           \/ IssueCredential(p) \/ Detach(p)
    PROVE  UNCHANGED Ledger!vars
<1>1. \A q \in Callers : q # p => Stays(q)
    BY OthersStay DEF SessionsInv, CallerMoves, CallerStep
<1>2. UNCHANGED <<clock, records>> /\ task[p].pc # "device"
    BY DEF StartPairing, StartClaim, StartCancel, StartSweep, Generate, Register, Admit,
           Undo, CountDevices, IssueCredential, Detach, At
<1>3. task[p] \in Tasks /\ task \in [Callers -> Tasks]
    BY LockedFacts
<1>4. task'[p].pc # "device"
  <2>1. CASE StartPairing(p) \/ StartClaim(p) \/ StartCancel(p) \/ StartSweep(p)
      BY <1>3, <2>1, ZenonT(30) DEF StartPairing, StartClaim, StartCancel, StartSweep, Tasks
  <2>2. CASE Undo(p)
      BY <1>3, <2>2 DEF Undo, Tasks
  <2>6. CASE Generate(p)
    <3>1. ASSUME NEW i \in Sessions, NEW c \in Codes,
                 task' = [task EXCEPT ![p] =
                            [@ EXCEPT !.pc = "create", !.id = i, !.code = c]]
          PROVE  task'[p].pc # "device"
        BY <1>3, <3>1 DEF Tasks
    <3>2. Ends(p) => task'[p].pc # "device"
        BY <1>3 DEF Ends, Idle
    <3> QED BY <2>6, <3>1, <3>2 DEF Generate
  <2>3. CASE Register(p) \/ Admit(p) \/ Detach(p)
      BY <1>3, <2>3 DEF Register, Admit, Detach, Ends, Goes, Idle, Tasks
  <2>4. CASE Leaves(p)
      BY <2>4 DEF Leaves, Idle
  <2>5. CASE CountDevices(p) \/ IssueCredential(p)
      BY <1>3, <2>4, <2>5 DEF CountDevices, IssueCredential, Tasks
  <2> QED BY <2>1, <2>2, <2>3, <2>5, <2>6
<1>5. Claiming' = Claiming /\ \A q \in Claiming : task'[q].at = task[q].at
    BY <1>1, <1>2, <1>4 DEF Claiming, At, Stays
<1> QED BY <1>2, <1>5, QuietStep

\* An operation that has the lock, but for a claim, finds no claim under way and
\* leaves none.
LEMMA LockedIsNow ==
    ASSUME SessionsInv, NEW p \in Callers, Holds(p), clock' = clock,
           \A q \in Callers : q # p => Stays(q),
           task[p].pc # "device", task'[p].pc # "device"
    PROVE  LedgerTime = clock /\ LedgerTime' = clock
<1>1. Claiming = {}
    BY LedgerClock DEF LedgerClockIsRead, Claiming, At
<1>2. Claiming' = {}
    BY <1>1 DEF Claiming, At, Stays
<1> QED BY <1>1, <1>2 DEF LedgerTime

\* The ledger prunes the same sessions and codes.
LEMMA LedgerPrunes ==
    ASSUME NEW at
    PROVE  /\ Ledger!Pruned(at) = Surviving(at)
           /\ Ledger!TombsAfter(at) = SeqRange(tombs) \cup RipeCodes(at)
BY DEF Ledger!Pruned, Ledger!TombsAfter, Ledger!Ripe, Ledger!Expires, Surviving, RipeCodes,
       Ripe, Expires

\* The codes that pruning frees.
LEMMA RememberedCodes ==
    ASSUME SessionsInv, NEW at, Remembers,
           \A i \in Sessions : Ripe(i, at) => session'[i] = "none"
    PROVE  SeqRange(tombs) \cup RipeCodes(at) \subseteq SeqRange(tombs')
BY DEF Remembers, RipeCodes, Ripe

LEMMA RunCreateIsLedger ==
    ASSUME SessionsInv, NEW p \in Callers, RunCreate(p), Remembers
    PROVE  Ledger!Next
<1> DEFINE at == task[p].at
           i == task[p].id
           c == task[p].code
           stored == {j \in Sessions : Surviving(at)[j] # "none"}
<1>1. /\ \A q \in Callers : q # p => Stays(q)
      /\ Holds(p) /\ task[p].pc = "create" /\ ForgetRipe(at)
      /\ UNCHANGED <<clock, claimed, devices>>
    BY OthersStay DEF SessionsInv, CallerMoves, CallerStep, RunCreate, At
<1>2. /\ i \in Sessions /\ c \in Codes /\ session[i] = "none" /\ at \in Times
  <2>1. TaskIsTrue(p) /\ at \in Nat /\ at <= clock /\ clock \in Nat /\ clock <= MaxTime
      BY LockedFacts
  <2>2. at \in Times
      BY <2>1, LimitsAreNat DEF Times
  <2> QED BY <1>1, <2>1, <2>2 DEF TaskIsTrue, Referring
<1>3. LedgerTime' = LedgerTime
  <2>1. task[p] \in Tasks /\ task \in [Callers -> Tasks]
      BY LockedFacts
  <2>2. task'[p].pc # "device"
    <3> DEFINE n == task[p].tries + 1
               t == [task[p] EXCEPT !.pc = "generate", !.tries = n]
    <3>1. Goes(p, "register") \/ Ends(p) \/ task' = [task EXCEPT ![p] = t]
        BY DEF RunCreate, Ends
    <3> HIDE DEF n
    <3>2. t.pc = "generate"
        BY <2>1 DEF Tasks
    <3> HIDE DEF t
    <3> QED BY <2>1, <3>1, <3>2 DEF Goes, Ends, Idle, Tasks
  <2> QED BY <1>1, <2>2, LockedIsNow
<1> DEFINE Succeeds ==
             /\ session' = [Surviving(at) EXCEPT ![i] = "pending"]
             /\ code' = [code EXCEPT ![i] = c]
             /\ created' = [created EXCEPT ![i] = at]
             /\ IndexAfter(at)[c] = NoSession
             /\ c \notin SeqRange(tombs') /\ i \notin stored
             /\ Cardinality(stored) < MaxSessions
           Fails ==
             session' = Surviving(at) /\ UNCHANGED <<code, created>>
<1>4. Succeeds \/ Fails
    BY DEF RunCreate
<1>5. /\ Ledger!Pruned(at) = Surviving(at)
      /\ Ledger!TombsAfter(at) = SeqRange(tombs) \cup RipeCodes(at)
      /\ at \in Ledger!Times
    BY <1>2, LedgerPrunes DEF Ledger!Times, Times
<1>6. SeqRange(tombs)' = SeqRange(tombs) \cup RipeCodes(at)
  <2>1. \A j \in Sessions : Ripe(j, at) => session'[j] = "none"
    <3>1. Surviving(at) \in [Sessions -> States]
        BY PrunedAgrees
    <3>2. \A j \in Sessions : Ripe(j, at) => j # i
        BY <1>2 DEF Ripe
    <3> QED BY <1>2, <1>4, <3>1, <3>2 DEF Surviving
  <2> HIDE DEF at
  <2>2. SeqRange(tombs') = SeqRange(tombs) \cup RipeCodes(at)
      BY <1>1, <2>1, RememberedCodes, TombsStay
  <2> QED BY <2>2 DEF SeqRange
<1>7. CASE Succeeds
  <2>1. Ledger!CodeIsFree(c, at)
    <3>1. c \notin Ledger!TombsAfter(at)
        BY <1>5, <1>6, <1>7 DEF SeqRange
    <3>2. ASSUME NEW j \in Sessions, Surviving(at)[j] # "none" PROVE code[j] # c
      <4>1. IndexAfter(at)[c] # j
          BY <1>7
      <4> QED BY <1>2, <3>2, <4>1, PrunedAgrees
    <3> QED BY <1>5, <3>1, <3>2 DEF Ledger!CodeIsFree
  <2>2. Ledger!HasRoom(at) /\ Ledger!Pruned(at)[i] = "none"
    <3>1. {j \in Sessions : Ledger!Pruned(at)[j] # "none"} = stored
        BY <1>5
    <3>2. Cardinality(stored) < MaxSessions /\ Surviving(at)[i] = "none"
        BY <1>2, <1>7
    <3> HIDE DEF stored
    <3>3. Ledger!HasRoom(at)
      <4>1. Ledger!Cardinality(stored) = Cardinality(stored)
          BY DEF Ledger!Cardinality, Cardinality
      <4> QED BY <3>1, <3>2, <4>1 DEF Ledger!HasRoom
    <3> QED BY <1>5, <3>2, <3>3
  <2>3. Ledger!Create(i, c, at)
      BY <1>1, <1>3, <1>5, <1>6, <1>7, <2>1, <2>2 DEF Ledger!Create
  <2> QED BY <1>2, <1>5, <2>3 DEF Ledger!Next
<1>8. CASE Fails
  <2>1. Ledger!Prune(at)
      BY <1>1, <1>3, <1>5, <1>6, <1>8 DEF Ledger!Prune
  <2> QED BY <1>5, <2>1 DEF Ledger!Next
<1> QED BY <1>4, <1>7, <1>8

LEMMA RunPruneIsLedger ==
    ASSUME SessionsInv, NEW p \in Callers, RunPrune(p), Remembers
    PROVE  Ledger!Next
<1> DEFINE at == task[p].at
<1>1. /\ \A q \in Callers : q # p => Stays(q)
      /\ Holds(p) /\ task[p].pc = "prune" /\ task'[p] = Idle
      /\ ForgetRipe(at) /\ session' = Surviving(at)
      /\ UNCHANGED <<clock, code, created, claimed, devices>>
    BY OthersStay, LockedFacts DEF SessionsInv, CallerMoves, CallerStep, RunPrune, At, Ends
<1>2. LedgerTime' = LedgerTime
  <2>1. task[p].pc # "device" /\ task'[p].pc # "device"
      BY <1>1 DEF Idle
  <2> QED BY <1>1, <2>1, LockedIsNow
<1>3. at \in Ledger!Times
    BY LockedFacts, LimitsAreNat DEF Ledger!Times
<1>4. /\ Ledger!Pruned(at) = Surviving(at)
      /\ Ledger!TombsAfter(at) = SeqRange(tombs) \cup RipeCodes(at)
    BY LedgerPrunes
<1>5. SeqRange(tombs)' = SeqRange(tombs) \cup RipeCodes(at)
  <2>1. \A j \in Sessions : Ripe(j, at) => session'[j] = "none"
      BY <1>1 DEF Surviving
  <2> HIDE DEF at
  <2>2. SeqRange(tombs') = SeqRange(tombs) \cup RipeCodes(at)
      BY <1>1, <2>1, RememberedCodes, TombsStay
  <2> QED BY <2>2 DEF SeqRange
<1>6. Ledger!Prune(at)
    BY <1>1, <1>2, <1>4, <1>5 DEF Ledger!Prune
<1> QED BY <1>3, <1>6 DEF Ledger!Next

LEMMA RunExpireIsLedger ==
    ASSUME SessionsInv, NEW p \in Callers, RunExpire(p)
    PROVE  Ledger!Next
<1> DEFINE at == task[p].at
<1>1. /\ \A q \in Callers : q # p => Stays(q)
      /\ Holds(p) /\ task[p].pc = "expire" /\ task'[p] = Idle
      /\ UNCHANGED <<clock, code, created, claimed, devices, tombs>>
    BY OthersStay, LockedFacts
    DEF SessionsInv, CallerMoves, CallerStep, RunExpire, At, Ends
<1>2. LedgerTime' = LedgerTime
  <2>1. task[p].pc # "device" /\ task'[p].pc # "device"
      BY <1>1 DEF Idle
  <2> QED BY <1>1, <2>1, LockedIsNow
<1>3. at \in Ledger!Times
    BY LockedFacts, LimitsAreNat DEF Ledger!Times
<1>4. session' = [i \in Sessions |-> IF session[i] = "pending" /\ Expires(i) <= at
                                     THEN "expired" ELSE session[i]]
  <2>1. \A i \in Sessions : at >= Expires(i) <=> Expires(i) <= at
      BY LockedFacts
  <2> QED BY <2>1 DEF RunExpire
<1>5. SeqRange(tombs)' = SeqRange(tombs)
    BY <1>1 DEF SeqRange
<1>6. Ledger!Expire(at)
    BY <1>1, <1>2, <1>4, <1>5 DEF Ledger!Expire, Ledger!Expires, Expires
<1> QED BY <1>3, <1>6 DEF Ledger!Next

LEMMA RunCancelIsLedger ==
    ASSUME SessionsInv, NEW p \in Callers, RunCancel(p)
    PROVE  Ledger!Next \/ UNCHANGED Ledger!vars
<1> DEFINE at == task[p].at
           i == task[p].id
<1>1. /\ \A q \in Callers : q # p => Stays(q)
      /\ Holds(p) /\ task[p].pc \in {"cancel", "cancelOnly"}
      /\ UNCHANGED <<clock, code, created, claimed, devices, tombs>>
    BY OthersStay DEF SessionsInv, CallerMoves, CallerStep, RunCancel
<1>2. LedgerTime' = LedgerTime
  <2>1. task[p].pc # "device" /\ task'[p].pc # "device"
    <3>1. task[p] \in Tasks /\ task \in [Callers -> Tasks]
        BY LockedFacts
    <3> QED BY <1>1, <3>1 DEF RunCancel, Ends, Goes, Idle, Tasks
  <2> QED BY <1>1, <2>1, LockedIsNow
<1>3. at \in Ledger!Times /\ i \in Sessions /\ Expires(i) \in Nat /\ created[i] \in Nat
  <2>1. i \in Sessions
      BY <1>1, LockedFacts DEF TaskIsTrue, Referring
  <2> QED BY <2>1, LockedFacts, LimitsAreNat DEF Ledger!Times, Times
<1>4. SeqRange(tombs)' = SeqRange(tombs)
    BY <1>1 DEF SeqRange
<1>5. CASE session[i] # "pending" \/ at < created[i]
  <2>1. session' = session
      BY <1>5 DEF RunCancel
  <2> QED BY <1>1, <1>2, <1>4, <2>1 DEF Ledger!vars, Ledger!rows
<1>6. CASE ~(session[i] # "pending" \/ at < created[i])
  <2>1. session' = [session EXCEPT ![i] =
                       IF at >= Expires(i) THEN "expired" ELSE "cancelled"]
      BY <1>6 DEF RunCancel
  <2>2. at >= created[i]
      BY <1>3, <1>6 DEF Ledger!Times
  <2> HIDE DEF at, i
  <2>3. Ledger!Cancel(i, at)
      BY <1>1, <1>2, <1>4, <1>6, <2>1, <2>2 DEF Ledger!Cancel, Ledger!Expires, Expires
  <2> QED BY <1>3, <2>3 DEF Ledger!Next
<1> QED BY <1>5, <1>6

\* A claim is seen when the session is found out of date, ...
LEMMA RunClaimIsLedger ==
    ASSUME SessionsInv, SessionsInv', NEW p \in Callers, RunClaim(p)
    PROVE  Ledger!Next \/ UNCHANGED Ledger!vars
<1> DEFINE c == task[p].code
           i == index[c]
           t == [task[p] EXCEPT !.pc = "device", !.id = i, !.at = clock]
           pending == i # NoSession /\ session[i] = "pending"
           claimable == pending /\ clock < Expires(i) /\ clock >= created[i]
<1>1. /\ \A q \in Callers : q # p => Stays(q)
      /\ Holds(p) /\ task[p].pc = "claim"
      /\ UNCHANGED <<clock, code, created, claimed, devices, index, tombs>>
    BY OthersStay DEF SessionsInv, CallerMoves, CallerStep, RunClaim, At
<1>2. /\ c \in Codes /\ i \in Sessions \cup {NoSession}
  <2>1. c \in Codes
      BY <1>1, LockedFacts DEF TaskIsTrue
  <2> QED BY <2>1, LockedFacts
<1>3. SeqRange(tombs)' = SeqRange(tombs)
    BY <1>1 DEF SeqRange
<1>4. LedgerTime = clock
  <2>1. Claiming = {}
      BY <1>1, LedgerClock DEF LedgerClockIsRead, Claiming, At
  <2> QED BY <2>1 DEF LedgerTime
<1>5. CASE claimable
  <2>1. task' = [task EXCEPT ![p] = t] /\ session' = session
      BY <1>5 DEF RunClaim
  <2>2. task'[p] = t /\ t.pc = "device" /\ t.at = clock
    <3>1. task[p] \in Tasks /\ task \in [Callers -> Tasks]
        BY LockedFacts
    <3>2. t.pc = "device" /\ t.at = clock
        BY <3>1 DEF Tasks
    <3> HIDE DEF t
    <3> QED BY <2>1, <3>1, <3>2
  <2> HIDE DEF t
  <2>3. LedgerClockIsRead'
      BY LedgerClock, PTL
  <2>4. LedgerTime' = clock
      BY <2>2, <2>3 DEF LedgerClockIsRead, Claiming, At
  <2> QED BY <1>1, <1>3, <1>4, <2>1, <2>4 DEF Ledger!vars, Ledger!rows
<1>6. CASE ~claimable
  <2>1. /\ session' = IF pending /\ clock >= Expires(i)
                      THEN [session EXCEPT ![i] = "expired"] ELSE session
        /\ task'[p] = Idle
      BY <1>6 DEF RunClaim, Leaves
  <2>2. LedgerTime' = clock
    <3>1. task[p].pc # "device" /\ task'[p].pc # "device"
        BY <1>1, <2>1 DEF Idle
    <3> QED BY <1>1, <3>1, LockedIsNow
  <2>3. CASE ~(pending /\ clock >= Expires(i))
      BY <1>1, <1>3, <1>4, <2>1, <2>2, <2>3 DEF Ledger!vars, Ledger!rows
  <2>4. CASE pending /\ clock >= Expires(i)
    <3>1. i \in Sessions /\ session[i] = "pending"
        BY <1>2, <2>4
    <3>2. code[i] = c
        BY <1>2, <3>1 DEF SessionsInv, Inv, IndexAgrees
    <3>3. clock \in Times
        BY DEF SessionsInv, Inv, TypeOK
    <3>4. session' = [session EXCEPT ![i] = "expired"] /\ clock >= Expires(i)
        BY <2>1, <2>4
    <3> HIDE DEF i, c, pending, claimable
    <3>5. Ledger!Claim(c)
        BY <1>1, <1>3, <1>4, <2>2, <3>1, <3>2, <3>3, <3>4
        DEF Ledger!Claim, Ledger!Expires, Expires, Ledger!Times, Times
    <3> QED BY <1>2, <3>5 DEF Ledger!Next
  <2> QED BY <2>3, <2>4
<1> QED BY <1>5, <1>6

\* ... or when its device has been created, at the time the claim has read; until
\* then, and when that fails, the ledger sees the time pass.
LEMMA CreateDeviceIsLedger ==
    ASSUME SessionsInv, NEW p \in Callers, CreateDevice(p)
    PROVE  Ledger!Next
<1> DEFINE i == task[p].id
           c == task[p].code
           at == task[p].at
<1>1. /\ \A q \in Callers : q # p => Stays(q)
      /\ task[p].pc = "device"
      /\ UNCHANGED <<clock, code, created, tombs>>
    BY OthersStay DEF SessionsInv, CallerMoves, CallerStep, CreateDevice, At
<1>2. /\ Holds(p) /\ session[i] = "pending" /\ index[c] = i
      /\ c \in Codes /\ i \in Sessions
      /\ created[i] <= at /\ at < Expires(i)
  <2>1. Holds(p) /\ session[i] = "pending" /\ index[c] = i
      BY <1>1 DEF SessionsInv, Inv, ClaimStillHolds, At
  <2> QED BY <1>1, <2>1, LockedFacts DEF TaskIsTrue, Referring
<1>3. code[i] = c
    BY <1>2 DEF SessionsInv, Inv, IndexAgrees
<1>4. SeqRange(tombs)' = SeqRange(tombs)
    BY <1>1 DEF SeqRange
<1>5. LedgerTime = at
    BY <1>1, LedgerClock DEF LedgerClockIsRead, Claiming, At
<1>6. LedgerTime' = clock /\ clock \in Ledger!Times
  <2>1. task'[p].pc # "device"
    <3>1. task[p] \in Tasks /\ task \in [Callers -> Tasks]
        BY LockedFacts
    <3> QED BY <3>1 DEF CreateDevice, Leaves, Goes, Idle, Tasks
  <2>2. Claiming \subseteq {p}
      BY <1>2, LedgerClock DEF LedgerClockIsRead
  <2>3. Claiming' = {}
      BY <1>1, <2>1, <2>2 DEF Claiming, At, Stays
  <2>4. clock \in Times
      BY DEF SessionsInv, Inv, TypeOK
  <2> QED BY <1>1, <2>3, <2>4 DEF LedgerTime, Times, Ledger!Times
<1>7. at \in Nat /\ created[i] \in Nat /\ Expires(i) \in Nat
    BY <1>2, LockedFacts DEF Times
<1> HIDE DEF i, c, at
<1>8. CASE /\ devices' = [devices EXCEPT ![c] = @ + 1]
           /\ session' = [session EXCEPT ![i] = "claimed"]
           /\ claimed' = [claimed EXCEPT ![i] = at]
  <2>1. ~(at >= Expires(i)) /\ at >= created[i]
      BY <1>2, <1>7
  <2>2. Ledger!Claim(c)
      BY <1>1, <1>2, <1>3, <1>4, <1>5, <1>6, <1>8, <2>1
      DEF Ledger!Claim, Ledger!Expires, Expires
  <2> QED BY <1>2, <2>2 DEF Ledger!Next
<1>9. CASE UNCHANGED <<devices, session, claimed>>
  <2>1. Ledger!Tick(clock)
      BY <1>1, <1>4, <1>6, <1>9 DEF Ledger!Tick, Ledger!rows
  <2> QED BY <1>6, <2>1 DEF Ledger!Next
<1> QED BY <1>8, <1>9 DEF CreateDevice, i, c, at

LEMMA TimeIsLedger ==
    ASSUME SessionsInv, SessionsInv',
           Tick \/ \E i \in Sessions : ExpireChannel(i)
    PROVE  Ledger!Next \/ UNCHANGED Ledger!vars
<1>1. UNCHANGED <<records, task>> /\ Claiming' = Claiming
    BY DEF Tick, ExpireChannel, Claiming, At
<1>2. CASE Claiming = {} /\ Tick
  <2>1. LedgerTime' = clock' /\ clock' \in Ledger!Times
    <3>1. clock' \in Times
        BY DEF SessionsInv, Inv, TypeOK
    <3> QED BY <1>1, <1>2, <3>1 DEF LedgerTime, Times, Ledger!Times
  <2>2. Ledger!Tick(clock')
      BY <1>1, <2>1 DEF Ledger!Tick, Ledger!rows, records, SeqRange
  <2> QED BY <2>1, <2>2 DEF Ledger!Next
<1>3. CASE Claiming # {} \/ \E i \in Sessions : ExpireChannel(i)
  <2>1. Claiming = {} => clock' = clock
      BY <1>3 DEF ExpireChannel
  <2> QED BY <1>1, <2>1, QuietStep
<1> QED BY <1>2, <1>3

LEMMA StepIsLedger ==
    ASSUME SessionsInv, SessionsInv', [Next]_vars,
           \A p \in Callers : RunCreate(p) \/ RunPrune(p) => Remembers
    PROVE  [Ledger!Next]_(Ledger!vars)
<1>1. CASE Next
  <2>1. ASSUME NEW p \in Callers, CallerMoves(p)
        PROVE  Ledger!Next \/ UNCHANGED Ledger!vars
      BY <2>1, AwayIsQuiet, RunCreateIsLedger, RunPruneIsLedger, RunExpireIsLedger,
         RunCancelIsLedger, RunClaimIsLedger, CreateDeviceIsLedger
      DEF CallerMoves, CallerStep
  <2> QED BY <1>1, <2>1, TimeIsLedger DEF Next, CallerMoves
<1>2. CASE UNCHANGED vars
  <2>1. Claiming' = Claiming
      BY <1>2 DEF vars, Claiming, At
  <2> QED BY <1>2, <2>1, QuietStep DEF vars, records
<1> QED BY <1>1, <1>2

\* Every step of the in-memory repository under its callers that forgets no
\* tombstone is a step of the ledger or is not seen there: the awaits inside a
\* claim and around the lock do not let another operation see a half of it.
THEOREM RepositoryStepsAreLedgerSteps == Spec => RememberingStepsAreLedgerSteps
<1>1. SessionsInv /\ SessionsInv' /\ [Next]_vars
          => (Remembers => [Ledger!Next]_(Ledger!vars))
    BY StepIsLedger
<1> QED BY <1>1, InitSessions, NextKeepsSessions, PTL
        DEF Spec, RememberingStepsAreLedgerSteps

\* With room for a tombstone of every code, pruning forgets none.
LEMMA RoomRemembers ==
    ASSUME SessionsInv, MaxTombstones >= Cardinality(Codes),
           NEW p \in Callers, RunCreate(p) \/ RunPrune(p)
    PROVE  Remembers
<1> DEFINE at == task[p].at
<1>1. ForgetRipe(at)
    BY DEF RunCreate, RunPrune
<1>2. SeqRange(tombs) \cup RipeCodes(at) \subseteq SeqRange(tombs')
    BY <1>1, TombsStay
<1>3. ASSUME NEW i \in Sessions, session[i] # "none", session'[i] = "none"
      PROVE  Ripe(i, at)
  <2>1. \/ session' = Surviving(at)
        \/ session' = [Surviving(at) EXCEPT ![task[p].id] = "pending"]
      BY DEF RunCreate, RunPrune
  <2>2. Surviving(at)[i] = "none"
    <3>1. Surviving(at) \in [Sessions -> States]
        BY PrunedAgrees
    <3> QED BY <1>3, <2>1, <3>1
  <2> QED BY <1>3, <2>2 DEF Surviving
<1> QED BY <1>2, <1>3 DEF Remembers, RipeCodes

\* Where no tombstone need be forgotten, the in-memory repository with its lock,
\* its two maps and its awaits implements the transactional ledger.
THEOREM RepositoryImplementsLedger ==
    ASSUME MaxTombstones >= Cardinality(Codes)
    PROVE  Spec => ImplementsPairingLedger
<1>1. Init => Ledger!Init
  <2> SUFFICES ASSUME Init PROVE Ledger!Init
      OBVIOUS
  <2>1. Claiming = {}
      BY DEF Init, Idle, Claiming, At
  <2>2. LedgerTime = 0 /\ SeqRange(tombs) = {}
      BY <2>1 DEF Init, LedgerTime, SeqRange
  <2> QED BY <2>2 DEF Init, Ledger!Init
<1>2. SessionsInv /\ SessionsInv' /\ [Next]_vars => [Ledger!Next]_(Ledger!vars)
    BY StepIsLedger, RoomRemembers
<1> QED BY <1>1, <1>2, InitSessions, NextKeepsSessions, PTL
        DEF Spec, ImplementsPairingLedger, Ledger!Spec
=============================================================================
