---------------------- MODULE DeviceSessionsRefinement ----------------------
(***************************************************************************)
(* DeviceSessions implements CredentialSessions: an operation takes effect *)
(* when it evicts, not when the store commits, because no handshake can    *)
(* use the new generation in between and none can keep the old one.        *)
(***************************************************************************)
EXTENDS DeviceSessions

EvictingOn(d) == {o \in Operations : Evicting(o) /\ odev[o] = d}

\* Until the eviction the generation in force is still the one replaced.
InForce(d) ==
    IF EvictingOn(d) = {} THEN active[d]
    ELSE osnap[CHOOSE o \in EvictingOn(d) : TRUE]

IssuedSoFar(d) ==
    IF EvictingOn(d) # {} /\ active[d] # 0 THEN version[d] - 1 ELSE version[d]

Abstract == INSTANCE CredentialSessions WITH
    generation <- [d \in Devices |-> InForce(d)],
    issued     <- [d \in Devices |-> IssuedSoFar(d)],
    session    <- registry,
    sessionGen <- [d \in Devices |->
                     IF registry[d] = None THEN 0 ELSE sgen[registry[d]]],
    open       <- stopPc \in {"running", "stopping"}

\* Every behaviour of the runtime is one of the abstract specification: a
\* credential change and the end of the session it authenticated are one
\* atomic event, whatever interleaving of handshakes, heartbeats, operations
\* and stop() produced it.
ImplementsCredentialSessions == Abstract!Spec

-----------------------------------------------------------------------------
(* What the refinement and AuthenticatedIsFresh rest on besides IInv. *)

\* A device's credential is the last one it was given or none, and between a
\* commit and its eviction a registered session still has the generation that
\* was replaced.
CommitIsUnseen ==
    /\ \A d \in Devices : active[d] \in {0, version[d]}
    /\ \A o \in Operations : Evicting(o) =>
          /\ active[odev[o]] # osnap[o]
          /\ registry[odev[o]] # None => sgen[registry[odev[o]]] = osnap[o]

\* The counter of verifications in flight counts them.
Authentications(d) == {h \in Handshakes : Authenticating(h) /\ hdev[h] = d}

VerificationsAreCounted ==
    stopPc # "stopped" => \A d \in Devices :
        authCount[d] = Cardinality(Authentications(d))

\* A verification whose answer is out of date overlaps an operation that waits
\* for it before it gives up the marker.
Overlaps(o) == opc[o] \in {"evict", "publish", "authWait"}

StaleIsOverlapped ==
    ~Stopping => \A h \in Handshakes :
        hpc[h] = "verified" /\ hok[h] =>
           \/ active[hdev[h]] = hsec[h]
           \/ \E o \in Operations : odev[o] = hdev[h] /\ Overlaps(o)

\* The inductive invariant behind all theorems of DeviceSessionsProofs: the
\* session, the lease, the marker and the counters at every await.
Inv ==
    /\ IInv
    /\ CommitIsUnseen
    /\ VerificationsAreCounted
    /\ StaleIsOverlapped
=============================================================================
