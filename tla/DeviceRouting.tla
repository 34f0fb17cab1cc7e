----------------------------- MODULE DeviceRouting -----------------------------
(***************************************************************************)
(* DeviceRoutingService (device-routing.ts): resolve finds the session a   *)
(* call for a device goes to, and the snapshots say which devices are      *)
(* online.  Both await the repositories while credentials are rotated and  *)
(* revoked, and while sessions come, lapse and go in the registry.  A      *)
(* revocation reaches the registry only after it has been committed.       *)
(***************************************************************************)
EXTENDS Integers, FiniteSets

CONSTANTS
    Devices, Owners, Requests,
    OwnerOf,            \* the repository's devices and their owners
    NoSession,
    MaxGeneration,      \* bound of the credential generations of a device
    MaxRegistrations    \* bound of the registrations, one for each session

VARIABLES
    latest,     \* the number of the last credential issued to a device
    active,     \* the active one, or 0
    registered, \* the registry's entry: [id, generation], or NoSession
    recent,     \* its last heartbeat is recent enough
    issued,     \* registrations made
    session,    \* the state of each session, by the id of its registration
    req         \* the requests: Idle, or a record that starts with a pc

store    == <<latest, active>>
registry == <<registered, recent, issued>>
vars     == <<store, registry, session, req>>

Sessions == 1..MaxRegistrations
Idle == [pc |-> "idle"]

Init ==
    /\ latest = [d \in Devices |-> 1] /\ active = [d \in Devices |-> 1]
    /\ registered = [d \in Devices |-> NoSession]
    /\ recent = [d \in Devices |-> FALSE] /\ issued = 0
    /\ session = [s \in Sessions |-> "ready"]
    /\ req = [r \in Requests |-> Idle]

-----------------------------------------------------------------------------
(* The credential store and the registry, as the router sees them. *)

\* The credential is rotated, or a revoked device is paired again.
Rotate(d) ==
    /\ latest[d] < MaxGeneration
    /\ latest' = [latest EXCEPT ![d] = @ + 1]
    /\ active' = [active EXCEPT ![d] = latest[d] + 1]
    /\ UNCHANGED <<registry, session, req>>

Revoke(d) ==
    /\ active[d] # 0
    /\ active' = [active EXCEPT ![d] = 0]
    /\ UNCHANGED <<latest, registry, session, req>>

\* Mutant: the session that is replaced or evicted stays open.
CloseEntryKeeps(d) == UNCHANGED session

\* session.close of the entry of d, if there is one.
CloseEntry(d) ==
    session' = [s \in Sessions |->
                  IF /\ registered[d] # NoSession /\ s = registered[d].id
                     /\ session[s] = "ready"
                  THEN "closing" ELSE session[s]]

\* A session that was authenticated with the active credential is published; the
\* one it replaces is closed.
Register(d) ==
    /\ active[d] # 0 /\ issued < MaxRegistrations
    /\ issued' = issued + 1
    /\ registered' = [registered EXCEPT ![d] = [id |-> issued + 1,
                                                generation |-> active[d]]]
    /\ recent' = [recent EXCEPT ![d] = TRUE]
    /\ CloseEntry(d)
    /\ UNCHANGED <<store, req>>

\* The invalidation arrives, or a heartbeat finds the generation outdated.
EvictGeneration(d) ==
    /\ registered[d] # NoSession /\ registered[d].generation # active[d]
    /\ registered' = [registered EXCEPT ![d] = NoSession]
    /\ recent' = [recent EXCEPT ![d] = FALSE]
    /\ CloseEntry(d)
    /\ UNCHANGED <<issued, store, req>>

\* evictSession, when the session has closed.
EvictSession(s) ==
    LET Here(d) == registered[d] # NoSession /\ registered[d].id = s
    IN /\ registered' = [d \in Devices |-> IF Here(d) THEN NoSession
                                           ELSE registered[d]]
       /\ recent' = [d \in Devices |-> ~Here(d) /\ recent[d]]
       /\ UNCHANGED issued

\* Heartbeats stop; one that comes after that is refused.
Lapse(d) ==
    /\ recent[d]
    /\ recent' = [recent EXCEPT ![d] = FALSE]
    /\ UNCHANGED <<registered, issued, store, session, req>>

-----------------------------------------------------------------------------
(* The router. *)

\* DeviceSessionRegistry.getActive
GetActive(d) ==
    IF /\ registered[d] # NoSession /\ recent[d]
       /\ session[registered[d].id] = "ready"
    THEN registered[d] ELSE NoSession

\* A call of resolve, of getDevice or, for each of its devices, of listDevices;
\* since is the oldest generation that is valid when it begins.
Begin(r, k, d, o) ==
    /\ req[r] = Idle
    /\ req' = [req EXCEPT ![r] =
                 [pc |-> "device", kind |-> k, device |-> d, owner |-> o,
                  seen |-> NoSession, credential |-> 0, result |-> NoSession,
                  since |-> IF active[d] # 0 THEN latest[d] ELSE latest[d] + 1]]
    /\ UNCHANGED <<store, registry, session>>

\* The request goes on as next, or it ends, with an error or as offline.
Proceed(r, goesOn, next) == req' = [req EXCEPT ![r] = IF goesOn THEN next ELSE Idle]

Answer(r, entry) ==
    [req[r] EXCEPT !.pc = "answered", !.result = entry, !.seen = NoSession,
                   !.credential = 0]

\* getForOwner is answered.  A snapshot looks up the entry before it reads the
\* credential, and is offline without one.
ReadDevice(r) ==
    /\ req[r].pc = "device"
    /\ LET entry == GetActive(req[r].device)
           goesOn == /\ OwnerOf[req[r].device] = req[r].owner
                     /\ req[r].kind = "resolve" \/ entry # NoSession
       IN Proceed(r, goesOn, [req[r] EXCEPT
                     !.pc = "credential",
                     !.seen = IF req[r].kind = "snapshot" THEN entry ELSE NoSession])
    /\ UNCHANGED <<store, registry, session>>

\* The credential repository's getActive; its answer is used a step later.
ReadCredential(r) ==
    /\ req[r].pc = "credential"
    /\ req' = [req EXCEPT ![r].credential = active[req[r].device],
                          ![r].pc = "check"]
    /\ UNCHANGED <<store, registry, session>>

\* Mutant: any credential will do.
SameGenerationAny(entry, c) == c # 0

\* sameCredentialGeneration, with a credential
SameGeneration(entry, c) == c # 0 /\ entry.generation = c

\* Mutant: a snapshot does not look whether the entry has been replaced.
CheckReplaced(r) ==
    /\ req[r].pc = "check"
    /\ LET current == GetActive(req[r].device)
           entry   == IF req[r].kind = "snapshot" THEN req[r].seen ELSE current
       IN Proceed(r, /\ entry # NoSession /\ current # NoSession
                     /\ SameGeneration(entry, req[r].credential),
                  Answer(r, current))
    /\ UNCHANGED <<store, registry, session>>

\* What follows the credential: the entry of now, which for a snapshot must be
\* the one of before, and its generation.
Check(r) ==
    /\ req[r].pc = "check"
    /\ LET current == GetActive(req[r].device)
       IN Proceed(r, /\ current # NoSession
                     /\ req[r].kind = "snapshot" => current = req[r].seen
                     /\ SameGeneration(current, req[r].credential),
                  Answer(r, current))
    /\ UNCHANGED <<store, registry, session>>

Answered(r) == req[r].pc = "answered"

\* The caller is done with the answer.
Return(r) == Answered(r) /\ req' = [req EXCEPT ![r] = Idle]

-----------------------------------------------------------------------------
(* Properties. *)

Entries == [id : Sessions, generation : 1..MaxGeneration]
Answers == Entries \cup {NoSession}
Begun ==
    [pc : {"device", "credential", "check", "answered"},
     kind : {"resolve", "snapshot"}, device : Devices, owner : Owners,
     seen : Answers, credential : 0..MaxGeneration, result : Answers,
     since : 1..(MaxGeneration + 1)]

TypeOK ==
    /\ latest \in [Devices -> 1..MaxGeneration]
    /\ active \in [Devices -> 0..MaxGeneration]
    /\ registered \in [Devices -> Answers]
    /\ recent \in [Devices -> BOOLEAN] /\ issued \in 0..MaxRegistrations
    /\ req \in [Requests -> {Idle} \cup Begun]
    \* An entry that is recent exists, and a snapshot that goes on has seen one.
    /\ \A d \in Devices : recent[d] => registered[d] # NoSession
    /\ \A r \in Requests :
          req[r].pc \in {"credential", "check"} /\ req[r].kind = "snapshot" =>
              req[r].seen # NoSession

\* A request that begins after a credential was revoked or rotated never gets a
\* session of the old one, although the session may still be in the registry:
\* the router does not wait for the invalidation to arrive.
NeverStale ==
    \A r \in Requests : Answered(r) => req[r].result.generation >= req[r].since

\* A credential that is active is the last one; a request that has read one has
\* not read an older one than was active when it began; an entry of the registry
\* has been issued.
CredentialsAgree ==
    /\ \A d \in Devices :
          /\ active[d] \in {0, latest[d]}
          /\ registered[d] # NoSession => registered[d].id <= issued
    /\ \A r \in Requests : req[r] # Idle =>
          /\ req[r].since <= latest[req[r].device] + 1
          /\ active[req[r].device] # 0 => req[r].since <= active[req[r].device]
          /\ req[r].pc = "check" =>
                req[r].credential = 0 \/ req[r].credential >= req[r].since

\* The session that was returned is the entry of the device for as long as it is
\* ready.
AnswersAgree ==
    \A r \in Requests : Answered(r) =>
        LET entry == registered[req[r].device]
        IN /\ req[r].result # NoSession /\ req[r].result.id <= issued
           /\ session[req[r].result.id] = "ready" =>
                 entry # NoSession /\ entry.id = req[r].result.id

Inv == TypeOK /\ NeverStale /\ CredentialsAgree /\ AnswersAgree

\* What is returned is in the registry, and live, at that moment, and has the
\* generation of a credential that was active during the request.
ReturnsLiveMatch ==
    [][\A r \in Requests :
         Answered(r)' /\ ~Answered(r) =>
             /\ GetActive(req[r].device) = req'[r].result
             /\ req'[r].result.generation = req[r].credential]_vars
=============================================================================
