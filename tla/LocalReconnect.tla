---------------------------- MODULE LocalReconnect ----------------------------
(***************************************************************************)
(* LocalBridgeReconnectController (local-bridge-reconnect.ts) on the local *)
(* machine: it loads the credential, connects the MCP runtime over a new   *)
(* bridge transport, and tries again after a delay when the connection     *)
(* fails.  start() and stop() may come between any two of its awaits.      *)
(*                                                                         *)
(* A run is one execution of #startAttempt with its transport.  What a     *)
(* promise continuation does right after the event that settles it is part *)
(* of the event's step: no timer or I/O comes in between.                  *)
(***************************************************************************)
EXTENDS Integers, FiniteSets

CONSTANTS
    Runs,           \* a finished one stands for a new one
    NoRun,
    MaxFailures,    \* bound of the failure counter
    MaxLives        \* bound of the calls of start() and stop()

ASSUME NoRunIsNoRun == NoRun \notin Runs
ASSUME BoundsAreNats == MaxFailures \in Nat /\ MaxLives \in Nat

VARIABLES
    state,          \* #state
    life,           \* #lifecycleGeneration
    failures,       \* #consecutiveFailures
    current,        \* #currentAttempt
    backoff,        \* #backoffTimer: the generation it was armed in, or 0
    stable,         \* #stableReadyTimer: its attempt
    stopping,       \* the attempt whose close stop() waits for
    pc,             \* where a run is: "idle", "loading", "connecting", "closing"
    rlife,          \* its lifecycle generation
    failure,        \* attempt.failure
    transport       \* "none", "starting", "ready", "failing", "leaving" (the peer
                    \* sent bridge.close), "closing", "closed"

control == <<state, life, failures, current, backoff, stable, stopping>>
runs    == <<pc, rlife, failure, transport>>
vars    == <<control, runs>>

Kinds == {"retry", "auth-failed", "protocol-failed"}

Init ==
    /\ state = "idle" /\ life = 0 /\ failures = 0
    /\ current = NoRun /\ backoff = 0 /\ stable = NoRun /\ stopping = NoRun
    /\ pc = [r \in Runs |-> "idle"] /\ rlife = [r \in Runs |-> 0]
    /\ failure = [r \in Runs |-> "none"]
    /\ transport = [r \in Runs |-> "none"]

-----------------------------------------------------------------------------
\* #isCurrentLifecycle
CurrentLife(r) == rlife[r] = life

\* Nothing refers to the run.
Free(r) == pc[r] = "idle" /\ transport[r] \in {"none", "closed"} /\ current # r

\* #startAttempt until the credential is loaded.
BeginRun(g) ==
    \E r \in Runs :
        /\ Free(r)
        /\ pc' = [pc EXCEPT ![r] = "loading"]
        /\ rlife' = [rlife EXCEPT ![r] = g]
        /\ failure' = [failure EXCEPT ![r] = "none"]
        /\ transport' = [transport EXCEPT ![r] = "none"]
        /\ state' = "connecting"

\* #transitionAfterFailure and classifyBridgeFailure: a failure of
\* authentication or protocol is final, any other one arms the timer.
Transition(kind, g) ==
    IF kind = "retry"
    THEN /\ failures' = IF failures < MaxFailures THEN failures + 1 ELSE failures
         /\ state' = "backoff" /\ backoff' = g
    ELSE state' = kind /\ UNCHANGED <<failures, backoff>>

\* attempt.failure, or the error at hand.
FailureOf(r, kind) == IF failure[r] # "none" THEN failure[r] ELSE kind

-----------------------------------------------------------------------------
(* start and stop. *)

Start ==
    /\ stopping = NoRun /\ state \notin {"connecting", "ready", "backoff"}
    /\ life < MaxLives
    /\ life' = life + 1 /\ failures' = 0
    /\ backoff' = 0 /\ stable' = NoRun
    /\ BeginRun(life + 1)
    /\ UNCHANGED <<current, stopping>>

\* Mutant: a connect in progress is left to itself.
StopWithoutClose ==
    /\ stopping = NoRun /\ state # "stopped" /\ life < MaxLives
    /\ life' = life + 1 /\ backoff' = 0 /\ stable' = NoRun
    /\ state' = "stopped" /\ current' = NoRun
    /\ UNCHANGED <<failures, stopping, runs>>

\* transport.close() of the current attempt, which stop() waits for.  A
\* transport the peer is already closing returns a promise that is resolved.
CloseCurrent ==
    IF current = NoRun \/ transport[current] = "leaving"
    THEN stopping' = NoRun /\ UNCHANGED transport
    ELSE /\ stopping' = current
         /\ transport' = [transport EXCEPT ![current] = "closing"]

Stop ==
    /\ stopping = NoRun /\ state # "stopped" /\ life < MaxLives
    /\ life' = life + 1 /\ backoff' = 0 /\ stable' = NoRun
    /\ state' = "stopped"
    /\ current' = NoRun /\ CloseCurrent
    /\ UNCHANGED <<failures, pc, rlife, failure>>

-----------------------------------------------------------------------------
(* The awaits of a run. *)

\* The provider has answered, and the transport is made.
Load(r) ==
    /\ pc[r] = "loading"
    /\ IF ~CurrentLife(r)
       THEN pc' = [pc EXCEPT ![r] = "idle"] /\ UNCHANGED <<control, transport>>
       ELSE \/ /\ state' \in {"credential-failed", "pairing-required"}
               /\ pc' = [pc EXCEPT ![r] = "idle"]
               /\ UNCHANGED <<life, failures, current, backoff, stable, stopping,
                              transport>>
            \/ \E k \in Kinds :                     \* the factory throws
               /\ Transition(k, rlife[r])
               /\ pc' = [pc EXCEPT ![r] = "idle"]
               /\ UNCHANGED <<life, current, stable, stopping, transport>>
            \/ /\ current' = r
               /\ transport' = [transport EXCEPT ![r] = "starting"]
               /\ pc' = [pc EXCEPT ![r] = "connecting"]
               /\ UNCHANGED <<state, life, failures, backoff, stable, stopping>>
    /\ UNCHANGED <<rlife, failure>>

\* Mutant: the counter is reset as soon as the connection is ready.
ConnectedResets(r) ==
    /\ pc[r] = "connecting" /\ transport[r] = "starting"
    /\ transport' = [transport EXCEPT ![r] = "ready"]
    /\ pc' = [pc EXCEPT ![r] = "idle"]
    /\ IF current = r THEN state' = "ready" /\ failures' = 0
                      ELSE UNCHANGED <<state, failures>>
    /\ UNCHANGED <<life, current, backoff, stable, stopping, rlife, failure>>

\* runtime.connect resolves.
Connected(r) ==
    /\ pc[r] = "connecting" /\ transport[r] = "starting"
    /\ transport' = [transport EXCEPT ![r] = "ready"]
    /\ pc' = [pc EXCEPT ![r] = "idle"]
    /\ IF current = r THEN state' = "ready" /\ stable' = r
                      ELSE UNCHANGED <<state, stable>>
    /\ UNCHANGED <<life, failures, current, backoff, stopping, rlife, failure>>

\* The transport fails.  While it connects, #finalizeAttempt closes it and
\* waits; a ready one is closed by its socket.
Fails(r, kind) ==
    /\ transport[r] \in {"starting", "ready"}
    /\ failure' = IF current = r THEN [failure EXCEPT ![r] = kind] ELSE failure
    /\ IF pc[r] = "connecting"
       THEN IF current = r
            THEN /\ current' = NoRun /\ stable' = NoRun
                 /\ transport' = [transport EXCEPT ![r] = "closing"]
                 /\ pc' = [pc EXCEPT ![r] = "closing"]
            ELSE /\ transport' = [transport EXCEPT ![r] = "failing"]
                 /\ pc' = [pc EXCEPT ![r] = "idle"]
                 /\ UNCHANGED <<current, stable>>
       ELSE /\ transport' = [transport EXCEPT ![r] = "failing"]
            /\ UNCHANGED <<current, stable, pc>>
    /\ UNCHANGED <<state, life, failures, backoff, stopping, rlife>>

\* The peer sends bridge.close: the transport waits for its socket to close.
RemoteCloses(r) ==
    /\ transport[r] \in {"starting", "ready"}
    /\ transport' = [transport EXCEPT ![r] = "leaving"]
    /\ UNCHANGED <<control, pc, rlife, failure>>

\* Mutant: a reconnect is scheduled although the controller was stopped.
ClosedStale(r) ==
    /\ transport[r] \in {"starting", "ready", "failing", "leaving", "closing"}
    /\ transport' = [transport EXCEPT ![r] = "closed"]
    /\ pc' = [pc EXCEPT ![r] = "idle"]
    /\ stopping' = IF stopping = r THEN NoRun ELSE stopping
    /\ IF current = r
       THEN /\ current' = NoRun /\ stable' = NoRun
            /\ Transition(FailureOf(r, "retry"), rlife[r])
       ELSE /\ UNCHANGED <<current, stable>>
            /\ IF pc[r] = "closing" THEN Transition(FailureOf(r, "retry"), rlife[r])
               ELSE UNCHANGED <<state, failures, backoff>>
    /\ UNCHANGED <<life, rlife, failure>>

\* Mutant: #stopPromise is not given up when the close has ended.
ClosedKeepsStop(r) ==
    /\ transport[r] \in {"starting", "ready", "failing", "leaving", "closing"}
    /\ transport' = [transport EXCEPT ![r] = "closed"]
    /\ pc' = [pc EXCEPT ![r] = "idle"]
    /\ current' = IF current = r THEN NoRun ELSE current
    /\ stable' = IF current = r THEN NoRun ELSE stable
    /\ IF current = r \/ (pc[r] = "closing" /\ CurrentLife(r))
       THEN Transition(FailureOf(r, "retry"), rlife[r])
       ELSE UNCHANGED <<state, failures, backoff>>
    /\ UNCHANGED <<life, stopping, rlife, failure>>

\* The transport has closed: onclose of the current attempt, the end of the
\* close #finalizeAttempt waits for, or of the one stop() waits for.
Closed(r) ==
    /\ transport[r] \in {"starting", "ready", "failing", "leaving", "closing"}
    /\ transport' = [transport EXCEPT ![r] = "closed"]
    /\ pc' = [pc EXCEPT ![r] = "idle"]
    /\ stopping' = IF stopping = r THEN NoRun ELSE stopping
    /\ IF current = r
       THEN /\ current' = NoRun /\ stable' = NoRun
            /\ Transition(FailureOf(r, "retry"), rlife[r])
       ELSE /\ UNCHANGED <<current, stable>>
            /\ IF pc[r] = "closing" /\ CurrentLife(r)
               THEN Transition(FailureOf(r, "retry"), rlife[r])
               ELSE UNCHANGED <<state, failures, backoff>>
    /\ UNCHANGED <<life, rlife, failure>>

-----------------------------------------------------------------------------
(* Timers. *)

\* #scheduleBackoff
BackoffFires ==
    /\ backoff # 0
    /\ backoff' = 0
    /\ IF backoff = life /\ state = "backoff" THEN BeginRun(life)
       ELSE UNCHANGED <<state, runs>>
    /\ UNCHANGED <<life, failures, current, stable, stopping>>

\* #scheduleStableReadyReset
StableFires ==
    /\ stable # NoRun
    /\ stable' = NoRun
    /\ failures' = IF current = stable /\ state = "ready" THEN 0 ELSE failures
    /\ UNCHANGED <<state, life, current, backoff, stopping, runs>>

-----------------------------------------------------------------------------
RunStep(r) ==
    Load(r) \/ Connected(r) \/ RemoteCloses(r) \/ Closed(r)
    \/ \E k \in Kinds : Fails(r, k)

Next == Start \/ Stop \/ BackoffFires \/ StableFires \/ \E r \in Runs : RunStep(r)

Spec == Init /\ [][Next]_vars

\* Timers fire, the provider answers, a connect ends one way or the other and
\* a socket that is being closed is closed.
Fairness ==
    /\ WF_vars(BackoffFires) /\ WF_vars(StableFires)
    /\ \A r \in Runs :
          /\ WF_vars(Load(r))
          /\ WF_vars(pc[r] = "connecting"
                     /\ (Connected(r) \/ Closed(r) \/ \E k \in Kinds : Fails(r, k)))
          /\ WF_vars(transport[r] \in {"failing", "leaving", "closing"} /\ Closed(r))

FairSpec == Spec /\ Fairness

-----------------------------------------------------------------------------
(* Properties. *)

States == {"idle", "connecting", "ready", "backoff", "pairing-required",
           "auth-failed", "protocol-failed", "credential-failed", "stopped"}

TypeOK ==
    /\ state \in States /\ life \in 0..MaxLives /\ failures \in 0..MaxFailures
    /\ {current, stable, stopping} \subseteq Runs \cup {NoRun}
    /\ backoff \in 0..MaxLives
    /\ pc \in [Runs -> {"idle", "loading", "connecting", "closing"}]
    /\ rlife \in [Runs -> 0..MaxLives]
    /\ failure \in [Runs -> Kinds \cup {"none"}]
    /\ transport \in [Runs -> {"none", "starting", "ready", "failing", "leaving",
                               "closing", "closed"}]

\* No connection is leaked: a transport that is not being closed is the current
\* attempt's, whatever start, stop and failures came before.
OneConnection ==
    \A r \in Runs : transport[r] \in {"starting", "ready", "failing"} => current = r

\* The design keeps one transport generation at a time: start() is to have no
\* effect while stop() still cleans up the old transport.  The code does not keep
\* it: a stop() that comes while #finalizeAttempt awaits the close of a failed
\* attempt finds no current attempt and waits for nothing.  Nor does a stop()
\* wait for a transport whose peer has already sent bridge.close.
OneGeneration ==
    Cardinality({r \in Runs : transport[r] \notin {"none", "closed"}}) <= 1

\* The controller never stalls: a state that is not final has what will move it
\* on, and the timer is armed in no other state than backoff.
StateHasDriver ==
    /\ state = "connecting" =>
          \E r \in Runs : pc[r] \in {"loading", "connecting", "closing"}
                          /\ rlife[r] = life
    /\ state = "ready" =>
          current # NoRun /\ transport[current] \in {"ready", "failing", "leaving"}
    /\ state = "backoff" <=> backoff # 0
    /\ backoff \in {0, life}

\* stop() wins: what an older generation still awaits never brings the
\* controller back.  Nor is a rejected credential or protocol tried again by
\* itself.  Only a call of start() or stop(), which begins a new life, leaves a
\* final state.
Final == {"stopped", "auth-failed", "protocol-failed", "pairing-required",
          "credential-failed"}
FinalStays ==
    [][(state \in Final /\ state' # state) =>
         life' = life + 1 /\ state' \in {"connecting", "stopped"}]_vars

\* The counter of failures, which sets the delay, is reset only by start() or
\* by a connection that has stayed ready.
ResetOnlyWhenStable ==
    [][failures' < failures =>
         \/ life' = life + 1
         \/ /\ state = "ready"
            /\ transport[current] \in {"ready", "failing", "leaving"}]_vars

\* stop() always ends, whatever its transport was doing.
StopEnds == stopping # NoRun ~> stopping = NoRun

\* A run at an await, in the current life.
Active(r) == pc[r] # "idle" /\ rlife[r] = life

\* What an attempt that is at an await, or ready, is to the controller.
RunAgrees ==
    \A r \in Runs :
        /\ rlife[r] <= life /\ (pc[r] # "idle" => rlife[r] > 0)
        /\ pc[r] = "loading" => transport[r] = "none"
        /\ pc[r] = "connecting" => transport[r] \in {"starting", "leaving", "closing"}
        /\ pc[r] = "closing" => transport[r] = "closing"
        /\ Active(r) => state = "connecting"
        /\ Active(r) => current = IF pc[r] = "connecting" THEN r ELSE NoRun

CurrentAgrees ==
    current # NoRun =>
        /\ life > 0 /\ rlife[current] = life
        /\ \/ /\ state = "connecting" /\ pc[current] = "connecting"
              /\ transport[current] \in {"starting", "leaving"}
           \/ /\ state = "ready" /\ pc[current] = "idle"
              /\ transport[current] \in {"ready", "failing", "leaving"}

\* One execution of #startAttempt at a time can still act.
OneActive == \A r, s \in Runs : Active(r) /\ Active(s) => r = s

\* What every await of the controller relies on: the types, one connection at
\* most, and a state that agrees with its driver (a run, a transport, the timer).
Inv == /\ TypeOK /\ OneConnection /\ StateHasDriver
       /\ RunAgrees /\ CurrentAgrees /\ OneActive
=============================================================================
