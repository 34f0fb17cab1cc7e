------------------------ MODULE BridgeClientTransport ------------------------
(***************************************************************************)
(* BridgeClientTransport (bridge-client-transport.ts), the server's end of *)
(* the bridge: it binds itself to one ready gateway session, hands its     *)
(* queue to session.send one message at a time, and closes with the        *)
(* session.                                                                *)
(*                                                                         *)
(* The gateway session is the environment: it leaves its ready state, and  *)
(* reports its close, when it likes.  A message from it is handled to its  *)
(* end before the next event.                                              *)
(***************************************************************************)
EXTENDS Integers, Sequences, SequencesExt

CONSTANTS
    MaxQueuedMessages,  \* BRIDGE_MAX_QUEUED_MESSAGES
    MaxQueuedBytes,     \* BRIDGE_MAX_QUEUED_BYTES
    Sizes,              \* the sizes of frames
    MaxSends            \* bound of the accepted calls of send()

VARIABLES
    tstate,         \* _state
    session,        \* session.state, or "none" before there is a session
    bound,          \* the session's callbacks are this transport's
    closeP,         \* closePromise
    errors, closes, \* calls of onerror and of onclose
    queue,          \* messages [id, bytes]
    queuedBytes,
    inflight,       \* the message drainQueue awaits session.send for, or NoMessage
    drain,          \* drainScheduled
    outcome,        \* of the promise of each accepted send()
    wire            \* the ids given to the ready session, in order

link  == <<tstate, session, bound, closeP, errors, closes>>
sends == <<queue, queuedBytes, outcome>>
vars  == <<link, sends, inflight, drain, wire>>

NoMessage == [id |-> 0, bytes |-> 0]

Init ==
    /\ tstate = "idle" /\ session = "none" /\ bound = FALSE
    /\ closeP = "resolved" /\ errors = 0 /\ closes = 0
    /\ queue = <<>> /\ queuedBytes = 0 /\ inflight = NoMessage /\ drain = FALSE
    /\ outcome = [i \in 1..MaxSends |-> "none"] /\ wire = <<>>

-----------------------------------------------------------------------------
TotalBytes(s) == FoldSeq(LAMBDA m, sum : m.bytes + sum, 0, s)
Ids(s) == {s[i].id : i \in DOMAIN s}

\* The promises after the messages of s are settled; a settled one stays so.
Settle(o, s, how) ==
    [i \in DOMAIN o |-> IF i \in Ids(s) /\ o[i] = "pending" THEN how ELSE o[i]]

\* rejectQueued
RejectQueued(o) ==
    /\ queue' = <<>> /\ queuedBytes' = 0
    /\ outcome' = Settle(o, queue, "rejected")

\* finalizeClose
Finalize(o) ==
    /\ tstate' = "closed" /\ closes' = closes + 1 /\ bound' = FALSE
    /\ RejectQueued(o)

\* session.close
CloseSession == session' = IF session = "ready" THEN "closing" ELSE session

\* Mutant: a transport that fails leaves its session open.
FailQuiet(o) ==
    /\ errors' = 1 /\ UNCHANGED session /\ Finalize(o)
    /\ UNCHANGED closeP

\* fail, outside of the states closing and closed.
Fail(o) ==
    /\ errors' = 1 /\ CloseSession /\ Finalize(o)
    /\ UNCHANGED closeP

Ended == tstate \in {"closing", "closed"}

-----------------------------------------------------------------------------
\* start, on a session that no other transport has bound.
Start ==
    /\ tstate = "idle" /\ session # "none"
    /\ IF session = "ready" THEN tstate' = "ready" /\ bound' = TRUE
                            ELSE tstate' = "failed" /\ UNCHANGED bound
    /\ UNCHANGED <<session, closeP, errors, closes, sends, inflight, drain, wire>>

\* send, when it accepts the message; a rejected call changes nothing.
Send ==
    /\ tstate = "ready" /\ Len(queue) < MaxQueuedMessages
    /\ \E b \in Sizes, i \in DOMAIN outcome :
        /\ queuedBytes + b <= MaxQueuedBytes
        /\ outcome[i] = "none" /\ \A j \in 1..(i - 1) : outcome[j] # "none"
        /\ queue' = Append(queue, [id |-> i, bytes |-> b])
        /\ queuedBytes' = queuedBytes + b
        /\ outcome' = [outcome EXCEPT ![i] = "pending"]
    /\ drain' = (drain \/ inflight = NoMessage)
    /\ UNCHANGED <<link, inflight, wire>>

\* close, until the await of session.close.
Close ==
    /\ ~Ended /\ session # "none"
    /\ tstate' = "closing" /\ closeP' = "pending"
    /\ RejectQueued(outcome) /\ CloseSession
    /\ UNCHANGED <<bound, errors, closes, inflight, drain, wire>>

\* The rest of close; session.close may have failed.
CloseEnds ==
    /\ closeP = "pending"
    /\ closeP' = "resolved"
    /\ errors' \in {errors, 1}
    /\ IF tstate = "closed" THEN UNCHANGED <<tstate, closes, bound, sends>>
                            ELSE Finalize(outcome)
    /\ UNCHANGED <<session, inflight, drain, wire>>

-----------------------------------------------------------------------------
(* The session. *)

\* The gateway has accepted the hello.
SessionOpens ==
    /\ session = "none" /\ session' = "ready"
    /\ UNCHANGED <<tstate, bound, closeP, errors, closes, sends, inflight, drain,
                   wire>>

\* The gateway closes the session, or the peer or the connection goes away.
SessionLeaves ==
    /\ session = "ready" /\ session' = "closing"
    /\ UNCHANGED <<tstate, bound, closeP, errors, closes, sends, inflight, drain,
                   wire>>

\* handleSessionClose, when the callbacks are still bound.
SessionCloses ==
    /\ session \in {"ready", "closing"} /\ session' = "closed"
    /\ IF bound
       THEN /\ errors' \in {errors, IF tstate = "closing" THEN errors ELSE 1}
            /\ Finalize(outcome)
       ELSE UNCHANGED <<tstate, bound, errors, closes, sends>>
    /\ UNCHANGED <<closeP, inflight, drain, wire>>

\* handleIncomingMessage, when it throws; otherwise nothing changes.
BadMessage ==
    /\ bound /\ tstate = "ready" /\ session = "ready"
    /\ Fail(outcome)
    /\ UNCHANGED <<inflight, drain, wire>>

-----------------------------------------------------------------------------
(* drainQueue. *)

\* session.send of the first message of q: the frame leaves at once, or the
\* session is not ready and the call is rejected later.
Hand(q) ==
    IF q = <<>> THEN inflight' = NoMessage /\ UNCHANGED wire
    ELSE /\ inflight' = q[1]
         /\ wire' = IF session = "ready" THEN Append(wire, q[1].id) ELSE wire

Drain ==
    /\ drain /\ drain' = FALSE
    /\ IF inflight = NoMessage /\ tstate = "ready" THEN Hand(queue)
       ELSE UNCHANGED <<inflight, wire>>
    /\ UNCHANGED <<link, sends>>

\* The message of an answered send is taken off, if it is still there.
TakeOff ==
    LET there == queue # <<>> /\ queue[1] = inflight
    IN /\ queue' = IF there THEN Tail(queue) ELSE queue
       /\ queuedBytes' = queuedBytes - (IF there THEN inflight.bytes ELSE 0)

\* Mutant: the message stays in the queue.
SentStays ==
    /\ inflight # NoMessage
    /\ inflight.id \in {wire[i] : i \in DOMAIN wire}
    /\ outcome' = Settle(outcome, <<inflight>>, "resolved")
    /\ IF tstate = "ready" /\ Len(wire) < 2 * MaxSends THEN Hand(queue)
       ELSE inflight' = NoMessage /\ UNCHANGED wire
    /\ UNCHANGED <<link, drain, queue, queuedBytes>>

\* session.send resolves, and the loop goes on while the transport is ready.
SendResolves ==
    /\ inflight # NoMessage
    /\ inflight.id \in {wire[i] : i \in DOMAIN wire}
    /\ TakeOff
    /\ outcome' = Settle(outcome, <<inflight>>, "resolved")
    /\ IF tstate = "ready" THEN Hand(queue')
       ELSE inflight' = NoMessage /\ UNCHANGED wire
    /\ UNCHANGED <<link, drain>>

\* session.send rejects: the transport fails, unless it has ended.
SendRejects ==
    /\ inflight # NoMessage
    /\ inflight' = NoMessage
    /\ IF Ended
       THEN /\ TakeOff
            /\ outcome' = Settle(outcome, <<inflight>>, "rejected")
            /\ UNCHANGED link
       ELSE Fail(Settle(outcome, <<inflight>>, "rejected"))
    /\ UNCHANGED <<drain, wire>>

-----------------------------------------------------------------------------
Next ==
    \/ Start \/ Send \/ Close \/ CloseEnds
    \/ SessionOpens \/ SessionLeaves \/ SessionCloses \/ BadMessage
    \/ Drain \/ SendResolves \/ SendRejects

Spec == Init /\ [][Next]_vars

\* Microtasks run, and session.send and session.close are answered.
Fairness ==
    /\ WF_vars(Drain) /\ WF_vars(CloseEnds)
    /\ WF_vars(SendResolves \/ SendRejects)

-----------------------------------------------------------------------------
(* Properties. *)

\* One call of onerror and one of onclose at most, among the types.
TypeOK ==
    /\ tstate \in {"idle", "ready", "failed", "closing", "closed"}
    /\ session \in {"none", "ready", "closing", "closed"}
    /\ closeP \in {"pending", "resolved"}
    /\ errors \in 0..1 /\ closes \in 0..1
    /\ {bound, drain} \subseteq BOOLEAN
    /\ queue \in Seq([id : 1..MaxSends, bytes : Sizes])
    /\ Len(queue) <= MaxQueuedMessages /\ wire \in Seq(Nat)
    /\ queuedBytes \in 0..MaxQueuedBytes
    /\ inflight \in {NoMessage} \cup [id : 1..MaxSends, bytes : Sizes]
    /\ outcome \in [1..MaxSends -> {"none", "pending", "resolved", "rejected"}]

\* The count of bytes is that of the queue, whose messages are those with a
\* pending promise, although a failure may clear it during an await of the loop.
QueueIsTracked ==
    /\ queuedBytes = TotalBytes(queue)
    /\ \A i \in 1..MaxSends : outcome[i] = "pending" <=> i \in Ids(queue)

\* The messages leave in the order of the calls of send(), none of them twice
\* and none left out.
InOrder == wire = [i \in 1..Len(wire) |-> i]

\* Of the n sends accepted so far, the last ones wait, and while the session is
\* ready those before them have been given to it; so has the first that waits,
\* when its session.send is awaited.
NumbersAgree ==
    \E n \in 0..MaxSends :
        /\ \A i \in 1..MaxSends : outcome[i] = "none" <=> i > n
        /\ Len(queue) <= n
        /\ \A j \in 1..Len(queue) : queue[j].id = n - Len(queue) + j
        /\ tstate = "ready" /\ session = "ready" =>
              Len(wire) = n - Len(queue) + (IF inflight = NoMessage THEN 0 ELSE 1)
        /\ tstate = "idle" => n = 0 /\ wire = <<>>

\* What each state of the transport says of its queue and of the loop.
StateAgrees ==
    /\ tstate = "idle" => inflight = NoMessage
    /\ tstate = "ready" /\ inflight # NoMessage => queue # <<>> /\ queue[1] = inflight
    /\ tstate # "idle" => session # "none"
    /\ tstate # "ready" => queue = <<>>
    /\ tstate # "closed" => closes = 0

\* The loop never stalls: a waiting message has a drain to come or is awaited.
NoStall == tstate = "ready" /\ queue # <<>> => drain \/ inflight # NoMessage

\* Closing leaves nothing behind, and a session has no callbacks of a transport
\* that has ended.
ClosedIsClean ==
    /\ tstate = "closed" =>
          /\ closes = 1 /\ queue = <<>>
          /\ \A i \in 1..MaxSends : outcome[i] # "pending"
    /\ bound => tstate \in {"ready", "closing"}

\* Every accepted send() is answered: the drain loop sends it or #fail and
\* close() reject what is queued.
SendSettles ==
    \A i \in 1..MaxSends : outcome[i] = "pending" ~> outcome[i] # "pending"
=============================================================================
