------------------------ MODULE BridgeServerTransport ------------------------
(***************************************************************************)
(* BridgeServerTransport (bridge-server-transport.ts), the local machine's *)
(* end of the bridge: the handshake on an outbound WebSocket, the bounded  *)
(* queue of sends that looks at the socket's bufferedAmount, and the ways  *)
(* it fails and closes.                                                    *)
(*                                                                         *)
(* The socket is the environment: it opens, flushes, fails and closes when *)
(* it likes, and its readyState may change before its event is delivered.  *)
(* Its close may throw: then the transport is closed at once, without its  *)
(* listeners, and the socket is left as it is.                             *)
(* The handler of an incoming frame runs to its end before the next event, *)
(* so the incomingChain is empty between steps.                            *)
(***************************************************************************)
EXTENDS Integers, Sequences, SequencesExt

CONSTANTS
    MaxQueuedMessages,  \* BRIDGE_MAX_QUEUED_MESSAGES
    MaxQueuedBytes,     \* BRIDGE_MAX_QUEUED_BYTES
    Sizes,              \* the sizes of frames
    HelloBytes,         \* the size of bridge.hello
    MaxSends            \* bound of the accepted calls of send()

VARIABLES
    tstate,         \* _state
    socket,         \* readyState, or "none"
    buffered,       \* socket.bufferedAmount
    startP, closeP, \* the promises of start() and close()
    handshakeTimer,
    errors, closes, \* calls of onerror and of onclose
    queue,          \* messages [id, bytes]; the first may be in the socket
    queuedBytes,
    currentSend,    \* the id of the message the socket has not flushed, or 0
    baseline,       \* nativeDrainBaseline
    poll,           \* nativeDrainTimer is armed
    drain,          \* drainScheduled
    outcome,        \* of the promise of each accepted send()
    wire            \* the ids given to socket.send, in order

link  == <<tstate, socket, startP, closeP, handshakeTimer, errors, closes>>
sends == <<queue, queuedBytes, outcome>>
pump  == <<currentSend, baseline, drain, wire>>
vars  == <<link, buffered, sends, pump, poll>>

Init ==
    /\ tstate = "idle" /\ socket = "none" /\ buffered = 0
    /\ startP = "none" /\ closeP = "resolved" /\ handshakeTimer = FALSE
    /\ errors = 0 /\ closes = 0
    /\ queue = <<>> /\ queuedBytes = 0 /\ currentSend = 0 /\ baseline = 0
    /\ poll = FALSE /\ drain = FALSE
    /\ outcome = [i \in 1..MaxSends |-> "none"] /\ wire = <<>>

-----------------------------------------------------------------------------
(* What the handlers share. *)

TotalBytes(s) == FoldSeq(LAMBDA m, sum : m.bytes + sum, 0, s)
Ids(s) == {s[i].id : i \in DOMAIN s}
Bigger(a, b) == IF a > b THEN a ELSE b

\* The bytes of currentSend.
CurrentBytes == IF currentSend # 0 /\ queue # <<>> THEN queue[1].bytes ELSE 0

\* The promises after the messages of s are settled; a settled one stays so.
Settle(o, s, how) ==
    [i \in DOMAIN o |-> IF i \in Ids(s) /\ o[i] = "pending" THEN how ELSE o[i]]

\* rejectQueued
RejectQueued(o) ==
    /\ queue' = <<>> /\ queuedBytes' = 0
    /\ outcome' = Settle(o, queue, "rejected")

RejectStart == startP' = IF startP = "pending" THEN "rejected" ELSE startP

\* Mutant: a pending close() is forgotten.
FinalizeLeavesClose(o) ==
    /\ tstate' = "closed" /\ closes' = closes + 1
    /\ handshakeTimer' = FALSE /\ poll' = FALSE
    /\ RejectQueued(o) /\ RejectStart
    /\ UNCHANGED closeP

\* finalizeClose
Finalize(o) ==
    /\ tstate' = "closed" /\ closes' = closes + 1
    /\ handshakeTimer' = FALSE /\ poll' = FALSE
    /\ RejectQueued(o) /\ RejectStart
    /\ closeP' = "resolved"

\* socket.close: the event follows later.
CloseSocket == socket' = IF socket = "CLOSED" THEN socket ELSE "CLOSING"

\* There is no socket to close, or socket.close throws.
Abandon(o) == Finalize(o) /\ UNCHANGED socket

Closable == socket \notin {"none", "CLOSED"}

\* fail, outside of the states closing and closed.  The message of the error is
\* the reason of the close, which throws when that is too long.
Fail(o) ==
    /\ errors' = 1
    /\ \/ Abandon(o)
       \/ /\ Closable
          /\ tstate' = "failed" /\ handshakeTimer' = FALSE /\ poll' = FALSE
          /\ RejectQueued(o) /\ RejectStart /\ CloseSocket
          /\ UNCHANGED <<closeP, closes>>

Ended == tstate \in {"closing", "closed"}

-----------------------------------------------------------------------------
(* start, send, close. *)

Start ==
    /\ tstate = "idle"
    /\ UNCHANGED <<buffered, pump>>
    /\ \/ /\ tstate' = "connecting" /\ socket' = "CONNECTING"
          /\ startP' = "pending"
          /\ UNCHANGED <<closeP, handshakeTimer, errors, closes, sends, poll>>
       \/ /\ startP' = "rejected"                 \* the factory throws
          /\ tstate' = "closed" /\ errors' = 1 /\ closes' = 1
          /\ UNCHANGED <<socket, closeP, handshakeTimer, sends, poll>>

\* send, when it accepts the message; a rejected call changes nothing.
Send ==
    /\ tstate = "ready" /\ Len(queue) < MaxQueuedMessages
    /\ \E b \in Sizes, i \in DOMAIN outcome :
        /\ queuedBytes - CurrentBytes + Bigger(buffered, CurrentBytes) + b
              <= MaxQueuedBytes
        /\ outcome[i] = "none" /\ \A j \in 1..(i - 1) : outcome[j] # "none"
        /\ queue' = Append(queue, [id |-> i, bytes |-> b])
        /\ queuedBytes' = queuedBytes + b
        /\ outcome' = [outcome EXCEPT ![i] = "pending"]
    /\ drain' = TRUE
    /\ UNCHANGED <<link, buffered, currentSend, baseline, wire, poll>>

Close ==
    /\ ~Ended
    /\ \/ Abandon(outcome) /\ UNCHANGED errors
       \/ /\ Closable
          /\ tstate' = "closing" /\ closeP' = "pending"
          /\ handshakeTimer' = FALSE /\ poll' = FALSE
          /\ RejectQueued(outcome) /\ CloseSocket
          /\ UNCHANGED <<startP, errors, closes>>
    /\ UNCHANGED <<buffered, pump>>

-----------------------------------------------------------------------------
(* The socket's events. *)

\* handleOpen; the hello may not go out at once.
Opens ==
    /\ socket = "CONNECTING" /\ tstate = "connecting"
    /\ \/ /\ socket' = "OPEN" /\ tstate' = "handshaking"
          /\ handshakeTimer' = TRUE /\ buffered' = HelloBytes
          /\ UNCHANGED <<startP, closeP, errors, closes, sends, poll>>
       \/ Fail(outcome) /\ UNCHANGED buffered     \* socket.send throws
    /\ UNCHANGED pump

\* The socket that was left connecting opens, and nobody listens.
OpensUnheard ==
    /\ socket = "CONNECTING" /\ tstate = "closed"
    /\ socket' = "OPEN"
    /\ UNCHANGED <<tstate, startP, closeP, handshakeTimer, errors, closes, buffered,
                   sends, pump, poll>>

\* The acknowledgement of the hello, which the peer has then received.
FrameAck ==
    /\ tstate = "handshaking" /\ socket \in {"OPEN", "CLOSING"} /\ buffered = 0
    /\ tstate' = "ready" /\ startP' = "resolved" /\ handshakeTimer' = FALSE
    /\ drain' = TRUE
    /\ UNCHANGED <<socket, closeP, errors, closes, buffered, sends, currentSend,
                   baseline, wire, poll>>

\* bridge.close from the peer.
FrameClose ==
    /\ tstate \in {"handshaking", "ready"} /\ socket \in {"OPEN", "CLOSING"}
    /\ \/ Abandon(outcome)
       \/ /\ tstate' = "closing" /\ CloseSocket /\ RejectQueued(outcome)
          /\ UNCHANGED <<startP, closeP, handshakeTimer, closes, poll>>
    /\ UNCHANGED <<errors, buffered, pump>>

\* A frame the contract does not allow here, a bridge.error, an MCP message
\* whose callback throws, or an error event of the socket.
Fails ==
    /\ ~Ended /\ tstate # "idle"
    /\ Fail(outcome)
    /\ UNCHANGED <<buffered, pump>>

HandshakeTimeout ==
    /\ handshakeTimer
    /\ IF Ended THEN /\ handshakeTimer' = FALSE
                     /\ UNCHANGED <<tstate, socket, startP, closeP, errors, closes,
                                    sends, poll>>
                ELSE Fail(outcome)
    /\ UNCHANGED <<buffered, pump>>

\* The connection goes away, or the closing handshake ends; the event follows.
SocketDies ==
    /\ \/ socket \in {"CONNECTING", "OPEN"} /\ socket' \in {"CLOSING", "CLOSED"}
       \/ socket = "CLOSING" /\ socket' = "CLOSED"
    /\ UNCHANGED <<tstate, startP, closeP, handshakeTimer, errors, closes, buffered,
                   sends, pump, poll>>

\* handleSocketClose: an unexpected close is an error.
CloseEvent ==
    /\ socket = "CLOSED" /\ tstate # "closed"
    /\ errors' = IF tstate = "closing" THEN errors ELSE 1
    /\ Finalize(outcome)
    /\ UNCHANGED <<socket, buffered, pump>>

Flush ==
    /\ socket \in {"OPEN", "CLOSING"} /\ buffered > 0
    /\ buffered' \in 0..(buffered - 1)
    /\ UNCHANGED <<link, sends, pump, poll>>

-----------------------------------------------------------------------------
(* The pump. *)

Fits(m) == buffered + m.bytes <= MaxQueuedBytes

\* drainQueue from an open socket: k messages go through at once, and the next
\* one stays in the socket's buffer, does not fit into it, or cannot be sent.
PumpMessages(k) ==
    LET passed == SubSeq(queue, 1, k)
        rest   == SubSeq(queue, k + 1, Len(queue))
        resolved == Settle(outcome, passed, "resolved")
        Passed ==
            /\ queue' = rest /\ queuedBytes' = queuedBytes - TotalBytes(passed)
            /\ outcome' = resolved
        passedIds == [i \in 1..k |-> queue[i].id]
    IN /\ \A i \in 1..k : Fits(queue[i])
       /\ \/ /\ rest = <<>>
             /\ Passed /\ wire' = wire \o passedIds
             /\ UNCHANGED <<link, buffered, currentSend, baseline, poll>>
          \/ /\ rest # <<>> /\ ~Fits(rest[1])
             /\ Passed /\ wire' = wire \o passedIds
             /\ poll' = TRUE
             /\ UNCHANGED <<link, buffered, currentSend, baseline>>
          \/ /\ rest # <<>> /\ Fits(rest[1])
             /\ Passed /\ wire' = Append(wire \o passedIds, rest[1].id)
             /\ buffered' \in (buffered + 1)..(buffered + rest[1].bytes)
             /\ currentSend' = rest[1].id /\ baseline' = buffered
             /\ poll' = TRUE
             /\ UNCHANGED link
          \/ /\ rest # <<>> /\ Fits(rest[1])
             /\ wire' = wire \o passedIds
             /\ Fail(resolved)
             /\ UNCHANGED <<buffered, currentSend, baseline>>

Drain ==
    /\ drain /\ drain' = FALSE
    /\ IF currentSend # 0 \/ tstate # "ready" \/ queue = <<>>
       THEN UNCHANGED <<link, buffered, sends, currentSend, baseline, wire, poll>>
       ELSE IF socket # "OPEN"
       THEN Fail(outcome) /\ UNCHANGED <<buffered, currentSend, baseline, wire>>
       ELSE \E k \in 0..Len(queue) : PumpMessages(k)

\* currentSend has left the socket's buffer.
CurrentDone ==
    /\ currentSend' = 0 /\ baseline' = 0
    /\ outcome' = Settle(outcome, <<queue[1]>>, "resolved")
    /\ queue' = Tail(queue) /\ queuedBytes' = queuedBytes - queue[1].bytes
    /\ drain' = TRUE
    /\ UNCHANGED <<link, wire, buffered>>

\* The timer of scheduleNativeDrainPoll.
Poll ==
    /\ poll
    /\ IF tstate # "ready" \/ currentSend = 0 \/ socket # "OPEN"
       THEN poll' = FALSE /\ UNCHANGED <<link, buffered, sends, pump>>
       ELSE /\ buffered <= baseline
            /\ poll' = FALSE
            /\ CurrentDone

-----------------------------------------------------------------------------
Next ==
    \/ Start \/ Send \/ Close
    \/ Opens \/ OpensUnheard \/ FrameAck \/ FrameClose \/ Fails
    \/ HandshakeTimeout
    \/ SocketDies \/ CloseEvent \/ Flush
    \/ Drain \/ Poll

Spec == Init /\ [][Next]_vars

\* Microtasks and timers run; a connect ends one way or the other, a socket that
\* closes is closed and reports it, and a peer that is alive reads.
Fairness ==
    /\ WF_vars(Drain) /\ WF_vars(Poll) /\ WF_vars(HandshakeTimeout)
    /\ WF_vars(\/ Opens \/ OpensUnheard
               \/ socket = "CONNECTING" /\ (Fails \/ SocketDies))
    /\ WF_vars(socket = "CLOSING" /\ SocketDies) /\ WF_vars(CloseEvent)
    /\ WF_vars(Flush)
-----------------------------------------------------------------------------
(* Properties. *)

States == {"idle", "connecting", "handshaking", "ready", "failed", "closing",
           "closed"}

\* One call of onerror and one of onclose at most, among the types.
TypeOK ==
    /\ tstate \in States
    /\ socket \in {"none", "CONNECTING", "OPEN", "CLOSING", "CLOSED"}
    /\ buffered \in Nat /\ baseline \in Nat
    /\ startP \in {"none", "pending", "resolved", "rejected"}
    /\ closeP \in {"pending", "resolved"}
    /\ errors \in 0..1 /\ closes \in 0..1
    /\ queue \in Seq([id : 1..MaxSends, bytes : Sizes])
    /\ Len(queue) <= MaxQueuedMessages /\ wire \in Seq(Nat)
    /\ queuedBytes \in 0..MaxQueuedBytes
    /\ currentSend \in 0..MaxSends
    /\ {handshakeTimer, poll, drain} \subseteq BOOLEAN
    /\ outcome \in [1..MaxSends -> {"none", "pending", "resolved", "rejected"}]

\* The count of bytes is that of the queue, whose messages are those with a
\* pending promise; the message in the socket's buffer is the first of them.
QueueIsTracked ==
    /\ queuedBytes = TotalBytes(queue)
    /\ \A i \in 1..MaxSends : outcome[i] = "pending" <=> i \in Ids(queue)
    /\ tstate = "ready" /\ currentSend # 0 =>
          queue # <<>> /\ queue[1].id = currentSend

\* The bound on what waits to be sent, in the queue and in the socket together,
\* holds although send() adds them up at different times from the pump.
WithinLimits ==
    tstate = "ready" =>
        queuedBytes - CurrentBytes + buffered <= MaxQueuedBytes

\* The messages go to the socket in the order of the calls of send(), none of
\* them twice and none left out.
InOrder == wire = [i \in 1..Len(wire) |-> i]

\* Of the n sends accepted so far, the last ones wait, and those before them
\* have been given to the socket; so has the first that waits, when it is
\* currentSend.
NumbersAgree ==
    \E n \in 0..MaxSends :
        /\ \A i \in 1..MaxSends : outcome[i] = "none" <=> i > n
        /\ Len(queue) <= n
        /\ \A j \in 1..Len(queue) : queue[j].id = n - Len(queue) + j
        /\ tstate = "ready" =>
              Len(wire) = n - Len(queue) + (IF currentSend = 0 THEN 0 ELSE 1)
        /\ tstate \in {"idle", "connecting", "handshaking"} => n = 0 /\ wire = <<>>

\* What each state of the transport says of its queue, promises and timers.
StateAgrees ==
    /\ tstate = "idle" => startP = "none" /\ ~handshakeTimer
    /\ tstate \in {"idle", "connecting", "handshaking"} =>
          currentSend = 0 /\ baseline = 0 /\ ~poll
    /\ tstate = "ready" =>
          baseline = 0 /\ (socket = "OPEN" /\ currentSend # 0 => poll)
    /\ tstate # "ready" => queue = <<>>
    /\ tstate # "closed" => closes = 0
    /\ closeP = "pending" => tstate = "closing"

\* The pump never stalls: a waiting message has a drain to come, or a message
\* before it that the timer watches.  The branch that arms the timer with no
\* current message, which the timer would not serve, is never taken.
NoStall ==
    tstate = "ready" /\ socket = "OPEN" /\ queue # <<>> =>
        drain \/ (poll /\ currentSend # 0)

\* A send() is resolved only once its bytes have left the socket's buffer.
ResolvedIsFlushed == tstate = "ready" => buffered <= CurrentBytes

\* Closing leaves nothing behind: no promise, message or timer.
ClosedIsClean ==
    tstate = "closed" =>
        /\ closes = 1
        /\ startP # "pending" /\ closeP = "resolved"
        /\ queue = <<>> /\ ~handshakeTimer /\ ~poll
        /\ \A i \in 1..MaxSends : outcome[i] # "pending"

\* start(), close() and every accepted send() are answered.
StartSettles == startP = "pending" ~> startP # "pending"
CloseSettles == closeP = "pending" ~> closeP # "pending"
SendSettles ==
    \A i \in 1..MaxSends : outcome[i] = "pending" ~> outcome[i] # "pending"
=============================================================================
