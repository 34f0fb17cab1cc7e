-------------------------------- MODULE Bridge --------------------------------
(***************************************************************************)
(* One connection of the bridge: the transport of the local machine        *)
(* (Agent), the gateway's session, and the server's transport bound to it  *)
(* (Server).  The two ends work at the same time and see each other        *)
(* through the hello, its acknowledgement and the ways a connection ends:  *)
(* each end may close or fail in the middle of what the other does.        *)
(***************************************************************************)
EXTENDS Integers, Sequences

CONSTANTS
    MaxQueuedMessages,  \* BRIDGE_MAX_QUEUED_MESSAGES
    MaxQueuedBytes,     \* BRIDGE_MAX_QUEUED_BYTES
    Sizes,              \* the sizes of frames
    HelloBytes,         \* the size of bridge.hello
    MaxSends,           \* bound of the sends the agent's transport accepts
    MaxReplies          \* bound of the sends the server's transport accepts

ASSUME SizesFit ==
    /\ MaxQueuedMessages \in Nat \ {0} /\ MaxQueuedBytes \in Nat
    /\ Sizes \subseteq 1..MaxQueuedBytes
    /\ HelloBytes \in Nat /\ MaxSends \in Nat /\ MaxReplies \in Nat

VARIABLES
    \* the agent's transport
    tstate, socket, buffered, startP, closeP, handshakeTimer, errors, closes,
    queue, queuedBytes, currentSend, baseline, poll, drain, outcome, wire,
    \* the gateway's connection: "connecting", "handshaking" when the hello is
    \* on its way, "accepted", "refused"
    conn,
    \* the gateway's session and the server's transport
    session, sState, sBound, sCloseP, sErrors, sCloses, sQueue, sQueuedBytes,
    sInflight, sDrain, sOutcome, sWire

Agent == INSTANCE BridgeServerTransport
Server == INSTANCE BridgeClientTransport WITH
    MaxSends <- MaxReplies, tstate <- sState, bound <- sBound, closeP <- sCloseP,
    errors <- sErrors, closes <- sCloses, queue <- sQueue,
    queuedBytes <- sQueuedBytes, inflight <- sInflight, drain <- sDrain,
    outcome <- sOutcome, wire <- sWire

agentVars == <<tstate, socket, buffered, startP, closeP, handshakeTimer, errors,
               closes, queue, queuedBytes, currentSend, baseline, poll, drain,
               outcome, wire>>
serverVars == <<session, sState, sBound, sCloseP, sErrors, sCloses, sQueue,
                sQueuedBytes, sInflight, sDrain, sOutcome, sWire>>
bridgeVars == <<agentVars, conn, serverVars>>

BridgeInit == Agent!Init /\ conn = "connecting" /\ Server!Init

-----------------------------------------------------------------------------
(* The connection. *)

\* The gateway handles the hello, which has left the agent's socket: it opens a
\* session and acknowledges at once, or it refuses, or its timeout has.
Hello ==
    /\ \/ /\ conn = "handshaking"
          /\ socket \in {"OPEN", "CLOSING"} /\ buffered = 0
          /\ conn' = "accepted" /\ Server!SessionOpens
       \/ /\ conn \in {"connecting", "handshaking"} /\ socket # "none"
          /\ conn' = "refused" /\ UNCHANGED serverVars
    /\ UNCHANGED agentVars

\* The agent sends the hello when its socket has opened.
AgentOpens ==
    /\ Agent!Opens
    /\ conn' = IF conn = "connecting" /\ tstate' = "handshaking"
               THEN "handshaking" ELSE conn
    /\ UNCHANGED serverVars

\* The agent reads the acknowledgement, or the gateway's bridge.close.
Ack == conn = "accepted" /\ Agent!FrameAck /\ UNCHANGED <<conn, serverVars>>

AgentReadsClose ==
    /\ conn = "refused" \/ session \in {"closing", "closed"}
    /\ Agent!FrameClose /\ UNCHANGED <<conn, serverVars>>

AgentActs ==
    /\ \/ Agent!Start \/ Agent!Send \/ Agent!Close
       \/ Agent!OpensUnheard \/ Agent!Fails \/ Agent!HandshakeTimeout
       \/ Agent!SocketDies \/ Agent!CloseEvent \/ Agent!Flush
       \/ Agent!Drain \/ Agent!Poll
    /\ UNCHANGED <<conn, serverVars>>

\* The session ends when the gateway or its peer says so, or with the link.
ServerActs ==
    /\ \/ Server!Start \/ Server!Send \/ Server!Close \/ Server!CloseEnds
       \/ Server!SessionLeaves \/ Server!SessionCloses \/ Server!BadMessage
       \/ Server!Drain \/ Server!SendResolves \/ Server!SendRejects
    /\ UNCHANGED <<conn, agentVars>>

BridgeNext ==
    Hello \/ AgentOpens \/ Ack \/ AgentReadsClose \/ AgentActs \/ ServerActs

BridgeSpec == BridgeInit /\ [][BridgeNext]_bridgeVars

SessionEnds == Server!SessionCloses /\ UNCHANGED <<conn, agentVars>>
SocketEnds == Agent!SocketDies /\ UNCHANGED <<conn, serverVars>>

\* The fairness of the two ends, and a WebSocket that tells each end that the
\* other has closed it.
BridgeFairSpec ==
    /\ BridgeSpec /\ Agent!Fairness /\ Server!Fairness
    /\ WF_bridgeVars(session = "closing" /\ SessionEnds)
    /\ WF_bridgeVars(socket \in {"CLOSING", "CLOSED"} /\ SessionEnds)
    /\ WF_bridgeVars((conn = "refused" \/ session = "closed") /\ SocketEnds)

-----------------------------------------------------------------------------
(* Properties. *)

\* Among the types: onerror and onclose are called once at most at each end.
BridgeTypeOK ==
    /\ Agent!TypeOK /\ Server!TypeOK
    /\ conn \in {"connecting", "handshaking", "accepted", "refused"}

\* At each end the count of bytes is that of the queue, and the messages in it
\* are those whose send() is unanswered, whatever failed during an await.
QueueIsTracked == Agent!QueueIsTracked /\ Server!QueueIsTracked

\* The agent's bound on what waits, in the queue and in the socket together,
\* holds although send() and the pump add it up at different times.
WithinLimits == Agent!WithinLimits

\* Both ends send in the order of the calls, nothing twice, nothing left out.
InOrder == Agent!InOrder /\ Server!InOrder

\* What makes the others inductive: how many sends each end has accepted, and
\* what its state says of the rest.
EndsAgree ==
    /\ Agent!NumbersAgree /\ Agent!StateAgrees
    /\ Server!NumbersAgree /\ Server!StateAgrees

\* Neither pump stalls: what waits at a ready end has a step to come.
NoStall == Agent!NoStall /\ Server!NoStall

\* The agent resolves a send() only once its bytes have left the socket.
ResolvedIsFlushed == Agent!ResolvedIsFlushed

\* A closed end leaves no promise, message, timer or callback behind.
ClosedIsClean == Agent!ClosedIsClean /\ Server!ClosedIsClean

\* The agent's start() and close(), and every accepted send() of both ends, are
\* answered.
PromisesSettle ==
    /\ Agent!StartSettles /\ Agent!CloseSettles
    /\ Agent!SendSettles /\ Server!SendSettles

SessionOver == session \in {"none", "closed"} /\ sState # "ready"

\* When the server's end is over, so is the agent's; and when the agent's end
\* has closed its socket, by its own failure or close() or because the gateway
\* asked it to, or the link is gone, the session ends for good.
EndsTogether ==
    /\ sState = "closed" ~> tstate = "closed"
    /\ tstate \in {"failed", "closing"} \/ socket = "CLOSED" ~> []SessionOver

\* docs/plans/2026-09-15-issue-21-bridge-server-transport.md: the socket is
\* cleaned up when the transport closes, fails or is disconnected.  After a
\* failure whose socket.close throws it is not: the transport, once started, is
\* closed, its socket is open, and the gateway keeps the session.
FailureEndsSession ==
    startP = "resolved" /\ tstate = "closed" /\ errors = 1 ~> SessionOver

\* The two transports between any two events: queues and their byte counts,
\* messages in the order of their sends, pumps that go on, sends resolved when
\* flushed, and nothing left at a close.
BridgeInv ==
    /\ BridgeTypeOK /\ QueueIsTracked /\ WithinLimits /\ InOrder /\ NoStall
    /\ ResolvedIsFlushed /\ ClosedIsClean /\ EndsAgree
=============================================================================
