------------------------ MODULE PairingChannelProofs ------------------------
(***************************************************************************)
(* Proofs about PairingChannel.  Inv is inductive; that devices_pair       *)
(* reports a success only for a recorded delivery, and that one socket at  *)
(* a time is attached, follow from it.                                     *)
(***************************************************************************)
EXTENDS PairingChannel, TLAPS

USE DEF server, sockets, client

-----------------------------------------------------------------------------
(* Frames in flight. *)

\* A frame that arrives after others carries an acknowledgement only if one of
\* them does.
LEMMA ConcatFrames ==
    ASSUME NEW a \in Seq(Frames), NEW b \in Seq(Frames)
    PROVE  /\ a \o b \in Seq(Frames)
           /\ HasAck(a \o b) => HasAck(a) \/ HasAck(b)
<1>1. a \o b \in Seq(Frames)
    OBVIOUS
<1>2. ASSUME NEW i \in DOMAIN (a \o b), (a \o b)[i] = "ack"
      PROVE  HasAck(a) \/ HasAck(b)
  <2>1. CASE i <= Len(a)
      BY <1>2, <2>1 DEF HasAck
  <2>2. CASE i > Len(a)
    <3>1. i - Len(a) \in 1..Len(b) /\ (a \o b)[i] = b[i - Len(a)]
        BY <2>2
    <3> QED BY <1>2, <3>1 DEF HasAck
  <2> QED BY <2>1, <2>2
<1> QED BY <1>1, <1>2 DEF HasAck

\* Reading a frame.
LEMMA TailFrames ==
    ASSUME NEW a \in Seq(Frames), a # <<>>
    PROVE  /\ Tail(a) \in Seq(Frames)
           /\ HasAck(Tail(a)) => HasAck(a)
           /\ Head(a) = "ack" => HasAck(a)
<1>1. Tail(a) \in Seq(Frames) /\ Len(a) \in Nat /\ Len(a) # 0 /\ Head(a) = a[1]
    OBVIOUS
<1>2. ASSUME NEW i \in DOMAIN Tail(a), Tail(a)[i] = "ack" PROVE HasAck(a)
  <2>1. i + 1 \in DOMAIN a /\ Tail(a)[i] = a[i + 1]
      OBVIOUS
  <2> QED BY <1>2, <2>1 DEF HasAck
<1>3. 1 \in DOMAIN a
    BY <1>1
<1> QED BY <1>1, <1>2, <1>3 DEF HasAck

\* A reply that ends with the close event.
LEMMA FinFrames ==
    ASSUME NEW a \in Seq(Frames)
    PROVE  /\ Append(a, "fin") \in Seq(Frames)
           /\ HasAck(Append(a, "fin")) => HasAck(a)
<1>1. "fin" \in Frames
    BY DEF Frames
<1>2. Append(a, "fin") \in Seq(Frames) /\ Len(Append(a, "fin")) = Len(a) + 1
    BY <1>1
<1>3. ASSUME NEW i \in DOMAIN Append(a, "fin"), Append(a, "fin")[i] = "ack"
      PROVE  HasAck(a)
  <2>1. CASE i <= Len(a)
      BY <1>3, <2>1 DEF HasAck
  <2>2. CASE i > Len(a)
      BY <1>2, <1>3, <2>2
  <2> QED BY <2>1, <2>2
<1> QED BY <1>2, <1>3 DEF HasAck

\* The frames that the two ends send; only one of them is an acknowledgement.
LEMMA FramesSent ==
    /\ <<>> \in Seq(Frames) /\ ~HasAck(<<>>)
    /\ \A f \in Frames : <<f>> \in Seq(Frames) /\ (HasAck(<<f>>) => f = "ack")
    /\ \A f, g \in Frames : /\ <<f, g>> \in Seq(Frames)
                            /\ HasAck(<<f, g>>) => f = "ack" \/ g = "ack"
<1>1. <<>> \in Seq(Frames) /\ ~HasAck(<<>>)
    BY DEF HasAck
<1>2. ASSUME NEW f \in Frames
      PROVE  <<f>> \in Seq(Frames) /\ (HasAck(<<f>>) => f = "ack")
  <2>1. <<f>> \in Seq(Frames)
      OBVIOUS
  <2>2. \A i \in DOMAIN <<f>> : <<f>>[i] = f
      OBVIOUS
  <2> QED BY <2>1, <2>2 DEF HasAck
<1>3. ASSUME NEW f \in Frames, NEW g \in Frames
      PROVE  /\ <<f, g>> \in Seq(Frames)
             /\ HasAck(<<f, g>>) => f = "ack" \/ g = "ack"
  <2>1. <<f, g>> \in Seq(Frames)
      OBVIOUS
  <2>2. \A i \in DOMAIN <<f, g>> : <<f, g>>[i] \in {f, g}
      OBVIOUS
  <2> QED BY <2>1, <2>2 DEF HasAck
<1> QED BY <1>1, <1>2, <1>3

\* Sending keeps the frames frames; an acknowledgement is sent or was there.
LEMMA SentFrames ==
    ASSUME NEW queue \in [Sockets -> Seq(Frames)], NEW open, NEW s,
           s \in Sockets \cup {NoSocket}, NEW frames \in Seq(Frames)
    PROVE  /\ Sent(queue, open, s, frames) \in [Sockets -> Seq(Frames)]
           /\ \A t \in Sockets :
                 HasAck(Sent(queue, open, s, frames)[t])
                    => HasAck(queue[t]) \/ HasAck(frames)
<1>1. CASE s # NoSocket /\ open[s]
  <2>1. /\ queue[s] \o frames \in Seq(Frames)
        /\ HasAck(queue[s] \o frames) => HasAck(queue[s]) \/ HasAck(frames)
      BY <1>1, ConcatFrames
  <2>2. Sent(queue, open, s, frames) = [queue EXCEPT ![s] = queue[s] \o frames]
      BY <1>1 DEF Sent
  <2> QED BY <2>1, <2>2
<1>2. CASE ~(s # NoSocket /\ open[s])
    BY <1>2 DEF Sent
<1> QED BY <1>1, <1>2

\* What a step does to the sockets: they keep their types, and an
\* acknowledgement on its way is of a stored credential.
Frame == [Sockets -> Seq(Frames)]
Flags == [Sockets -> BOOLEAN]
SocketsKept ==
    /\ up' \in Frame /\ down' \in Frame /\ sopen' \in Flags /\ copen' \in Flags
    /\ \A t \in Sockets : HasAck(up'[t]) => HasAck(up[t]) \/ stored'

\* A frame is read by the server.
LEMMA PoppedFrames ==
    ASSUME TypeOK, NEW s \in Sockets, NEW f, HeadIs(up, s, f), Popped(s)
    PROVE  /\ up' \in Frame
           /\ \A t \in Sockets : HasAck(up'[t]) => HasAck(up[t])
           /\ f = "ack" => HasAck(up[s])
<1>1. up[s] \in Seq(Frames) /\ up[s] # <<>> /\ Head(up[s]) = f
    BY DEF TypeOK, HeadIs
<1>2. /\ Tail(up[s]) \in Seq(Frames) /\ (HasAck(Tail(up[s])) => HasAck(up[s]))
      /\ Head(up[s]) = "ack" => HasAck(up[s])
    BY <1>1, TailFrames
<1> QED BY <1>1, <1>2 DEF Popped, TypeOK, Frame

\* A frame is read by the client.
LEMMA ReadFrames ==
    ASSUME TypeOK, NEW s \in Sockets, NEW f, Read(s, f)
    PROVE  down' \in Frame
<1>1. down[s] \in Seq(Frames) /\ down[s] # <<>>
    BY DEF TypeOK, Read, HeadIs
<1>2. Tail(down[s]) \in Seq(Frames)
    BY <1>1, TailFrames
<1> QED BY <1>1, <1>2 DEF Read, TypeOK, Frame

\* The server's answer in a step.
LEMMA ReplyFrames ==
    ASSUME TypeOK, NEW s \in Sockets \cup {NoSocket}, NEW frames \in Seq(Frames),
           NEW closes \in BOOLEAN, Reply(s, frames, closes)
    PROVE  down' \in Frame /\ sopen' \in Flags
<1>1. down' \in Frame
  <2>1. (IF closes THEN Append(frames, "fin") ELSE frames) \in Seq(Frames)
      BY FinFrames
  <2> QED BY <2>1, SentFrames DEF Reply, TypeOK, Frame
<1>2. sopen' \in Flags
    BY DEF Reply, Closed, TypeOK, Flags
<1> QED BY <1>1, <1>2

\* A refusal is an error frame and the close.
LEMMA RefuseFrames ==
    ASSUME TypeOK, NEW s \in Sockets \cup {NoSocket}, Refuse(s)
    PROVE  down' \in Frame /\ sopen' \in Flags
<1>1. <<"error">> \in Seq(Frames)
    BY FramesSent DEF Frames
<1> QED BY <1>1, ReplyFrames DEF Refuse

\* The client's end closes.
LEMMA ClientClosesFrames ==
    ASSUME TypeOK, NEW s \in Sockets \cup {NoSocket}, ClientCloses(s)
    PROVE  /\ up' \in Frame /\ copen' \in Flags
           /\ \A t \in Sockets : HasAck(up'[t]) => HasAck(up[t])
<1>1. <<"fin">> \in Seq(Frames) /\ ~HasAck(<<"fin">>)
    BY FramesSent DEF Frames
<1>2. /\ up' \in Frame
      /\ \A t \in Sockets : HasAck(up'[t]) => HasAck(up[t])
    BY <1>1, SentFrames DEF ClientCloses, TypeOK, Frame
<1>3. copen' \in Flags
    BY DEF ClientCloses, TypeOK, Flags
<1> QED BY <1>2, <1>3

\* An acknowledgement is of a stored credential, before and after the step.
LEMMA AcksKept ==
    ASSUME AckIsStored, SocketsKept, stored => stored',
           acking' # NoSocket => acking # NoSocket \/ stored'
    PROVE  AckIsStored'
BY DEF AckIsStored, SocketsKept

-----------------------------------------------------------------------------
(* Server: one lemma for each action. *)

\* An attach begins when no socket is attached and none is attaching.
LEMMA RecvAttachPreserves ==
    ASSUME Inv, NEW s \in Sockets, RecvAttach(s)
    PROVE  Inv'
<1>1. SocketsKept
  <2>1. HeadIs(up, s, "attach") /\ Popped(s)
      BY DEF RecvAttach
  <2>2. down' \in Frame /\ sopen' \in Flags
    <3>1. CASE UNCHANGED <<down, sopen>>
        BY <3>1 DEF Inv, TypeOK, Frame, Flags
    <3>2. CASE Refuse(s)
        BY <3>2, RefuseFrames DEF Inv
    <3> QED BY <3>1, <3>2 DEF RecvAttach, RefuseAndDetach
  <2> QED BY <2>1, <2>2, PoppedFrames DEF RecvAttach, SocketsKept, Inv, TypeOK, Flags
<1>2. TypeOK'
    BY <1>1 DEF RecvAttach, RefuseAndDetach, Detach, Inv, TypeOK, SocketsKept, Frame, Flags
<1>3. AckIsStored'
    BY <1>1, AcksKept DEF RecvAttach, Inv
<1>4. /\ DeliveredIsStored' /\ NoOrphanCalls' /\ AckIsRecorded'
    BY DEF RecvAttach, Inv, DeliveredIsStored, NoOrphanCalls, AckIsRecorded
<1>5. PendingIsSent' /\ AttachIsAlone'
    BY DEF RecvAttach, RefuseAndDetach, Detach, Inv, PendingIsSent, AttachIsAlone, TypeOK
<1> QED BY <1>2, <1>3, <1>4, <1>5 DEF Inv

\* The attached socket gets the delivery that waits for it.
LEMMA AttachPreserves ==
    ASSUME Inv, NEW s \in Sockets, Attach(s)
    PROVE  Inv'
<1>1. SocketsKept
  <2>1. down' \in Frame /\ sopen' \in Flags
    <3>1. CASE Reply(s, <<"attached", "credential">>, FALSE)
      <4>1. <<"attached", "credential">> \in Seq(Frames)
          BY FramesSent DEF Frames
      <4> QED BY <3>1, <4>1, ReplyFrames DEF Inv
    <3>2. CASE Reply(s, <<"attached">>, FALSE)
      <4>1. <<"attached">> \in Seq(Frames)
          BY FramesSent DEF Frames
      <4> QED BY <3>2, <4>1, ReplyFrames DEF Inv
    <3>3. CASE Refuse(s)
        BY <3>3, RefuseFrames DEF Inv
    <3> QED BY <3>1, <3>2, <3>3 DEF Attach
  <2> QED BY <2>1 DEF Attach, SocketsKept, Inv, TypeOK, Frame, Flags
<1>2. TypeOK'
    BY <1>1 DEF Attach, Inv, TypeOK, SocketsKept, Frame, Flags
<1>3. AckIsStored'
    BY <1>1, AcksKept DEF Attach, Inv
<1>4. /\ DeliveredIsStored' /\ NoOrphanCalls' /\ AckIsRecorded'
    BY DEF Attach, Inv, DeliveredIsStored, NoOrphanCalls, AckIsRecorded
<1>5. PendingIsSent' /\ AttachIsAlone'
    BY DEF Attach, Inv, PendingIsSent, AttachIsAlone
<1> QED BY <1>2, <1>3, <1>4, <1>5 DEF Inv

\* A socket that is not the entry's is closed.
LEMMA AttachTimeoutPreserves ==
    ASSUME Inv, NEW s \in Sockets, AttachTimeout(s)
    PROVE  Inv'
<1>1. SocketsKept
    BY ReplyFrames, FramesSent
       DEF AttachTimeout, SocketsKept, Inv, TypeOK, Frame, Flags
<1>2. TypeOK'
    BY <1>1 DEF AttachTimeout, Inv, TypeOK, SocketsKept, Frame, Flags
<1>3. AckIsStored'
    BY <1>1, AcksKept DEF AttachTimeout, Inv
<1>4. /\ DeliveredIsStored' /\ NoOrphanCalls' /\ AckIsRecorded'
      /\ PendingIsSent' /\ AttachIsAlone'
    BY DEF AttachTimeout, Inv, DeliveredIsStored, NoOrphanCalls, AckIsRecorded,
       PendingIsSent, AttachIsAlone
<1> QED BY <1>2, <1>3, <1>4 DEF Inv

\* An acknowledgement is taken from the attached socket.
LEMMA RecvAckPreserves ==
    ASSUME Inv, NEW s \in Sockets, RecvAck(s)
    PROVE  Inv'
<1>1. SocketsKept /\ HasAck(up[s])
  <2>1. HeadIs(up, s, "ack") /\ Popped(s)
      BY DEF RecvAck
  <2>2. down' \in Frame /\ sopen' \in Flags
    <3>1. CASE UNCHANGED <<down, sopen>>
        BY <3>1 DEF Inv, TypeOK, Frame, Flags
    <3>2. CASE Refuse(s)
        BY <3>2, RefuseFrames DEF Inv
    <3> QED BY <3>1, <3>2 DEF RecvAck, RefuseAndDetach
  <2> QED BY <2>1, <2>2, PoppedFrames DEF RecvAck, SocketsKept, Inv, TypeOK, Flags
<1>2. TypeOK'
    BY <1>1 DEF RecvAck, RefuseAndDetach, Detach, Inv, TypeOK, SocketsKept, Frame, Flags
<1>3. AckIsStored'
  <2>1. stored /\ stored' = stored
      BY <1>1 DEF RecvAck, Inv, AckIsStored
  <2> QED BY <1>1, <2>1, AcksKept DEF Inv
<1>4. /\ DeliveredIsStored' /\ NoOrphanCalls' /\ AckIsRecorded'
    BY NoSocketIsNoSocket
       DEF RecvAck, Inv, DeliveredIsStored, NoOrphanCalls, AckIsRecorded
<1>5. PendingIsSent' /\ AttachIsAlone'
    BY DEF RecvAck, RefuseAndDetach, Detach, Inv, PendingIsSent, AttachIsAlone, TypeOK
<1> QED BY <1>2, <1>3, <1>4, <1>5 DEF Inv

\* The client could not store the credential: the calls fail.
LEMMA RecvErrorPreserves ==
    ASSUME Inv, NEW s \in Sockets, RecvError(s)
    PROVE  Inv'
<1>1. SocketsKept
  <2>1. HeadIs(up, s, "error") /\ Popped(s)
      BY DEF RecvError
  <2>2. down' \in Frame /\ sopen' \in Flags
    <3>1. CASE UNCHANGED <<down, sopen>>
        BY <3>1 DEF Inv, TypeOK, Frame, Flags
    <3>2. CASE Refuse(s)
        BY <3>2, RefuseFrames DEF Inv
    <3> QED BY <3>1, <3>2 DEF RecvError, RefuseAndDetach
  <2> QED BY <2>1, <2>2, PoppedFrames DEF RecvError, SocketsKept, Inv, TypeOK, Flags
<1>2. TypeOK'
  <2>1. call' \in [Calls -> {"idle", "waiting"} \cup Settled]
      BY DEF RecvError, CallsSettled, Settled, Inv, TypeOK
  <2>2. {esock', sentTo'} \subseteq Sockets \cup {NoSocket}
      BY DEF RecvError, RefuseAndDetach, Detach, Inv, TypeOK
  <2> QED BY <1>1, <2>1, <2>2 DEF RecvError, Inv, TypeOK, SocketsKept, Frame, Flags
<1>3. AckIsStored'
    BY <1>1, AcksKept DEF RecvError, Inv
<1>4. /\ DeliveredIsStored' /\ NoOrphanCalls' /\ AckIsRecorded'
    BY DEF RecvError, Inv, DeliveredIsStored, NoOrphanCalls, AckIsRecorded,
       CallsSettled
<1>5. PendingIsSent' /\ AttachIsAlone'
    BY DEF RecvError, RefuseAndDetach, Detach, Inv, PendingIsSent, AttachIsAlone, TypeOK
<1> QED BY <1>2, <1>3, <1>4, <1>5 DEF Inv

\* A cancellation is taken from the attached socket.
LEMMA RecvCancelPreserves ==
    ASSUME Inv, NEW s \in Sockets, RecvCancel(s)
    PROVE  Inv'
<1>1. SocketsKept
  <2>1. HeadIs(up, s, "cancel") /\ Popped(s)
      BY DEF RecvCancel
  <2>2. down' \in Frame /\ sopen' \in Flags
    <3>1. CASE UNCHANGED <<down, sopen>>
        BY <3>1 DEF Inv, TypeOK, Frame, Flags
    <3>2. CASE Refuse(s)
        BY <3>2, RefuseFrames DEF Inv
    <3> QED BY <3>1, <3>2 DEF RecvCancel, RefuseAndDetach
  <2> QED BY <2>1, <2>2, PoppedFrames DEF RecvCancel, SocketsKept, Inv, TypeOK, Flags
<1>2. TypeOK'
  <2>1. ender' \in [Enders -> {"idle", "waiting", "done"}]
      BY DEF RecvCancel, Enders, Inv, TypeOK
  <2>2. {esock', sentTo'} \subseteq Sockets \cup {NoSocket}
      BY DEF RecvCancel, RefuseAndDetach, Detach, Inv, TypeOK
  <2> QED BY <1>1, <2>1, <2>2 DEF RecvCancel, Inv, TypeOK, SocketsKept, Frame, Flags
<1>3. AckIsStored'
    BY <1>1, AcksKept DEF RecvCancel, Inv
<1>4. /\ DeliveredIsStored' /\ NoOrphanCalls' /\ AckIsRecorded'
    BY DEF RecvCancel, Inv, DeliveredIsStored, NoOrphanCalls, AckIsRecorded,
       CallsSettled
<1>5. PendingIsSent' /\ AttachIsAlone'
    BY DEF RecvCancel, RefuseAndDetach, Detach, Inv, PendingIsSent, AttachIsAlone, TypeOK
<1> QED BY <1>2, <1>3, <1>4, <1>5 DEF Inv

\* The close event of the attached socket detaches it.
LEMMA RecvFinPreserves ==
    ASSUME Inv, NEW s \in Sockets, RecvFin(s)
    PROVE  Inv'
<1>1. SocketsKept
  <2>1. HeadIs(up, s, "fin") /\ Popped(s) /\ Closed(s)
      BY DEF RecvFin
  <2>2. sopen' \in Flags
      BY <2>1 DEF Closed, Inv, TypeOK, Flags
  <2> QED BY <2>1, <2>2, PoppedFrames
          DEF RecvFin, SocketsKept, Inv, TypeOK, Frame, Flags
<1>2. TypeOK'
    BY <1>1 DEF RecvFin, Detach, Inv, TypeOK, SocketsKept, Frame, Flags
<1>3. AckIsStored'
    BY <1>1, AcksKept DEF RecvFin, Inv
<1>4. /\ DeliveredIsStored' /\ NoOrphanCalls' /\ AckIsRecorded'
      /\ PendingIsSent' /\ AttachIsAlone'
    BY DEF RecvFin, Detach, Inv, DeliveredIsStored, NoOrphanCalls, AckIsRecorded,
       PendingIsSent, AttachIsAlone, TypeOK
<1> QED BY <1>2, <1>3, <1>4 DEF Inv

\* The first call creates the delivery, and it goes to the attached socket.
LEMMA DeliverPreserves ==
    ASSUME Inv, NEW c \in Calls, Deliver(c)
    PROVE  Inv'
<1>1. SocketsKept
  <2>1. <<"credential">> \in Seq(Frames)
      BY FramesSent DEF Frames
  <2>2. down' \in Frame /\ sopen' \in Flags
    <3>1. CASE UNCHANGED <<down, sopen>>
        BY <3>1 DEF Inv, TypeOK, Frame, Flags
    <3>2. CASE Reply(esock, <<"credential">>, FALSE)
        BY <2>1, <3>2, ReplyFrames DEF Inv, TypeOK
    <3> QED BY <3>1, <3>2 DEF Deliver
  <2> QED BY <2>2 DEF Deliver, SocketsKept, Inv, TypeOK, Frame, Flags
<1>2. TypeOK'
  <2>1. call' \in [Calls -> {"idle", "waiting"} \cup Settled]
      BY DEF Deliver, Settled, Inv, TypeOK
  <2> QED BY <1>1, <2>1 DEF Deliver, Inv, TypeOK, SocketsKept, Frame, Flags
<1>3. AckIsStored'
    BY <1>1, AcksKept DEF Deliver, Inv
<1>4. /\ DeliveredIsStored' /\ AckIsRecorded' /\ PendingIsSent' /\ AttachIsAlone'
    BY DEF Deliver, Inv, DeliveredIsStored, AckIsRecorded, PendingIsSent, AttachIsAlone
<1>5. NoOrphanCalls'
    BY DEF Deliver, Inv, NoOrphanCalls, TypeOK
<1> QED BY <1>2, <1>3, <1>4, <1>5 DEF Inv

\* The steps of the server that touch no socket.
LEMMA QuietPreserves ==
    ASSUME Inv,
           \/ \E c \in Calls : WaiterTimeout(c)
           \/ IssueCompletion \/ RecordAck \/ Close
    PROVE  Inv'
<1>1. SocketsKept
    BY DEF WaiterTimeout, IssueCompletion, RecordAck, Close, SocketsKept, Inv,
       TypeOK, Frame, Flags
<1>2. TypeOK'
  <2>1. CASE \E c \in Calls : WaiterTimeout(c)
      BY <2>1 DEF WaiterTimeout, Inv, TypeOK, Settled
  <2>2. CASE IssueCompletion \/ RecordAck
      BY <2>2 DEF IssueCompletion, RecordAck, Inv, TypeOK
  <2>3. CASE Close
      BY <2>3 DEF Close, Inv, TypeOK, Enders
  <2> QED BY <2>1, <2>2, <2>3
<1>3. AckIsStored'
    BY <1>1, AcksKept DEF WaiterTimeout, IssueCompletion, RecordAck, Close, Inv
<1>4. DeliveredIsStored' /\ AckIsRecorded'
    BY DEF WaiterTimeout, IssueCompletion, RecordAck, Close, Inv, DeliveredIsStored,
       AckIsRecorded, AckIsStored
<1>5. PendingIsSent' /\ AttachIsAlone' /\ NoOrphanCalls'
    BY DEF WaiterTimeout, IssueCompletion, RecordAck, Close, Inv, PendingIsSent,
       AttachIsAlone, NoOrphanCalls, TypeOK
<1> QED BY <1>2, <1>3, <1>4, <1>5 DEF Inv

\* The entry goes: its calls have failed and its socket is closed.
LEMMA EndEntryPreserves ==
    ASSUME Inv, EndEntry, UNCHANGED <<attaching, acking, ackResult, up, copen, client>>,
           ender' \in [Enders -> {"idle", "waiting", "done"}]
    PROVE  Inv'
<1>1. SocketsKept
  <2>1. down' \in Frame /\ sopen' \in Flags
      BY ReplyFrames, FramesSent DEF EndEntry, Inv, TypeOK
  <2> QED BY <2>1 DEF SocketsKept, Inv, TypeOK, Frame, Flags
<1>2. TypeOK'
    BY <1>1 DEF EndEntry, RemoveEntry, CallsSettled, Settled, Inv, TypeOK, SocketsKept,
       Frame, Flags
<1>3. AckIsStored'
    BY <1>1, AcksKept DEF Inv
<1>4. /\ DeliveredIsStored' /\ AckIsRecorded' /\ PendingIsSent' /\ NoOrphanCalls'
    BY DEF EndEntry, RemoveEntry, CallsSettled, Inv, DeliveredIsStored, AckIsRecorded,
       PendingIsSent, NoOrphanCalls
<1>5. AttachIsAlone'
    BY DEF EndEntry, RemoveEntry, Inv, AttachIsAlone
<1> QED BY <1>2, <1>3, <1>4, <1>5 DEF Inv

\* The channel expires, or a cancellation or the end of the server removes it.
LEMMA EndersPreserve ==
    ASSUME Inv, Expire \/ \E e \in Enders : Ended(e)
    PROVE  Inv'
<1>1. CASE Expire
    BY <1>1, EndEntryPreserves DEF Expire, Inv, TypeOK
<1>2. CASE \E e \in Enders : Ended(e)
    BY <1>2, EndEntryPreserves DEF Ended, Inv, TypeOK
<1> QED BY <1>1, <1>2

\* The acknowledgement has been recorded or refused.
LEMMA AckReturnsPreserves ==
    ASSUME Inv, AckReturns
    PROVE  Inv'
<1>1. acking \in Sockets
    BY DEF AckReturns, Inv, AckIsRecorded, TypeOK
<1>2. SocketsKept
  <2>1. down' \in Frame /\ sopen' \in Flags
    <3>1. CASE Reply(acking, <<"done">>, TRUE)
      <4>1. <<"done">> \in Seq(Frames)
          BY FramesSent DEF Frames
      <4> QED BY <1>1, <3>1, <4>1, ReplyFrames DEF Inv
    <3>2. CASE Refuse(acking)
        BY <1>1, <3>2, RefuseFrames DEF Inv
    <3> QED BY <3>1, <3>2 DEF AckReturns, RefuseAndDetach
  <2> QED BY <2>1 DEF AckReturns, SocketsKept, Inv, TypeOK, Frame, Flags
<1>3. TypeOK'
  <2>1. call' \in [Calls -> {"idle", "waiting"} \cup Settled]
      BY DEF AckReturns, CallsSettled, Settled, Inv, TypeOK
  <2>2. {esock', sentTo', acking'} \subseteq Sockets \cup {NoSocket}
      BY <1>1 DEF AckReturns, RemoveEntry, RefuseAndDetach, Detach, Inv, TypeOK
  <2>3. entry' \in BOOLEAN /\ delivery' \in BOOLEAN
      BY DEF AckReturns, RemoveEntry, Inv, TypeOK
  <2>4. record' \in {"none", "pending", "delivered"}
      BY DEF AckReturns, RemoveEntry, Inv, TypeOK
  <2> QED BY <1>2, <2>1, <2>2, <2>3, <2>4
             DEF AckReturns, Inv, TypeOK, SocketsKept, Frame, Flags
<1>4. AckIsStored'
    BY <1>2, AcksKept DEF AckReturns, Inv
<1>5. DeliveredIsStored' /\ AckIsRecorded' /\ NoOrphanCalls'
    BY DEF AckReturns, RemoveEntry, CallsSettled, Inv, DeliveredIsStored,
       AckIsRecorded, NoOrphanCalls
<1>6. PendingIsSent' /\ AttachIsAlone'
    BY DEF AckReturns, RemoveEntry, RefuseAndDetach, Detach, Inv, PendingIsSent,
       AttachIsAlone, TypeOK
<1> QED BY <1>3, <1>4, <1>5, <1>6 DEF Inv

-----------------------------------------------------------------------------
(* Client. *)

\* A step of the client leaves the server alone and never unstores the
\* credential.
LEMMA ClientMoves ==
    ASSUME Inv, SocketsKept, UNCHANGED <<server, record>>, stored => stored',
           csock' \in Sockets \cup {NoSocket}, storing' \subseteq Sockets,
           cpc' \in {"idle", "starting", "attached", "reconnecting", "completed",
                     "failed", "closed"},
           cwait' \in {"waiting"} \cup Settled,
           stored' \in BOOLEAN, attempts' \in 0..MaxReconnects
    PROVE  Inv'
<1>1. TypeOK'
    BY DEF Inv, TypeOK, SocketsKept, Frame, Flags
<1>2. AckIsStored'
    BY AcksKept DEF Inv
<1>3. /\ DeliveredIsStored' /\ NoOrphanCalls' /\ AckIsRecorded'
      /\ PendingIsSent' /\ AttachIsAlone'
    BY DEF Inv, DeliveredIsStored, NoOrphanCalls, AckIsRecorded, PendingIsSent,
       AttachIsAlone
<1> QED BY <1>1, <1>2, <1>3 DEF Inv

\* A socket is opened with the proof on its way.
LEMMA ConnectPreserves ==
    ASSUME Inv, NEW s \in Sockets, Connect(s)
    PROVE  Inv'
<1>1. <<"attach">> \in Seq(Frames) /\ ~HasAck(<<"attach">>) /\ <<>> \in Seq(Frames)
    BY FramesSent DEF Frames
<1>2. SocketsKept
    BY <1>1 DEF Connect, SocketsKept, Inv, TypeOK, Frame, Flags
<1>3. attempts' \in 0..MaxReconnects
    BY MaxReconnectsIsNat DEF Connect, Inv, TypeOK
<1> QED BY <1>2, <1>3, ClientMoves DEF Connect, Inv, TypeOK

\* The client reads that it is attached, or the credential.
LEMMA ReadsPreserve ==
    ASSUME Inv, NEW s \in Sockets, RecvAttached(s) \/ RecvCredential(s)
    PROVE  Inv'
<1>1. SocketsKept
    BY ReadFrames DEF RecvAttached, RecvCredential, SocketsKept, Inv, TypeOK, Frame, Flags
<1> QED BY <1>1, ClientMoves DEF RecvAttached, RecvCredential, Inv, TypeOK

\* The credential is durable before its acknowledgement is sent.
LEMMA StoreSucceedsPreserves ==
    ASSUME Inv, NEW s \in Sockets, StoreSucceeds(s)
    PROVE  Inv'
<1>1. <<"ack">> \in Seq(Frames)
    BY FramesSent DEF Frames
<1>2. Sent(up, copen, s, <<"ack">>) \in Frame
    BY <1>1, SentFrames DEF Inv, TypeOK, Frame
<1>3. SocketsKept /\ stored' = TRUE
    BY <1>2 DEF StoreSucceeds, SocketsKept, Inv, TypeOK, Frame, Flags
<1>4. UNCHANGED <<server, record>> /\ UNCHANGED <<csock, attempts>>
    BY DEF StoreSucceeds
<1>5. /\ storing' \subseteq Sockets /\ cwait' \in {"waiting"} \cup Settled
      /\ cpc' \in {"idle", "starting", "attached", "reconnecting", "completed",
                   "failed", "closed"}
    BY DEF StoreSucceeds, Inv, TypeOK, Settled
<1> QED BY <1>3, <1>4, <1>5, ClientMoves DEF Inv, TypeOK

\* The credential cannot be stored: the client's socket closes.
LEMMA StoreFailsPreserves ==
    ASSUME Inv, NEW s \in Sockets, StoreFails(s)
    PROVE  Inv'
<1> DEFINE frames == IF csock = s THEN <<"error", "fin">> ELSE <<"fin">>
<1>1. frames \in Seq(Frames) /\ ~HasAck(frames)
    BY FramesSent DEF Frames
<1>2. up' = Sent(up, copen, csock, frames)
    BY DEF StoreFails
<1> HIDE DEF frames
<1>3. up' \in Frame /\ \A t \in Sockets : HasAck(up'[t]) => HasAck(up[t])
    BY <1>1, <1>2, SentFrames DEF Inv, TypeOK, Frame
<1>4. SocketsKept
    BY <1>3 DEF StoreFails, SocketsKept, Inv, TypeOK, Frame, Flags
<1>5. /\ storing' \subseteq Sockets /\ cwait' \in {"waiting"} \cup Settled
      /\ cpc' \in {"idle", "starting", "attached", "reconnecting", "completed",
                   "failed", "closed"}
    BY DEF StoreFails, Rejected, Inv, TypeOK, Settled
<1> QED BY <1>4, <1>5, ClientMoves DEF StoreFails, Inv, TypeOK

\* The client closes its socket, or it is refused.
LEMMA ClosesPreserve ==
    ASSUME Inv, ClientClose \/ \E s \in Sockets : RecvRefusal(s)
    PROVE  Inv'
<1>1. ClientCloses(csock) /\ csock' = NoSocket /\ cwait' = Rejected
    BY DEF ClientClose, RecvRefusal, ClientFails
<1>2. down' \in Frame
    BY ReadFrames DEF ClientClose, RecvRefusal, Inv, TypeOK, Frame
<1>3. SocketsKept
    BY <1>1, <1>2, ClientClosesFrames
       DEF ClientClose, RecvRefusal, SocketsKept, Inv, TypeOK, Frame, Flags
<1>4. /\ cwait' \in {"waiting"} \cup Settled
      /\ cpc' \in {"idle", "starting", "attached", "reconnecting", "completed",
                   "failed", "closed"}
    BY <1>1 DEF ClientClose, RecvRefusal, ClientFails, Rejected, Inv, TypeOK, Settled
<1> QED BY <1>1, <1>3, <1>4, ClientMoves DEF ClientClose, RecvRefusal, Inv, TypeOK

\* The close event of the client's socket: an attached client reconnects.
LEMMA RecvClosedPreserves ==
    ASSUME Inv, NEW s \in Sockets, RecvClosed(s)
    PROVE  Inv'
<1>1. SocketsKept
    BY ReadFrames DEF RecvClosed, SocketsKept, Inv, TypeOK, Frame, Flags
<1>2. cpc \in {"starting", "attached", "reconnecting"}
    BY DEF RecvClosed, Read, Listens
<1>3. /\ cpc' \in {"starting", "attached", "reconnecting", "closed"}
      /\ cwait' \in {"waiting"} \cup Settled
      /\ attempts' \in 0..MaxReconnects
  <2>1. 0 \in 0..MaxReconnects /\ attempts \in 0..MaxReconnects
      BY MaxReconnectsIsNat DEF Inv, TypeOK
  <2>2. cwait \in {"waiting"} \cup Settled /\ Rejected \in {"waiting"} \cup Settled
      BY DEF Rejected, Inv, TypeOK, Settled
  <2>3. CASE cpc = "attached"
      BY <2>1, <2>2, <2>3 DEF RecvClosed
  <2>4. CASE cpc = "reconnecting"
      BY <2>1, <2>2, <2>4 DEF RecvClosed
  <2>5. CASE cpc = "starting"
      BY <2>1, <2>2, <2>5 DEF RecvClosed
  <2> QED BY <1>2, <2>3, <2>4, <2>5
<1> QED BY <1>1, <1>3, ClientMoves DEF RecvClosed, Inv, TypeOK

\* The reconnect loop has no attempt left, or the client cancels the pairing.
LEMMA StopsPreserve ==
    ASSUME Inv, GiveUp \/ ClientCancel
    PROVE  Inv'
<1>1. <<"cancel">> \in Seq(Frames) /\ ~HasAck(<<"cancel">>)
    BY FramesSent DEF Frames
<1>2. SocketsKept
  <2>1. CASE GiveUp
      BY <2>1 DEF GiveUp, SocketsKept, Inv, TypeOK, Frame, Flags
  <2>2. CASE ClientCancel
    <3>1. /\ up' \in Frame
          /\ \A t \in Sockets : HasAck(up'[t]) => HasAck(up[t])
        BY <1>1, <2>2, SentFrames DEF ClientCancel, Inv, TypeOK, Frame
    <3> QED BY <2>2, <3>1 DEF ClientCancel, SocketsKept, Inv, TypeOK, Frame, Flags
  <2> QED BY <2>1, <2>2
<1> QED BY <1>2, ClientMoves DEF GiveUp, ClientCancel, Rejected, Settled, Inv, TypeOK

\* A socket drops with the frames that are in flight.
LEMMA DropPreserves ==
    ASSUME Inv, NEW s \in Sockets, Drop(s)
    PROVE  Inv'
<1>1. <<"fin">> \in Seq(Frames) /\ ~HasAck(<<"fin">>) /\ <<>> \in Seq(Frames)
      /\ ~HasAck(<<>>)
    BY FramesSent DEF Frames
<1>2. SocketsKept
    BY <1>1 DEF Drop, SocketsKept, Inv, TypeOK, Frame, Flags
<1> QED BY <1>2, ClientMoves DEF Drop, Inv, TypeOK

-----------------------------------------------------------------------------
(* The theorems. *)

\* No socket, no call.
LEMMA InitEstablishes ==
    ASSUME Init
    PROVE  Inv
<1>1. TypeOK
  <2>1. <<>> \in Seq(Frames) /\ 0 \in 0..MaxReconnects
      BY FramesSent, MaxReconnectsIsNat
  <2>2. up \in [Sockets -> Seq(Frames)] /\ down \in [Sockets -> Seq(Frames)]
      BY <2>1 DEF Init
  <2> QED BY <2>1, <2>2 DEF Init, TypeOK
<1>2. AckIsStored
    BY FramesSent DEF Init, AckIsStored
<1> QED BY <1>1, <1>2 DEF Init, Inv, DeliveredIsStored, NoOrphanCalls, AckIsRecorded,
           PendingIsSent, AttachIsAlone

\* Every step preserves the invariant.
LEMMA NextPreserves ==
    ASSUME Inv, [Next]_vars
    PROVE  Inv'
<1>1. CASE UNCHANGED vars
    BY <1>1 DEF vars, Inv, TypeOK, DeliveredIsStored, NoOrphanCalls, AckIsRecorded,
       PendingIsSent, AttachIsAlone, AckIsStored, HasAck
<1>2. CASE ServerStep
    BY <1>2, RecvAttachPreserves, AttachPreserves, AttachTimeoutPreserves,
       RecvAckPreserves, RecvErrorPreserves, RecvFinPreserves, RecvCancelPreserves,
       DeliverPreserves, QuietPreserves, EndersPreserve, AckReturnsPreserves
       DEF ServerStep
<1>3. CASE ClientStep
    BY <1>3, ConnectPreserves, ReadsPreserve, StoreSucceedsPreserves,
       StoreFailsPreserves, ClosesPreserve, RecvClosedPreserves, StopsPreserve
       DEF ClientStep
<1> QED BY <1>1, <1>2, <1>3, DropPreserves DEF Next

\* In every reachable state of the two ends a recorded delivery is stored, a
\* delivery that waits has been sent to the attached socket, and no call waits
\* on an entry that is gone.
THEOREM Inductive == Spec => []Inv
<1>1. Init => Inv
    BY InitEstablishes
<1>2. Inv /\ [Next]_vars => Inv'
    BY NextPreserves
<1> QED BY <1>1, <1>2, PTL DEF Spec

\* A call returns success in one step only, after the acknowledgement has been
\* recorded.
LEMMA OnlyAckReturnsResolves ==
    ASSUME Inv, Next, NEW c \in Calls, call[c] = "waiting", call'[c] = "resolved"
    PROVE  AckReturns /\ ackResult = "ok"
<1>1. call' # call
    OBVIOUS
<1>2. ~EndEntry
    BY DEF EndEntry, CallsSettled
<1>3. \A d \in Calls : ~Deliver(d) /\ ~WaiterTimeout(d)
    BY DEF Deliver, WaiterTimeout, Inv, TypeOK
<1>4. \A s \in Sockets : ~RecvError(s)
    BY <1>1 DEF RecvError, CallsSettled
<1>5. AckReturns
    BY <1>1, <1>2, <1>3, <1>4
       DEF Next, ServerStep, ClientStep, RecvAttach, Attach, AttachTimeout, RecvAck,
           RecvFin, RecvCancel, IssueCompletion, RecordAck, Expire, Close, Ended,
           Connect, RecvAttached, RecvCredential, StoreSucceeds, StoreFails,
           RecvRefusal, RecvClosed, GiveUp, ClientClose, ClientCancel, Drop
<1> QED BY <1>5 DEF AckReturns, CallsSettled

\* devices_pair reports success only for a pairing whose delivery is recorded
\* and whose credential is stored.
THEOREM SuccessIsDelivered == Spec => PairedIsDelivered
<1>1. ASSUME Inv, Next, NEW c \in Calls, call[c] = "waiting", call'[c] = "resolved"
      PROVE  record = "delivered" /\ stored
  <2>1. ackResult = "ok"
      BY <1>1, OnlyAckReturnsResolves
  <2>2. entry
      BY <1>1 DEF Inv, NoOrphanCalls
  <2> QED BY <1>1, <2>1, <2>2 DEF Inv, AckIsRecorded, DeliveredIsStored
<1>2. Inv /\ [Next]_vars =>
         [\A c \in Calls : call[c] = "waiting" /\ call'[c] = "resolved"
                           => record = "delivered" /\ stored]_vars
    BY <1>1
<1> QED BY <1>2, Inductive, PTL DEF Spec, PairedIsDelivered

\* Another socket attaches only after the first was detached.
THEOREM SocketsAttachOneByOne == Spec => OneActiveSocket
<1>1. ASSUME Inv, Next, esock # NoSocket, esock' # esock
      PROVE  esock' = NoSocket
  <2>1. \A s \in Sockets : ~Attach(s)
      BY <1>1 DEF Attach, Inv, AttachIsAlone
  <2> QED BY <1>1, <2>1
          DEF Next, ServerStep, ClientStep, RecvAttach, AttachTimeout, RecvAck,
              RecvError, RecvFin, RecvCancel, Deliver, WaiterTimeout, IssueCompletion,
              RecordAck, AckReturns, Expire, Close, Ended, EndEntry, RemoveEntry,
              RefuseAndDetach, Detach, Connect, RecvAttached, RecvCredential,
              StoreSucceeds, StoreFails, RecvRefusal, RecvClosed, GiveUp, ClientClose,
              ClientCancel, Drop
<1>2. Inv /\ [Next]_vars =>
         [esock # NoSocket /\ esock' # esock => esock' = NoSocket]_vars
    BY <1>1
<1> QED BY <1>2, Inductive, PTL DEF Spec, OneActiveSocket
=============================================================================
