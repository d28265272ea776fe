--------------------------- MODULE QuicConnProofs ---------------------------
(***************************************************************************)
(* Proofs about a connection of hala-quic, for any number of streams, of   *)
(* operations on them and of packets: nobody waits for what has happened,  *)
(* a stream closed by this side is drained, and a stream of the peer is    *)
(* accepted once.                                                          *)
(***************************************************************************)
EXTENDS QuicConn, TLAPS

(* An operation that waits has its waker in the EventMap. *)
WakerKept == \A o \in Ops : Waiting(o) => o \in waker

(* It waits for a stream that is not half closed, whose fin was not sent, and
   which quiche has in its queue as soon as there is something to do. *)
StreamKept ==
    \A s \in Streams :
        /\ Waiting(Recv(s)) => s \notin half /\ (s \in unread => s \in rq)
        /\ Waiting(Send(s)) => s \notin half /\ s \notin finSent /\ (s \in room => s \in wq)

(* accept waits for an empty queue. *)
AcceptKept == Waiting(Acceptor) => incoming = <<>>

(* The send loop stops, or is told to, when everybody has been cancelled. *)
LoopKept ==
    pc[Reader] = "done" \/ notice[Reader] = "cancel" =>
        conn = "draining" /\ \A o \in Ops : ~ Waiting(o)

(* A stream whose fin was sent is known to quiche until the peer's fin arrived. *)
Drained ==
    \A s \in finSent : (s \in half \/ s \in fin) /\ (s \in known \/ s \in fin)

(* The parity of an id tells who has opened the stream. *)
Parity == nextId % 2 = FirstStream % 2

(* The names of the operations and events tell them apart. *)
LEMMA OpNames ==
    /\ Reader \in Ops /\ Acceptor \in Ops /\ Reader # Acceptor
    /\ \A s \in Streams : Recv(s) \in Ops /\ Send(s) \in Ops
    /\ \A s, t : /\ Recv(s) # Send(t)
                 /\ Recv(s) = Recv(t) => s = t
                 /\ Send(s) = Send(t) => s = t
    /\ \A s : /\ Recv(s) # Reader /\ Recv(s) # Acceptor /\ Recv(s) # NoEvent
              /\ Send(s) # Reader /\ Send(s) # Acceptor /\ Send(s) # NoEvent
              /\ Recv(s)[1] = "recv" /\ Recv(s)[2] = s
              /\ Send(s)[1] = "send" /\ Send(s)[2] = s
    /\ NoEvent[1] = "none" /\ NoEvent # Reader /\ NoEvent # Acceptor
    /\ Reader[1] = "read" /\ Acceptor[1] = "accept"
    /\ \A o \in Ops : o \in {Reader, Acceptor} \/ \E s \in Streams : o = Recv(s)
         \/ o = Send(s)
  BY DEF Reader, Acceptor, Recv, Send, NoEvent, Ops

(* The actions Next is made of, each with the operation or stream it is about. *)
LEMMA NextCases ==
    Next =>
        \/ \E gone \in SUBSET dropping : Read(gone) \/ ReadDone(gone)
        \/ ReadTimeout \/ ReadOnTimeout \/ Accept \/ AcceptWait
        \/ \E o \in Ops : Resume(o) \/ ResumeAnew(o) \/ FoundClosed(o) \/ Call(o)
        \/ \E s \in Streams : \E o \in {Recv(s), Send(s)} : FoundHalfClosed(o)
        \/ \E data \in SUBSET Streams : \E last \in SUBSET data :
               \E more \in SUBSET (known \ room) : \E acked \in SUBSET known :
                   Write(data, last, more, acked)
        \/ WriteClose \/ OpenStream \/ Close
        \/ \E s \in Streams :
               \/ StreamRecv(s) \/ StreamRecvDone(s) \/ StreamRecvUnknown(s)
               \/ StreamSend(s) \/ StreamSendDone(s) \/ StreamSendErr(s)
               \/ CloseStream(s) \/ StreamShutdown(s) \/ NotifyShutdown(s)
<1>1. \A s \in Streams : \A o \in StreamEvents(s) : o \in Ops
  BY Zenon, OpNames DEF StreamEvents
<1>2. WriteAck => \E data \in SUBSET Streams : \E last \in SUBSET data :
          \E more \in SUBSET (known \ room) : \E acked \in SUBSET known :
              Write(data, last, more, acked)
  BY Zenon DEF WriteAck
<1>3. ASSUME NEW data \in SUBSET Streams, NEW more \in SUBSET (known \ room),
             NEW last \in SUBSET data, Write(data, last, more, {})
      PROVE  \E acked \in SUBSET known : Write(data, last, more, acked)
  BY Zenon, <1>3
<1> QED
  BY Zenon, <1>1, <1>2, <1>3, OpNames DEF Next, ReadLoop, AcceptOp, RecvOp, SendOp

(* quiche hands on one event: of a readable stream, of a writable one, or none. *)
LEMMA EventIs ==
    ASSUME NEW r, NEW w, NEW e \in Popped(r, w)
    PROVE  e = NoEvent \/ (\E s \in r : e = Recv(s)) \/ (\E s \in w : e = Send(s))
  BY Zenon DEF Popped

(* The streams opened here and those the peer opens are told apart by their parity. *)
LEMMA ParityIs ==
    ASSUME Parity
    PROVE  /\ \A s \in MyStreams : s % 2 = nextId % 2
           /\ \A s \in PeerStreams : s % 2 # nextId % 2
  BY Zenon, StreamAssumption DEF Parity

(* handle_stream_events: the stream that leaves a queue of quiche is the one whose
   event is announced, and a stream of the peer that leaves it is registered. *)
LEMMA Handled ==
    ASSUME Parity, NEW r \in SUBSET Streams, NEW w \in SUBSET Streams,
           NEW e \in Popped(r, w), HandleStreamEvents(e, r, w)
    PROVE  /\ rq' \subseteq r /\ wq' \subseteq w
           /\ \A s \in r : \/ s \in rq'
                           \/ Recv(s) \in Announced(e)
                                /\ (s \in PeerStreams => s \in regin')
           /\ \A s \in w : s \in wq' \/ Send(s) \in Announced(e)
           /\ Reader \notin Announced(e)
           /\ \/ incoming' = incoming /\ regin' = regin
              \/ /\ Acceptor \in Announced(e)
                 /\ \E s \in PeerStreams \ regin :
                       regin' = regin \cup {s} /\ incoming' = Append(incoming, s)
<1> USE DEF HandleStreamEvents
<1>1. rq' \subseteq r /\ wq' \subseteq w
  BY Zenon
<1>2. ASSUME NEW t \in r, t \notin rq'
      PROVE  Recv(t) \in Announced(e) /\ (t \in PeerStreams => t \in regin')
  <2>1. e = Recv(t)
    BY Zenon, <1>2, OpNames
  <2>2. e[1] = "recv" /\ e[2] = t
    BY Zenon, <2>1, OpNames
  <2> QED
    BY Zenon, <2>1, <2>2, ParityIs DEF Announced, IsIncoming
<1>3. ASSUME NEW t \in w, t \notin wq' PROVE Send(t) \in Announced(e)
  BY Zenon, <1>3, OpNames DEF Announced
<1>4. Reader \notin Announced(e)
  BY EventIs, OpNames DEF Announced
<1>5. CASE ~ IsIncoming(e)
  BY Zenon, <1>1, <1>2, <1>3, <1>4, <1>5
<1>6. CASE IsIncoming(e)
  <2>1. PICK t \in r : e = Recv(t)
    BY <1>6, EventIs, OpNames DEF IsIncoming
  <2>2. e[2] = t /\ t \in Streams /\ t % 2 # nextId % 2 /\ t \notin regin
    BY ZenonT(60), <1>6, <2>1, OpNames DEF IsIncoming
  <2>3. t \in PeerStreams
    BY Zenon, <2>2, ParityIs DEF Streams
  <2> QED
    BY Zenon, <1>1, <1>2, <1>3, <1>4, <1>6, <2>2, <2>3 DEF Announced
<1> QED
  BY Zenon, <1>5, <1>6

(* Who waits after a step: those in `starts`, and those that waited before and
   were not told of anything; their wakers are in place. *)
Moves(told, starts) ==
    \A o \in Ops : Waiting(o)' =>
        o \in waker' /\ (o \in starts \/ (Waiting(o) /\ o \notin told))

(* A step that tells nobody anything starts no wait, *)
LEMMA MovesQuiet ==
    ASSUME WakerKept, waker' = waker, \A o \in Ops : Waiting(o)' => Waiting(o)
    PROVE  Moves({}, {})
  BY Zenon DEF Moves, WakerKept

(* Notify tells the operations it is given, and stores the waker of those that wait, *)
LEMMA MovesNotify ==
    ASSUME WakerKept, NEW on, NEW cancel, NEW waiters, Notify(on, cancel, waiters),
           \A o \in Ops : pc'[o] = "wait" => pc[o] = "wait" \/ o \in waiters
    PROVE  /\ Moves(on \cup cancel, waiters)
           /\ notice'[Reader] = "cancel" => notice[Reader] = "cancel" \/ Reader \in cancel
<1>1. ASSUME NEW o \in Ops, Waiting(o)'
      PROVE  o \in waker' /\ (o \in waiters \/ (Waiting(o) /\ o \notin on \cup cancel))
  <2>1. CASE o \in waiters
    BY Zenon, <2>1 DEF Notify
  <2>2. CASE o \notin waiters
    <3>1. pc[o] = "wait" /\ notice'[o] = "none"
      BY Zenon, <1>1, <2>2 DEF Waiting
    <3>2. Waiting(o) /\ o \in waker
      BY Zenon, <3>1 DEF Notify, Waiting, WakerKept
    <3> QED
      BY Zenon, <3>1, <3>2 DEF Notify, Waiting
  <2> QED
    BY Zenon, <2>1, <2>2
<1>2. Reader \in Ops
  BY Zenon, OpNames
<1> QED
  BY Zenon, <1>1, <1>2 DEF Moves, Notify

(* ... with nothing cancelled, *)
LEMMA MovesOn ==
    ASSUME WakerKept, NEW on, NEW waiters, Notify(on, {}, waiters),
           \A o \in Ops : pc'[o] = "wait" => pc[o] = "wait" \/ o \in waiters
    PROVE  /\ Moves(on, waiters)
           /\ notice'[Reader] = "cancel" => notice[Reader] = "cancel"
<1>1. /\ Moves(on \cup {}, waiters)
      /\ notice'[Reader] = "cancel" => notice[Reader] = "cancel" \/ Reader \in {}
  BY MovesNotify
<1> QED
  BY Zenon, <1>1 DEF Moves

(* ... or with nobody starting to wait. *)
LEMMA MovesCancel ==
    ASSUME WakerKept, NEW cancel, NEW waiters, Notify({}, cancel, waiters),
           \A o \in Ops : pc'[o] = "wait" => pc[o] = "wait" \/ o \in waiters
    PROVE  /\ Moves(cancel, waiters)
           /\ notice'[Reader] = "cancel" => notice[Reader] = "cancel" \/ Reader \in cancel
<1>1. /\ Moves({} \cup cancel, waiters)
      /\ notice'[Reader] = "cancel" => notice[Reader] = "cancel" \/ Reader \in cancel
  BY Zenon, MovesNotify
<1> QED
  BY Zenon, <1>1 DEF Moves

(* After handle_stream_events, the streams that are waited for are still queued. *)
LEMMA HandledWaits ==
    ASSUME Parity, NEW r \in SUBSET Streams, NEW w \in SUBSET Streams,
           NEW e \in Popped(r, w), HandleStreamEvents(e, r, w)
    PROVE  /\ \A t \in r : t \in rq' \/ Recv(t) \in Announced(e)
           /\ \A t \in w : t \in wq' \/ Send(t) \in Announced(e)
           /\ incoming' = incoming \/ Acceptor \in Announced(e)
  BY ZenonT(60), Handled

(* Notify keeps the types, *)
LEMMA NotifyType ==
    ASSUME TypeOK, NEW on, NEW cancel, NEW waiters \in SUBSET Ops, Notify(on, cancel, waiters)
    PROVE  waker' \in SUBSET Ops /\ notice' \in [Ops -> {"none", "on", "cancel"}]
  BY Zenon DEF TypeOK, Notify

(* and so does handle_stream_events. *)
LEMMA HandledType ==
    ASSUME TypeOK, Parity, NEW r \in SUBSET Streams, NEW w \in SUBSET Streams,
           NEW e \in Popped(r, w), HandleStreamEvents(e, r, w)
    PROVE  /\ rq' \in SUBSET Streams /\ wq' \subseteq w
           /\ regin' \in SUBSET PeerStreams /\ incoming' \in Seq(PeerStreams)
<1>1. /\ rq' \subseteq r /\ wq' \subseteq w
      /\ \/ incoming' = incoming /\ regin' = regin
         \/ \E s \in PeerStreams \ regin :
                regin' = regin \cup {s} /\ incoming' = Append(incoming, s)
  BY Zenon, Handled
<1>2. incoming \in Seq(PeerStreams) /\ regin \in SUBSET PeerStreams
  BY Zenon DEF TypeOK
<1> QED
  BY <1>1, <1>2

(* handle_dropping_streams: quiche knows more streams, not fewer. *)
LEMMA DroppingType ==
    ASSUME TypeOK, NEW gone \in SUBSET dropping, NEW W, HandleDropping(gone, W)
    PROVE  /\ known' \in SUBSET Streams /\ known \subseteq known'
           /\ finSent' \in SUBSET Streams /\ half' \in SUBSET Streams
           /\ dropping' \in SUBSET Streams
<1>1. PICK made \in SUBSET NeverSent(gone) : known' = known \cup made
  BY Zenon DEF HandleDropping
<1>2. known' \in SUBSET Streams /\ known \subseteq known'
  BY Zenon, <1>1 DEF TypeOK, NeverSent, Streams
<1> QED
  BY Zenon, <1>2 DEF TypeOK, HandleDropping

(* Initially nobody waits. *)
LEMMA InitIs == Init => TypeOK /\ Parity
<1> SUFFICES ASSUME Init PROVE TypeOK /\ Parity
  BY Zenon
<1>1. PICK early \in {<<>>} \cup {<<s>> : s \in PeerStreams} :
          incoming = early /\ known = {early[i] : i \in DOMAIN early}
  BY Zenon DEF Init
<1>2. early \in Seq(PeerStreams) /\ {early[i] : i \in DOMAIN early} \in SUBSET PeerStreams
  <2>1. CASE early = <<>>
    BY <2>1
  <2>2. ASSUME NEW t \in PeerStreams, early = <<t>>
        PROVE  early \in Seq(PeerStreams)
        /\ {early[i] : i \in DOMAIN early} \in SUBSET PeerStreams
    BY <2>2
  <2> QED
    BY Zenon, <1>1, <2>1, <2>2
<1>3. known \in SUBSET PeerStreams /\ incoming \in Seq(PeerStreams)
      /\ accepted \in Seq(PeerStreams)
  BY <1>1, <1>2 DEF Init
<1> QED
  BY <1>3, StreamAssumption DEF Init, TypeOK, Parity, Streams

(* Every step keeps the types, and the parity of the streams opened here. *)
LEMMA NextType == TypeOK /\ Parity /\ [Next]_vars => (TypeOK /\ Parity)'
<1> SUFFICES ASSUME TypeOK, Parity, [Next]_vars PROVE (TypeOK /\ Parity)'
  BY Zenon
<1> USE DEF TypeOK, Parity, Goto, Enter, quiche, state, stop
<1>1. CASE UNCHANGED vars
  BY Zenon, <1>1 DEF vars, quiche, state, stop
<1>2. ASSUME NEW gone \in SUBSET dropping, Read(gone) PROVE (TypeOK /\ Parity)'
  <2>1. waker' \in SUBSET Ops /\ notice' \in [Ops -> {"none", "on", "cancel"}]
    BY <1>2, NotifyType, OpNames DEF Read, HandleDropping
  <2>2. /\ known' \in SUBSET Streams /\ known \subseteq known'
        /\ finSent' \in SUBSET Streams /\ half' \in SUBSET Streams
        /\ dropping' \in SUBSET Streams
    BY Zenon, <1>2, DroppingType DEF Read
  <2> QED
    BY Zenon, <1>2, <2>1, <2>2, OpNames DEF Read
<1>3. ASSUME NEW gone \in SUBSET dropping, ReadDone(gone) PROVE (TypeOK /\ Parity)'
  <2>1. waker' \in SUBSET Ops /\ notice' \in [Ops -> {"none", "on", "cancel"}]
    BY <1>3, NotifyType, OpNames DEF ReadDone, HandleDropping
  <2>2. /\ known' \in SUBSET Streams /\ known \subseteq known'
        /\ finSent' \in SUBSET Streams /\ half' \in SUBSET Streams
        /\ dropping' \in SUBSET Streams
    BY Zenon, <1>3, DroppingType DEF ReadDone
  <2> QED
    BY ZenonT(60), <1>3, <2>1, <2>2, OpNames DEF ReadDone
<1>4. CASE ReadTimeout
  BY Zenon, <1>4 DEF ReadTimeout
<1>5. CASE ReadOnTimeout
  BY Zenon, <1>5 DEF ReadOnTimeout
<1>6. ASSUME NEW o \in Ops, Resume(o) PROVE (TypeOK /\ Parity)'
  BY Zenon, <1>6 DEF Resume
<1>7. ASSUME NEW o \in Ops, ResumeAnew(o) PROVE (TypeOK /\ Parity)'
  BY Zenon, <1>7 DEF ResumeAnew
<1>8. ASSUME NEW o \in Ops, FoundClosed(o) PROVE (TypeOK /\ Parity)'
  BY Zenon, <1>8, NotifyType, OpNames DEF FoundClosed
<1>9. ASSUME NEW s \in Streams, NEW o \in {Recv(s), Send(s)}, FoundHalfClosed(o)
      PROVE  (TypeOK /\ Parity)'
  BY Zenon, <1>9 DEF FoundHalfClosed
<1>10. ASSUME NEW o \in Ops, Call(o) PROVE (TypeOK /\ Parity)'
  BY Zenon, <1>10 DEF Call
<1>11. ASSUME NEW data \in SUBSET Streams, NEW last \in SUBSET data,
              NEW more \in SUBSET (known \ room), NEW acked \in SUBSET known,
              Write(data, last, more, acked)
       PROVE  (TypeOK /\ Parity)'
  <2>1. PICK e \in Popped((Readable \cup (data \ (unread \cup shut))), ((wq \cup more) \ acked)) :
            HandleStreamEvents(e, Readable \cup (data \ (unread \cup shut)), (wq \cup more) \ acked)
            /\ Notify(Announced(e), {}, {})
    BY Zenon, <1>11 DEF Write
  <2>2. (Readable \cup (data \ (unread \cup shut))) \in SUBSET Streams
        /\ ((wq \cup more) \ acked) \in SUBSET Streams /\ {} \in SUBSET Ops
    BY Zenon, <1>11, OpNames DEF Write, Readable
  <2>3. /\ rq' \in SUBSET Streams /\ wq' \subseteq ((wq \cup more) \ acked)
        /\ regin' \in SUBSET PeerStreams /\ incoming' \in Seq(PeerStreams)
    BY Zenon, <2>1, <2>2, HandledType DEF TypeOK, Parity
  <2>4. waker' \in SUBSET Ops /\ notice' \in [Ops -> {"none", "on", "cancel"}]
    BY Zenon, <2>1, <2>2, NotifyType
  <2> QED
    BY <1>11, <2>3, <2>4 DEF Write, Packet, HandleHalfClosed
<1>12. CASE WriteClose
  <2>1. PICK e \in Popped(Readable, wq) :
            HandleStreamEvents(e, Readable, wq) /\ Notify(Announced(e), {}, {})
    BY Zenon, <1>12 DEF WriteClose
  <2>2. Readable \in SUBSET Streams /\ wq \in SUBSET Streams /\ {} \in SUBSET Ops
    BY Zenon, <1>12, OpNames DEF WriteClose, Readable
  <2>3. /\ rq' \in SUBSET Streams /\ wq' \subseteq wq
        /\ regin' \in SUBSET PeerStreams /\ incoming' \in Seq(PeerStreams)
    BY Zenon, <2>1, <2>2, HandledType DEF TypeOK, Parity
  <2>4. waker' \in SUBSET Ops /\ notice' \in [Ops -> {"none", "on", "cancel"}]
    BY Zenon, <2>1, <2>2, NotifyType
  <2> QED
    BY Zenon, <1>12, <2>3, <2>4 DEF WriteClose
<1>13. ASSUME NEW s \in Streams, StreamRecv(s) PROVE (TypeOK /\ Parity)'
  <2>1. PICK e \in Popped((Readable \ {s}), wq) :
            HandleStreamEvents(e, (Readable \ {s}), wq)
            /\ Notify(Announced(e) \cup {Reader}, {}, {})
    BY Zenon, <1>13 DEF StreamRecv
  <2>2. (Readable \ {s}) \in SUBSET Streams /\ wq \in SUBSET Streams /\ {} \in SUBSET Ops
    BY Zenon, <1>13, OpNames DEF StreamRecv, Readable
  <2>3. /\ rq' \in SUBSET Streams /\ wq' \subseteq wq
        /\ regin' \in SUBSET PeerStreams /\ incoming' \in Seq(PeerStreams)
    BY Zenon, <2>1, <2>2, HandledType DEF TypeOK, Parity
  <2>4. waker' \in SUBSET Ops /\ notice' \in [Ops -> {"none", "on", "cancel"}]
    BY Zenon, <2>1, <2>2, NotifyType
  <2> QED
    BY Zenon, <1>13, <2>3, <2>4 DEF StreamRecv
<1>14. ASSUME NEW s \in Streams, StreamRecvDone(s) PROVE (TypeOK /\ Parity)'
  <2>1. PICK e \in Popped(Readable, wq) :
            HandleStreamEvents(e, Readable, wq)
            /\ Notify(Announced(e) \cup {Reader}, {}, {Recv(s)})
    BY Zenon, <1>14 DEF StreamRecvDone
  <2>2. Readable \in SUBSET Streams /\ wq \in SUBSET Streams /\ {Recv(s)} \in SUBSET Ops
    BY <1>14, OpNames DEF StreamRecvDone, Readable
  <2>3. /\ rq' \in SUBSET Streams /\ wq' \subseteq wq
        /\ regin' \in SUBSET PeerStreams /\ incoming' \in Seq(PeerStreams)
    BY Zenon, <2>1, <2>2, HandledType DEF TypeOK, Parity
  <2>4. waker' \in SUBSET Ops /\ notice' \in [Ops -> {"none", "on", "cancel"}]
    BY Zenon, <2>1, <2>2, NotifyType
  <2> QED
    BY Zenon, <1>14, <2>3, <2>4 DEF StreamRecvDone
<1>15. ASSUME NEW s \in Streams, StreamRecvUnknown(s) PROVE (TypeOK /\ Parity)'
  <2>1. waker' \in SUBSET Ops /\ notice' \in [Ops -> {"none", "on", "cancel"}]
    <3>1. {Recv(s)} \in SUBSET Ops
      BY OpNames
    <3> QED
      BY Zenon, <1>15, <3>1, NotifyType DEF StreamRecvUnknown
  <2> QED
    BY Zenon, <1>15, <2>1 DEF StreamRecvUnknown
<1>16. ASSUME NEW s \in Streams, StreamSend(s) PROVE (TypeOK /\ Parity)'
  <2>1. PICK e \in Popped(Readable, (IF s \in room' THEN wq ELSE wq \ {s})) :
            HandleStreamEvents(e, Readable, (IF s \in room' THEN wq ELSE wq \ {s}))
            /\ Notify(Announced(e) \cup {Reader}, {}, {})
    BY Zenon, <1>16 DEF StreamSend
  <2>2. Readable \in SUBSET Streams
        /\ (IF s \in room' THEN wq ELSE wq \ {s}) \in SUBSET Streams /\ {} \in SUBSET Ops
    BY Zenon, <1>16, OpNames DEF StreamSend, Readable
  <2>3. /\ rq' \in SUBSET Streams /\ wq' \subseteq (IF s \in room' THEN wq ELSE wq \ {s})
        /\ regin' \in SUBSET PeerStreams /\ incoming' \in Seq(PeerStreams)
    BY Zenon, <2>1, <2>2, HandledType DEF TypeOK, Parity
  <2>4. waker' \in SUBSET Ops /\ notice' \in [Ops -> {"none", "on", "cancel"}]
    BY Zenon, <2>1, <2>2, NotifyType
  <2> QED
    BY Zenon, <1>16, <2>3, <2>4 DEF StreamSend
<1>17. ASSUME NEW s \in Streams, StreamSendDone(s) PROVE (TypeOK /\ Parity)'
  <2>1. PICK e \in Popped(Readable, wq) :
            HandleStreamEvents(e, Readable, wq)
            /\ Notify(Announced(e) \cup {Reader}, {}, {Send(s)})
    BY ZenonT(60), <1>17 DEF StreamSendDone
  <2>2. Readable \in SUBSET Streams /\ wq \in SUBSET Streams /\ {Send(s)} \in SUBSET Ops
    BY SMTT(30), <1>17, OpNames DEF StreamSendDone, Readable
  <2>3. /\ rq' \in SUBSET Streams /\ wq' \subseteq wq
        /\ regin' \in SUBSET PeerStreams /\ incoming' \in Seq(PeerStreams)
    BY Zenon, <2>1, <2>2, HandledType DEF TypeOK, Parity
  <2>4. waker' \in SUBSET Ops /\ notice' \in [Ops -> {"none", "on", "cancel"}]
    BY Zenon, <2>1, <2>2, NotifyType
  <2> QED
    BY Zenon, <1>17, <2>3, <2>4 DEF StreamSendDone
<1>18. ASSUME NEW s \in Streams, StreamSendErr(s) PROVE (TypeOK /\ Parity)'
  BY Zenon, <1>18 DEF StreamSendErr
<1>19. CASE Accept
  <2>1. Append(accepted, Head(incoming)) \in Seq(PeerStreams)
        /\ Tail(incoming) \in Seq(PeerStreams)
    BY <1>19 DEF Accept
  <2> QED
    BY Zenon, <1>19, <2>1 DEF Accept
<1>20. CASE AcceptWait
  BY <1>20, NotifyType, OpNames DEF AcceptWait
<1>21. CASE OpenStream
  BY <1>21, StreamAssumption DEF OpenStream
<1>22. ASSUME NEW s \in Streams, CloseStream(s) PROVE (TypeOK /\ Parity)'
  <2>1. waker' \in SUBSET Ops /\ notice' \in [Ops -> {"none", "on", "cancel"}]
    BY <1>22, NotifyType DEF CloseStream
  <2> QED
    BY Zenon, <1>22, <2>1 DEF CloseStream
<1>23. ASSUME NEW s \in Streams, StreamShutdown(s) PROVE (TypeOK /\ Parity)'
  <2>1. CASE s \in known \ shut
    <3>1. tosend' \in BOOLEAN
      BY Zenon, <1>23, <2>1 DEF StreamShutdown
    <3> QED
      BY <1>23, <2>1, <3>1 DEF StreamShutdown
  <2>2. CASE s \notin known \ shut
    BY ZenonT(60), <1>23, <2>2 DEF StreamShutdown
  <2> QED
    BY Zenon, <2>1, <2>2
<1>24. ASSUME NEW s \in Streams, NotifyShutdown(s) PROVE (TypeOK /\ Parity)'
  BY <1>24, NotifyType, OpNames DEF NotifyShutdown
<1>25. CASE Close
  BY Zenon, <1>25 DEF Close
<1> HIDE DEF TypeOK, Parity, Goto, Enter, quiche, state, stop
<1> QED
  BY Zenon, <1>1, <1>2, <1>3, <1>4, <1>5, <1>6, <1>7, <1>8, <1>9, <1>10, <1>11, <1>12,
     <1>13, <1>14, <1>15, <1>16, <1>17, <1>18, <1>19, <1>20, <1>21, <1>22, <1>23, <1>24,
     <1>25, NextCases

(* Together: nobody waits for what is there already. *)
Kept == WakerKept /\ StreamKept /\ AcceptKept /\ LoopKept

(* What a step has to do for those that wait, given whom it tells and who starts
   to wait. *)
Harmless(told, starts) ==
    /\ \A s \in Streams :
           /\ \/ Recv(s) \in starts
              \/ Recv(s) \notin told /\ s \notin half /\ (s \in unread => s \in rq)
              => s \notin half' /\ (s \in unread' => s \in rq')
           /\ \/ Send(s) \in starts
              \/ Send(s) \notin told /\ s \notin half /\ s \notin finSent
                   /\ (s \in room => s \in wq)
              => s \notin half' /\ s \notin finSent' /\ (s \in room' => s \in wq')
    /\ Acceptor \in starts \/ (Acceptor \notin told /\ incoming = <<>>) => incoming' = <<>>
    /\ conn = "draining" => conn' = "draining" /\ starts = {}
    /\ pc'[Reader] = "done" \/ notice'[Reader] = "cancel" =>
           \/ pc[Reader] = "done" \/ notice[Reader] = "cancel"
           \/ conn' = "draining" /\ starts = {} /\ Ops \subseteq told

(* Such a step keeps the waits as they have to be. *)
LEMMA HarmlessKeeps ==
    ASSUME Kept, NEW told, NEW starts, Moves(told, starts), Harmless(told, starts)
    PROVE  Kept'
<1>1. WakerKept'
  BY Zenon DEF Moves, WakerKept
<1>2. StreamKept'
  BY Zenon, OpNames DEF Moves, Harmless, StreamKept, Kept
<1>3. AcceptKept'
  BY Zenon, OpNames DEF Moves, Harmless, AcceptKept, Kept
<1>4. LoopKept'
  BY Zenon DEF Moves, Harmless, LoopKept, Kept
<1> QED
  BY Zenon, <1>1, <1>2, <1>3, <1>4 DEF Kept

(* Every step of the connection is such a step. *)
LEMMA NextKept == TypeOK /\ Parity /\ Kept /\ [Next]_vars => Kept'
<1> SUFFICES ASSUME TypeOK, Parity, Kept, [Next]_vars PROVE Kept'
  BY Zenon
<1>a. WakerKept
  BY Zenon DEF Kept
<1> USE DEF TypeOK, Goto, Enter, quiche, state, stop
<1>1. CASE UNCHANGED vars
  BY Zenon, <1>1, MovesQuiet, HarmlessKeeps
     DEF vars, quiche, state, stop, Kept, Waiting, WakerKept, StreamKept, AcceptKept,
         LoopKept
<1>2. ASSUME NEW gone \in SUBSET dropping, Read(gone) PROVE Kept'
  <2>1. Notify({}, (UNION {StreamEvents(t) : t \in gone}), {})
        /\ \A o1 \in Ops : pc'[o1] = "wait" => pc[o1] = "wait" \/ o1 \in {}
    BY Zenon, <1>2 DEF Read, HandleDropping
  <2>2. /\ Moves((UNION {StreamEvents(t) : t \in gone}), {})
        /\ notice'[Reader] = "cancel" => notice[Reader] = "cancel"
             \/ Reader \in (UNION {StreamEvents(t) : t \in gone})
    BY <1>a, <2>1, MovesCancel
  <2>3. Harmless((UNION {StreamEvents(t) : t \in gone}), {})
    BY <1>2, <2>2, OpNames DEF Read, HandleDropping, Harmless, StreamEvents
  <2> QED
    BY Zenon, <2>2, <2>3, HarmlessKeeps
<1>3. ASSUME NEW gone \in SUBSET dropping, ReadDone(gone) PROVE Kept'
  <2>a. \/ Enter(Reader, "wait") /\ HandleDropping(gone, {Reader})
        \/ Enter(Reader, "call") /\ HandleDropping(gone, {})
    BY Zenon, <1>3 DEF ReadDone
  <2>b. PICK wt \in {{Reader}, {}} :
            HandleDropping(gone, wt) /\ Enter(Reader, IF wt = {} THEN "call" ELSE "wait")
    BY Zenon, <2>a
  <2>1. Notify({}, (UNION {StreamEvents(t) : t \in gone}), wt)
        /\ \A o1 \in Ops : pc'[o1] = "wait" => pc[o1] = "wait" \/ o1 \in wt
    BY ZenonT(60), <2>b DEF HandleDropping
  <2>2. /\ Moves((UNION {StreamEvents(t) : t \in gone}), wt)
        /\ notice'[Reader] = "cancel" => notice[Reader] = "cancel"
             \/ Reader \in (UNION {StreamEvents(t) : t \in gone})
    BY <1>a, <2>1, MovesCancel
  <2>3. Harmless((UNION {StreamEvents(t) : t \in gone}), wt)
    BY <1>3, <2>b, <2>2, OpNames DEF ReadDone, HandleDropping, Harmless, StreamEvents
  <2> QED
    BY Zenon, <2>2, <2>3, HarmlessKeeps
<1>4. CASE ReadTimeout
  <2>1. Moves({}, {})
    BY Zenon, <1>4, MovesQuiet DEF ReadTimeout, Kept, Waiting
  <2>2. Harmless({}, {})
    BY Zenon, <1>4, OpNames DEF ReadTimeout, Harmless
  <2> QED
    BY Zenon, <2>1, <2>2, HarmlessKeeps
<1>5. CASE ReadOnTimeout
  <2>1. Moves({}, {})
    BY Zenon, <1>5, MovesQuiet DEF ReadOnTimeout, Kept, Waiting
  <2>2. Harmless({}, {})
    BY Zenon, <1>5, OpNames DEF ReadOnTimeout, Harmless
  <2> QED
    BY Zenon, <2>1, <2>2, HarmlessKeeps
<1>6. ASSUME NEW o \in Ops, Resume(o) PROVE Kept'
  <2>1. Moves({}, {})
    BY Zenon, <1>6, MovesQuiet DEF Resume, Kept, Waiting
  <2>2. Harmless({}, {})
    BY Zenon, <1>6, OpNames DEF Resume, Harmless
  <2> QED
    BY Zenon, <2>1, <2>2, HarmlessKeeps
<1>7. ASSUME NEW o \in Ops, ResumeAnew(o) PROVE Kept'
  <2>1. Moves({}, {})
    BY ZenonT(60), <1>7, MovesQuiet DEF ResumeAnew, Kept, Waiting
  <2>2. Harmless({}, {})
    BY <1>7, OpNames DEF ResumeAnew, Harmless
  <2> QED
    BY Zenon, <2>1, <2>2, HarmlessKeeps
<1>8. ASSUME NEW o \in Ops, FoundClosed(o) PROVE Kept'
  <2>1. Notify({}, Ops, {}) /\ \A o1 \in Ops : pc'[o1] = "wait" => pc[o1] = "wait"
        \/ o1 \in {}
    BY Zenon, <1>8 DEF FoundClosed
  <2>2. /\ Moves(Ops, {})
        /\ notice'[Reader] = "cancel" => notice[Reader] = "cancel" \/ Reader \in Ops
    BY Zenon, <1>a, <2>1, MovesCancel
  <2>3. Harmless(Ops, {})
    BY Zenon, <1>8, <2>2, OpNames DEF FoundClosed, Harmless, StreamEvents
  <2> QED
    BY Zenon, <2>2, <2>3, HarmlessKeeps
<1>9. ASSUME NEW s \in Streams, NEW o \in {Recv(s), Send(s)}, FoundHalfClosed(o) PROVE Kept'
  <2>1. Moves({}, {})
    BY Zenon, <1>9, MovesQuiet DEF FoundHalfClosed, Kept, Waiting
  <2>2. Harmless({}, {})
    BY <1>9, OpNames DEF FoundHalfClosed, Harmless
  <2> QED
    BY Zenon, <2>1, <2>2, HarmlessKeeps
<1>10. ASSUME NEW o \in Ops, Call(o) PROVE Kept'
  <2>1. Moves({}, {})
    BY Zenon, <1>10, MovesQuiet DEF Call, Kept, Waiting
  <2>2. Harmless({}, {})
    BY Zenon, <1>10, OpNames DEF Call, Harmless
  <2> QED
    BY Zenon, <2>1, <2>2, HarmlessKeeps
<1>11. ASSUME NEW data \in SUBSET Streams, NEW last \in SUBSET data,
              NEW more \in SUBSET (known \ room), NEW acked \in SUBSET known,
              Write(data, last, more, acked)
       PROVE  Kept'
  <2>1. PICK e \in Popped((Readable \cup (data \ (unread \cup shut))), ((wq \cup more) \ acked)) :
            HandleStreamEvents(e, Readable \cup (data \ (unread \cup shut)), (wq \cup more) \ acked)
            /\ Notify(Announced(e), {}, {})
    BY Zenon, <1>11 DEF Write
  <2>2. (Readable \cup (data \ (unread \cup shut))) \in SUBSET Streams
        /\ ((wq \cup more) \ acked) \in SUBSET Streams
    BY Zenon, <1>11 DEF Write, Readable
  <2>3. /\ \A t \in (Readable \cup (data \ (unread \cup shut))) : t \in rq'
             \/ Recv(t) \in Announced(e)
        /\ \A t \in ((wq \cup more) \ acked) : t \in wq' \/ Send(t) \in Announced(e)
        /\ incoming' = incoming \/ Acceptor \in Announced(e)
    BY Zenon, <2>1, <2>2, HandledWaits
  <2>4. \A o1 \in Ops : pc'[o1] = "wait" => pc[o1] = "wait" \/ o1 \in {}
    BY Zenon, <1>11, OpNames DEF Write
  <2>5. /\ Moves(Announced(e), {})
        /\ notice'[Reader] = "cancel" => notice[Reader] = "cancel"
    BY Zenon, <1>a, <2>1, <2>4, MovesOn
  <2>6. Harmless(Announced(e), {})
    BY Zenon, <1>11, <2>3, <2>5, OpNames
       DEF Write, Harmless, Readable, Packet, HandleHalfClosed
  <2> QED
    BY Zenon, <2>5, <2>6, HarmlessKeeps
<1>12. CASE WriteClose
  <2>1. PICK e \in Popped(Readable, wq) :
            HandleStreamEvents(e, Readable, wq) /\ Notify(Announced(e), {}, {})
    BY Zenon, <1>12 DEF WriteClose
  <2>2. Readable \in SUBSET Streams /\ wq \in SUBSET Streams
    BY Zenon, <1>12 DEF WriteClose, Readable
  <2>3. /\ \A t \in Readable : t \in rq' \/ Recv(t) \in Announced(e)
        /\ \A t \in wq : t \in wq' \/ Send(t) \in Announced(e)
        /\ incoming' = incoming \/ Acceptor \in Announced(e)
    BY Zenon, <2>1, <2>2, HandledWaits
  <2>4. \A o1 \in Ops : pc'[o1] = "wait" => pc[o1] = "wait" \/ o1 \in {}
    BY Zenon, <1>12, OpNames DEF WriteClose
  <2>5. /\ Moves(Announced(e), {})
        /\ notice'[Reader] = "cancel" => notice[Reader] = "cancel"
    BY Zenon, <1>a, <2>1, <2>4, MovesOn
  <2>6. Harmless(Announced(e), {})
    BY Zenon, <1>12, <2>3, <2>5, OpNames DEF WriteClose, Harmless, Readable
  <2> QED
    BY Zenon, <2>5, <2>6, HarmlessKeeps
<1>13. ASSUME NEW s \in Streams, StreamRecv(s) PROVE Kept'
  <2>1. PICK e \in Popped((Readable \ {s}), wq) :
            HandleStreamEvents(e, (Readable \ {s}), wq)
            /\ Notify(Announced(e) \cup {Reader}, {}, {})
    BY Zenon, <1>13 DEF StreamRecv
  <2>2. (Readable \ {s}) \in SUBSET Streams /\ wq \in SUBSET Streams
    BY Zenon, <1>13 DEF StreamRecv, Readable
  <2>3. /\ \A t \in (Readable \ {s}) : t \in rq' \/ Recv(t) \in Announced(e)
        /\ \A t \in wq : t \in wq' \/ Send(t) \in Announced(e)
        /\ incoming' = incoming \/ Acceptor \in Announced(e)
    BY Zenon, <2>1, <2>2, HandledWaits
  <2>4. \A o1 \in Ops : pc'[o1] = "wait" => pc[o1] = "wait" \/ o1 \in {}
    BY ZenonT(60), <1>13, OpNames DEF StreamRecv
  <2>5. /\ Moves(Announced(e) \cup {Reader}, {})
        /\ notice'[Reader] = "cancel" => notice[Reader] = "cancel"
    BY Zenon, <1>a, <2>1, <2>4, MovesOn
  <2>6. Harmless(Announced(e) \cup {Reader}, {})
    BY ZenonT(60), <1>13, <2>3, <2>5, OpNames DEF StreamRecv, Harmless, Readable
  <2> QED
    BY Zenon, <2>5, <2>6, HarmlessKeeps
<1>14. ASSUME NEW s \in Streams, StreamRecvDone(s) PROVE Kept'
  <2>1. PICK e \in Popped(Readable, wq) :
            HandleStreamEvents(e, Readable, wq)
            /\ Notify(Announced(e) \cup {Reader}, {}, {Recv(s)})
    BY Zenon, <1>14 DEF StreamRecvDone
  <2>2. Readable \in SUBSET Streams /\ wq \in SUBSET Streams
    BY Zenon, <1>14 DEF StreamRecvDone, Readable
  <2>3. /\ \A t \in Readable : t \in rq' \/ Recv(t) \in Announced(e)
        /\ \A t \in wq : t \in wq' \/ Send(t) \in Announced(e)
        /\ incoming' = incoming \/ Acceptor \in Announced(e)
    BY ZenonT(60), <2>1, <2>2, HandledWaits
  <2>4. \A o1 \in Ops : pc'[o1] = "wait" => pc[o1] = "wait" \/ o1 \in {Recv(s)}
    BY ZenonT(60), <1>14, OpNames DEF StreamRecvDone
  <2>5. /\ Moves(Announced(e) \cup {Reader}, {Recv(s)})
        /\ notice'[Reader] = "cancel" => notice[Reader] = "cancel"
    BY ZenonT(60), <1>a, <2>1, <2>4, MovesOn
  <2>a. /\ pc'[Reader] = pc[Reader] /\ conn # "draining" /\ s \notin half /\ s \notin unread
        /\ UNCHANGED <<unread, half, finSent, room, conn>>
    BY SMTT(30), <1>14, OpNames DEF StreamRecvDone, CanSend
  <2>6. Harmless(Announced(e) \cup {Reader}, {Recv(s)})
    BY <2>a, <2>3, <2>5, OpNames DEF Harmless, Readable
  <2> QED
    BY Zenon, <2>5, <2>6, HarmlessKeeps
<1>15. ASSUME NEW s \in Streams, StreamRecvUnknown(s) PROVE Kept'
  <2>1. CASE s \notin regout
    <3>1. Moves({}, {})
      BY ZenonT(60), <1>15, <2>1, MovesQuiet DEF StreamRecvUnknown, Kept, Waiting
    <3>2. Harmless({}, {})
      BY <1>15, <2>1, OpNames DEF StreamRecvUnknown, Harmless
    <3> QED
      BY Zenon, <3>1, <3>2, HarmlessKeeps
  <2>2. CASE s \in regout
    <3>1. /\ Notify({Reader}, {}, {Recv(s)})
          /\ \A o1 \in Ops : pc'[o1] = "wait" => pc[o1] = "wait" \/ o1 \in {Recv(s)}
      BY Zenon, <1>15, <2>2 DEF StreamRecvUnknown
    <3>2. /\ Moves({Reader}, {Recv(s)})
          /\ notice'[Reader] = "cancel" => notice[Reader] = "cancel"
      BY ZenonT(60), <1>a, <3>1, MovesOn
    <3>3. /\ pc'[Reader] = pc[Reader] /\ conn # "draining" /\ s \notin half
               /\ s \notin unread
          /\ UNCHANGED <<unread, rq, half, finSent, room, wq, incoming, conn>>
      BY <1>15, <2>2, OpNames DEF StreamRecvUnknown
    <3>4. Harmless({Reader}, {Recv(s)})
      BY <3>2, <3>3, OpNames DEF Harmless
    <3> QED
      BY Zenon, <3>2, <3>4, HarmlessKeeps
  <2> QED
    BY Zenon, <2>1, <2>2
<1>16. ASSUME NEW s \in Streams, StreamSend(s) PROVE Kept'
  <2>1. PICK e \in Popped(Readable, (IF s \in room' THEN wq ELSE wq \ {s})) :
            HandleStreamEvents(e, Readable, (IF s \in room' THEN wq ELSE wq \ {s}))
            /\ Notify(Announced(e) \cup {Reader}, {}, {})
    BY Zenon, <1>16 DEF StreamSend
  <2>2. Readable \in SUBSET Streams
        /\ (IF s \in room' THEN wq ELSE wq \ {s}) \in SUBSET Streams
    BY Zenon, <1>16 DEF StreamSend, Readable
  <2>3. /\ \A t \in Readable : t \in rq' \/ Recv(t) \in Announced(e)
        /\ \A t \in (IF s \in room' THEN wq ELSE wq \ {s}) : t \in wq'
             \/ Send(t) \in Announced(e)
        /\ incoming' = incoming \/ Acceptor \in Announced(e)
    BY Zenon, <2>1, <2>2, HandledWaits
  <2>4. \A o1 \in Ops : pc'[o1] = "wait" => pc[o1] = "wait" \/ o1 \in {}
    BY Zenon, <1>16, OpNames DEF StreamSend
  <2>5. /\ Moves(Announced(e) \cup {Reader}, {})
        /\ notice'[Reader] = "cancel" => notice[Reader] = "cancel"
    BY ZenonT(60), <1>a, <2>1, <2>4, MovesOn
  <2>6. Harmless(Announced(e) \cup {Reader}, {})
    BY <1>16, <2>3, <2>5, OpNames DEF StreamSend, Harmless, Readable
  <2> QED
    BY Zenon, <2>5, <2>6, HarmlessKeeps
<1>17. ASSUME NEW s \in Streams, StreamSendDone(s) PROVE Kept'
  <2>1. PICK e \in Popped(Readable, wq) :
            HandleStreamEvents(e, Readable, wq)
            /\ Notify(Announced(e) \cup {Reader}, {}, {Send(s)})
    BY Zenon, <1>17 DEF StreamSendDone
  <2>2. Readable \in SUBSET Streams /\ wq \in SUBSET Streams
    BY Zenon, <1>17 DEF StreamSendDone, Readable
  <2>3. /\ \A t \in Readable : t \in rq' \/ Recv(t) \in Announced(e)
        /\ \A t \in wq : t \in wq' \/ Send(t) \in Announced(e)
        /\ incoming' = incoming \/ Acceptor \in Announced(e)
    BY ZenonT(60), <2>1, <2>2, HandledWaits
  <2>4. \A o1 \in Ops : pc'[o1] = "wait" => pc[o1] = "wait" \/ o1 \in {Send(s)}
    BY SMTT(30), <1>17, OpNames DEF StreamSendDone
  <2>5. /\ Moves(Announced(e) \cup {Reader}, {Send(s)})
        /\ notice'[Reader] = "cancel" => notice[Reader] = "cancel"
    BY Zenon, <1>a, <2>1, <2>4, MovesOn
  <2>a. /\ pc'[Reader] = pc[Reader] /\ conn # "draining" /\ s \notin half
             /\ s \notin finSent /\ s \notin room
        /\ UNCHANGED <<unread, half, finSent, room, conn>>
    BY SMTT(30), <1>17, OpNames DEF StreamSendDone, CanSend
  <2>6. Harmless(Announced(e) \cup {Reader}, {Send(s)})
    BY <2>a, <2>3, <2>5, OpNames DEF Harmless, Readable
  <2> QED
    BY Zenon, <2>5, <2>6, HarmlessKeeps
<1>18. ASSUME NEW s \in Streams, StreamSendErr(s) PROVE Kept'
  <2>1. Moves({}, {})
    BY ZenonT(60), <1>18, MovesQuiet DEF StreamSendErr, Kept, Waiting
  <2>2. Harmless({}, {})
    BY <1>18, OpNames DEF StreamSendErr, Harmless
  <2> QED
    BY Zenon, <2>1, <2>2, HarmlessKeeps
<1>19. CASE Accept
  <2>1. Moves({}, {})
    BY Zenon, <1>19, MovesQuiet DEF Accept, Kept, Waiting
  <2>2. Harmless({}, {})
    BY Zenon, <1>19, OpNames DEF Accept, Harmless
  <2> QED
    BY Zenon, <2>1, <2>2, HarmlessKeeps
<1>20. CASE AcceptWait
  <2>1. Notify({}, {}, {Acceptor}) /\ \A o1 \in Ops : pc'[o1] = "wait" => pc[o1] = "wait"
        \/ o1 \in {Acceptor}
    BY Zenon, <1>20 DEF AcceptWait
  <2>2. /\ Moves({}, {Acceptor})
        /\ notice'[Reader] = "cancel" => notice[Reader] = "cancel"
    BY Zenon, <1>a, <2>1, MovesOn
  <2>3. Harmless({}, {Acceptor})
    BY Zenon, <1>20, <2>2, OpNames DEF AcceptWait, Harmless, StreamEvents
  <2> QED
    BY Zenon, <2>2, <2>3, HarmlessKeeps
<1>21. CASE OpenStream
  <2>1. Moves({}, {})
    BY Zenon, <1>21, MovesQuiet DEF OpenStream, Kept, Waiting
  <2>2. Harmless({}, {})
    BY Zenon, <1>21, OpNames DEF OpenStream, Harmless
  <2> QED
    BY Zenon, <2>1, <2>2, HarmlessKeeps
<1>22. ASSUME NEW s \in Streams, CloseStream(s) PROVE Kept'
  <2>1. CASE s \in regout
    <3>1. Moves({}, {})
      BY Zenon, <1>22, <2>1, MovesQuiet DEF CloseStream, Kept, Waiting
    <3>2. Harmless({}, {})
      BY Zenon, <1>22, <2>1, OpNames DEF CloseStream, Harmless
    <3> QED
      BY Zenon, <3>1, <3>2, HarmlessKeeps
  <2>2. CASE s \notin regout
    <3>1. Notify({Reader}, StreamEvents(s), {}) /\ pc' = pc
      BY Zenon, <1>22, <2>2 DEF CloseStream
    <3>2. /\ Moves({Reader} \cup StreamEvents(s), {})
          /\ notice'[Reader] = "cancel" => notice[Reader] = "cancel"
               \/ Reader \in StreamEvents(s)
      BY Zenon, <1>a, <3>1, MovesNotify
    <3>3. Harmless({Reader} \cup StreamEvents(s), {})
      BY Zenon, <1>22, <2>2, <3>2, OpNames DEF CloseStream, Harmless, StreamEvents
    <3> QED
      BY Zenon, <3>2, <3>3, HarmlessKeeps
  <2> QED
    BY Zenon, <2>1, <2>2
<1>23. ASSUME NEW s \in Streams, StreamShutdown(s) PROVE Kept'
  <2>1. Moves({}, {})
    BY ZenonT(60), <1>23, MovesQuiet DEF StreamShutdown, Kept, Waiting
  <2>2. Harmless({}, {})
    BY ZenonT(60), <1>23, OpNames DEF StreamShutdown, Harmless
  <2> QED
    BY Zenon, <2>1, <2>2, HarmlessKeeps
<1>24. ASSUME NEW s \in Streams, NotifyShutdown(s) PROVE Kept'
  <2>1. Notify({}, {Recv(s)}, {}) /\ \A o1 \in Ops : pc'[o1] = "wait" => pc[o1] = "wait"
        \/ o1 \in {}
    BY Zenon, <1>24 DEF NotifyShutdown
  <2>2. /\ Moves({Recv(s)}, {})
        /\ notice'[Reader] = "cancel" => notice[Reader] = "cancel" \/ Reader \in {Recv(s)}
    BY Zenon, <1>a, <2>1, MovesCancel
  <2>3. Harmless({Recv(s)}, {})
    BY Zenon, <1>24, <2>2, OpNames DEF NotifyShutdown, Harmless, StreamEvents
  <2> QED
    BY Zenon, <2>2, <2>3, HarmlessKeeps
<1>25. CASE Close
  <2>1. Moves({}, {})
    BY Zenon, <1>25, MovesQuiet DEF Close, Kept, Waiting
  <2>2. Harmless({}, {})
    BY Zenon, <1>25, OpNames DEF Close, Harmless
  <2> QED
    BY Zenon, <2>1, <2>2, HarmlessKeeps
<1> HIDE DEF TypeOK, Goto, Enter, quiche, state, stop
<1> QED
  BY ZenonT(60), <1>1, <1>2, <1>3, <1>4, <1>5, <1>6, <1>7, <1>8, <1>9, <1>10, <1>11, <1>12,
     <1>13, <1>14, <1>15, <1>16, <1>17, <1>18, <1>19, <1>20, <1>21, <1>22, <1>23, <1>24,
     <1>25, NextCases

(* Every step keeps a half closed stream drained. *)
LEMMA NextDrained == TypeOK /\ Drained /\ [Next]_vars => Drained'
<1> SUFFICES ASSUME TypeOK, Drained, [Next]_vars PROVE Drained'
  BY Zenon
<1> USE DEF TypeOK, quiche, state, stop
<1>1. CASE UNCHANGED vars
  BY Zenon, <1>1 DEF vars, quiche, state, stop, Drained
<1>2. ASSUME NEW gone \in SUBSET dropping, Read(gone) PROVE Drained'
  BY Zenon, <1>2 DEF Read, HandleDropping, Drained
<1>3. ASSUME NEW gone \in SUBSET dropping, ReadDone(gone) PROVE Drained'
  BY Zenon, <1>3 DEF ReadDone, HandleDropping, Drained
<1>4. CASE ReadTimeout
  BY Zenon, <1>4 DEF ReadTimeout, Drained
<1>5. CASE ReadOnTimeout
  BY Zenon, <1>5 DEF ReadOnTimeout, Drained
<1>6. ASSUME NEW o \in Ops, Resume(o) PROVE Drained'
  BY Zenon, <1>6 DEF Resume, Drained
<1>7. ASSUME NEW o \in Ops, ResumeAnew(o) PROVE Drained'
  BY Zenon, <1>7 DEF ResumeAnew, Drained
<1>8. ASSUME NEW o \in Ops, FoundClosed(o) PROVE Drained'
  BY Zenon, <1>8 DEF FoundClosed, Drained
<1>9. ASSUME NEW s \in Streams, NEW o \in {Recv(s), Send(s)}, FoundHalfClosed(o)
      PROVE  Drained'
  BY Zenon, <1>9 DEF FoundHalfClosed, Drained
<1>10. ASSUME NEW o \in Ops, Call(o) PROVE Drained'
  BY Zenon, <1>10 DEF Call, Drained
<1>11. ASSUME NEW data \in SUBSET Streams, NEW last \in SUBSET data,
              NEW more \in SUBSET (known \ room), NEW acked \in SUBSET known,
              Write(data, last, more, acked)
       PROVE  Drained'
  BY Zenon, <1>11 DEF Write, Packet, HandleHalfClosed, Drained
<1>12. CASE WriteClose
  BY Zenon, <1>12 DEF WriteClose, Drained
<1>13. ASSUME NEW s \in Streams, StreamRecv(s) PROVE Drained'
  BY Zenon, <1>13 DEF StreamRecv, Drained
<1>14. ASSUME NEW s \in Streams, StreamRecvDone(s) PROVE Drained'
  BY Zenon, <1>14 DEF StreamRecvDone, Drained
<1>15. ASSUME NEW s \in Streams, StreamRecvUnknown(s) PROVE Drained'
  BY Zenon, <1>15 DEF StreamRecvUnknown, Drained
<1>16. ASSUME NEW s \in Streams, StreamSend(s) PROVE Drained'
  BY Zenon, <1>16 DEF StreamSend, CanSend, Drained
<1>17. ASSUME NEW s \in Streams, StreamSendDone(s) PROVE Drained'
  BY Zenon, <1>17 DEF StreamSendDone, Drained
<1>18. ASSUME NEW s \in Streams, StreamSendErr(s) PROVE Drained'
  BY Zenon, <1>18 DEF StreamSendErr, Drained
<1>19. CASE Accept
  BY Zenon, <1>19 DEF Accept, Drained
<1>20. CASE AcceptWait
  BY Zenon, <1>20 DEF AcceptWait, Drained
<1>21. CASE OpenStream
  BY Zenon, <1>21 DEF OpenStream, Drained
<1>22. ASSUME NEW s \in Streams, CloseStream(s) PROVE Drained'
  BY Zenon, <1>22 DEF CloseStream, Drained
<1>23. ASSUME NEW s \in Streams, StreamShutdown(s) PROVE Drained'
  BY Zenon, <1>23 DEF StreamShutdown, Drained
<1>24. ASSUME NEW s \in Streams, NotifyShutdown(s) PROVE Drained'
  BY Zenon, <1>24 DEF NotifyShutdown, Drained
<1>25. CASE Close
  BY Zenon, <1>25 DEF Close, Drained
<1> HIDE DEF TypeOK, quiche, state, stop
<1> QED
  BY Zenon, <1>1, <1>2, <1>3, <1>4, <1>5, <1>6, <1>7, <1>8, <1>9, <1>10, <1>11, <1>12,
     <1>13, <1>14, <1>15, <1>16, <1>17, <1>18, <1>19, <1>20, <1>21, <1>22, <1>23, <1>24,
     <1>25, NextCases

(* The streams of the peer accept has returned, and those it will return *)
Seen == accepted \o incoming

(* The streams seen, accepted or still to be, are the registered ones, each once;
   one that is not registered yet is in the queue of quiche. *)
SeenOK ==
    /\ \A i, j \in DOMAIN Seen : Seen[i] = Seen[j] => i = j
    /\ regin = {Seen[i] : i \in DOMAIN Seen}
    /\ \A s \in PeerStreams : s \in unread => s \in regin \/ s \in rq

(* A step that leaves them alone keeps them in order, *)
LEMMA SeenSame ==
    ASSUME SeenOK, UNCHANGED <<accepted, incoming, regin>>,
           \A s \in PeerStreams : s \in unread' => s \in rq'
               \/ (s \in unread /\ s \notin rq)
    PROVE  SeenOK'
<1>1. Seen' = Seen
  BY Zenon DEF Seen
<1> QED
  BY Zenon, <1>1 DEF SeenOK

(* A stream that is registered goes to the end of the queue. *)
LEMMA SeenHandled ==
    ASSUME TypeOK, Parity, SeenOK, accepted' = accepted,
           NEW r \in SUBSET Streams, NEW w \in SUBSET Streams,
           NEW e \in Popped(r, w), HandleStreamEvents(e, r, w),
           \A s \in PeerStreams : s \in unread' => s \in r \/ (s \in unread /\ s \notin rq)
    PROVE  SeenOK'
<1>1. /\ \A s \in r : s \in rq' \/ (s \in PeerStreams => s \in regin')
      /\ \/ incoming' = incoming /\ regin' = regin
         \/ \E s \in PeerStreams \ regin :
                regin' = regin \cup {s} /\ incoming' = Append(incoming, s)
  BY ZenonT(60), Handled
<1>2. \A s \in PeerStreams : s \in unread' => s \in regin' \/ s \in rq'
  BY Zenon, <1>1 DEF SeenOK
<1>3. CASE incoming' = incoming /\ regin' = regin
  BY <1>2, <1>3 DEF SeenOK, Seen
<1>4. ASSUME NEW s \in PeerStreams \ regin, regin' = regin \cup {s}, incoming' = Append(incoming, s)
      PROVE  SeenOK'
  <2>1. accepted \in Seq(PeerStreams) /\ incoming \in Seq(PeerStreams)
    BY Zenon DEF TypeOK
  <2>2. accepted \o Append(incoming, s) = Append(accepted \o incoming, s)
    BY <2>1
  <2>3. Seen \in Seq(PeerStreams) /\ Seen' = Append(Seen, s)
    BY <1>4, <2>1, <2>2 DEF Seen
  <2> DEFINE new == Append(Seen, s)
  <2> HIDE DEF Seen
  <2>4. /\ DOMAIN new = 1 .. Len(Seen) + 1 /\ DOMAIN Seen = 1 .. Len(Seen)
             /\ Len(Seen) \in Nat
        /\ \A i \in DOMAIN Seen : new[i] = Seen[i]
        /\ new[Len(Seen) + 1] = s
    BY <2>3
  <2> HIDE DEF new
  <2>5. /\ DOMAIN new = DOMAIN Seen \cup {Len(Seen) + 1} /\ Len(Seen) + 1 \notin DOMAIN Seen
    BY <2>4
  <2>6. Seen' = new
    BY Zenon, <2>3 DEF new
  <2>7. \A i \in DOMAIN Seen : Seen[i] # s
    BY Zenon, <1>4 DEF SeenOK
  <2>8. \A i, j \in DOMAIN new : new[i] = new[j] => i = j
    BY Zenon, <2>4, <2>5, <2>7 DEF SeenOK
  <2>9. {new[i] : i \in DOMAIN new} = regin \cup {s}
    BY <2>4, <2>5 DEF SeenOK
  <2> QED
    BY <1>2, <1>4, <2>6, <2>8, <2>9 DEF SeenOK
<1> QED
  BY Zenon, <1>1, <1>3, <1>4

(* and accept moves one along. *)
LEMMA SeenAccept == ASSUME TypeOK, SeenOK, Accept PROVE SeenOK'
<1>1. accepted \in Seq(PeerStreams) /\ incoming \in Seq(PeerStreams) /\ incoming # <<>>
  BY Zenon DEF TypeOK, Accept
<1>2. Append(accepted, Head(incoming)) \o Tail(incoming) = accepted \o incoming
  BY SMTT(30), <1>1
<1>3. Seen' = Seen
  BY Zenon, <1>2 DEF Seen, Accept
<1> QED
  BY Zenon, <1>3 DEF SeenOK, Accept, quiche

(* Every step keeps a stream from being announced twice. *)
LEMMA NextSeen == TypeOK /\ Parity /\ SeenOK /\ [Next]_vars => SeenOK'
<1> SUFFICES ASSUME TypeOK, Parity, SeenOK, [Next]_vars PROVE SeenOK'
  BY Zenon
<1> USE DEF TypeOK, quiche, state, stop
<1>1. CASE UNCHANGED vars
  BY Zenon, <1>1, SeenSame DEF vars, quiche, state, stop
<1>2. ASSUME NEW gone \in SUBSET dropping, Read(gone) PROVE SeenOK'
  BY Zenon, <1>2, SeenSame DEF Read, HandleDropping
<1>3. ASSUME NEW gone \in SUBSET dropping, ReadDone(gone) PROVE SeenOK'
  BY Zenon, <1>3, SeenSame DEF ReadDone, HandleDropping
<1>4. CASE ReadTimeout
  BY Zenon, <1>4, SeenSame DEF ReadTimeout
<1>5. CASE ReadOnTimeout
  BY Zenon, <1>5, SeenSame DEF ReadOnTimeout
<1>6. ASSUME NEW o \in Ops, Resume(o) PROVE SeenOK'
  BY Zenon, <1>6, SeenSame DEF Resume
<1>7. ASSUME NEW o \in Ops, ResumeAnew(o) PROVE SeenOK'
  BY Zenon, <1>7, SeenSame DEF ResumeAnew
<1>8. ASSUME NEW o \in Ops, FoundClosed(o) PROVE SeenOK'
  BY Zenon, <1>8, SeenSame DEF FoundClosed
<1>9. ASSUME NEW s \in Streams, NEW o \in {Recv(s), Send(s)}, FoundHalfClosed(o)
      PROVE  SeenOK'
  BY Zenon, <1>9, SeenSame DEF FoundHalfClosed
<1>10. ASSUME NEW o \in Ops, Call(o) PROVE SeenOK'
  BY Zenon, <1>10, SeenSame DEF Call
<1>11. ASSUME NEW data \in SUBSET Streams, NEW last \in SUBSET data,
              NEW more \in SUBSET (known \ room), NEW acked \in SUBSET known,
              Write(data, last, more, acked)
       PROVE  SeenOK'
  <2>1. PICK e \in Popped((Readable \cup (data \ (unread \cup shut))), ((wq \cup more) \ acked)) :
            HandleStreamEvents(e, Readable \cup (data \ (unread \cup shut)), (wq \cup more) \ acked)
    BY Zenon, <1>11 DEF Write
  <2>2. (Readable \cup (data \ (unread \cup shut))) \in SUBSET Streams
        /\ ((wq \cup more) \ acked) \in SUBSET Streams /\ accepted' = accepted
    BY Zenon, <1>11 DEF Write, Readable
  <2>3. \A t \in PeerStreams : t \in unread'
        => t \in (Readable \cup (data \ (unread \cup shut)))
            \/ (t \in unread /\ t \notin rq)
    BY Zenon, <1>11 DEF Write, Readable, HandleHalfClosed
  <2> HIDE DEF TypeOK
  <2> QED
    BY Zenon, <2>1, <2>2, <2>3, SeenHandled
<1>12. CASE WriteClose
  <2>1. PICK e \in Popped(Readable, wq) : HandleStreamEvents(e, Readable, wq)
    BY Zenon, <1>12 DEF WriteClose
  <2>2. Readable \in SUBSET Streams /\ wq \in SUBSET Streams /\ accepted' = accepted
    BY Zenon, <1>12 DEF WriteClose, Readable
  <2>3. \A t \in PeerStreams : t \in unread' => t \in Readable
            \/ (t \in unread /\ t \notin rq)
    BY Zenon, <1>12 DEF WriteClose, Readable
  <2> HIDE DEF TypeOK
  <2> QED
    BY Zenon, <2>1, <2>2, <2>3, SeenHandled
<1>13. ASSUME NEW s \in Streams, StreamRecv(s) PROVE SeenOK'
  <2>1. PICK e \in Popped((Readable \ {s}), wq) :
            HandleStreamEvents(e, (Readable \ {s}), wq)
    BY Zenon, <1>13 DEF StreamRecv
  <2>2. (Readable \ {s}) \in SUBSET Streams /\ wq \in SUBSET Streams /\ accepted' = accepted
    BY Zenon, <1>13 DEF StreamRecv, Readable
  <2>3. \A t \in PeerStreams : t \in unread' => t \in (Readable \ {s})
            \/ (t \in unread /\ t \notin rq)
    BY Zenon, <1>13 DEF StreamRecv, Readable
  <2> HIDE DEF TypeOK
  <2> QED
    BY Zenon, <2>1, <2>2, <2>3, SeenHandled
<1>14. ASSUME NEW s \in Streams, StreamRecvDone(s) PROVE SeenOK'
  <2>1. PICK e \in Popped(Readable, wq) : HandleStreamEvents(e, Readable, wq)
    BY Zenon, <1>14 DEF StreamRecvDone
  <2>2. Readable \in SUBSET Streams /\ wq \in SUBSET Streams /\ accepted' = accepted
    BY Zenon, <1>14 DEF StreamRecvDone, Readable
  <2>3. \A t \in PeerStreams : t \in unread' => t \in Readable
            \/ (t \in unread /\ t \notin rq)
    BY Zenon, <1>14 DEF StreamRecvDone, Readable
  <2> HIDE DEF TypeOK
  <2> QED
    BY Zenon, <2>1, <2>2, <2>3, SeenHandled
<1>15. ASSUME NEW s \in Streams, StreamRecvUnknown(s) PROVE SeenOK'
  BY Zenon, <1>15, SeenSame DEF StreamRecvUnknown
<1>16. ASSUME NEW s \in Streams, StreamSend(s) PROVE SeenOK'
  <2>1. PICK e \in Popped(Readable, (IF s \in room' THEN wq ELSE wq \ {s})) :
            HandleStreamEvents(e, Readable, (IF s \in room' THEN wq ELSE wq \ {s}))
    BY Zenon, <1>16 DEF StreamSend
  <2>2. Readable \in SUBSET Streams
        /\ (IF s \in room' THEN wq ELSE wq \ {s}) \in SUBSET Streams /\ accepted' = accepted
    BY Zenon, <1>16 DEF StreamSend, Readable
  <2>3. \A t \in PeerStreams : t \in unread' => t \in Readable
            \/ (t \in unread /\ t \notin rq)
    BY Zenon, <1>16 DEF StreamSend, Readable
  <2> HIDE DEF TypeOK
  <2> QED
    BY Zenon, <2>1, <2>2, <2>3, SeenHandled
<1>17. ASSUME NEW s \in Streams, StreamSendDone(s) PROVE SeenOK'
  <2>1. PICK e \in Popped(Readable, wq) : HandleStreamEvents(e, Readable, wq)
    BY Zenon, <1>17 DEF StreamSendDone
  <2>2. Readable \in SUBSET Streams /\ wq \in SUBSET Streams /\ accepted' = accepted
    BY Zenon, <1>17 DEF StreamSendDone, Readable
  <2>3. \A t \in PeerStreams : t \in unread' => t \in Readable
            \/ (t \in unread /\ t \notin rq)
    BY Zenon, <1>17 DEF StreamSendDone, Readable
  <2> HIDE DEF TypeOK
  <2> QED
    BY Zenon, <2>1, <2>2, <2>3, SeenHandled
<1>18. ASSUME NEW s \in Streams, StreamSendErr(s) PROVE SeenOK'
  BY Zenon, <1>18, SeenSame DEF StreamSendErr
<1>19. CASE Accept
  BY Zenon, <1>19, SeenAccept
<1>20. CASE AcceptWait
  BY Zenon, <1>20, SeenSame DEF AcceptWait
<1>21. CASE OpenStream
  BY Zenon, <1>21, SeenSame DEF OpenStream
<1>22. ASSUME NEW s \in Streams, CloseStream(s) PROVE SeenOK'
  BY Zenon, <1>22, SeenSame DEF CloseStream
<1>23. ASSUME NEW s \in Streams, StreamShutdown(s) PROVE SeenOK'
  BY Zenon, <1>23, SeenSame DEF StreamShutdown
<1>24. ASSUME NEW s \in Streams, NotifyShutdown(s) PROVE SeenOK'
  BY Zenon, <1>24, SeenSame DEF NotifyShutdown
<1>25. CASE Close
  BY Zenon, <1>25, SeenSame DEF Close
<1> HIDE DEF TypeOK, quiche, state, stop
<1> QED
  BY Zenon, <1>1, <1>2, <1>3, <1>4, <1>5, <1>6, <1>7, <1>8, <1>9, <1>10, <1>11, <1>12,
     <1>13, <1>14, <1>15, <1>16, <1>17, <1>18, <1>19, <1>20, <1>21, <1>22, <1>23, <1>24,
     <1>25, NextCases

(* The inductive invariant *)
IInv == TypeOK /\ Parity /\ Kept /\ Drained /\ SeenOK

(* The invariant holds in every reachable state. *)
LEMMA Invariance == Spec => []IInv
<1>1. Init => IInv
  <2> SUFFICES ASSUME Init PROVE IInv
    BY Zenon
  <2>1. TypeOK /\ Parity
    BY Zenon, InitIs
  <2>2. \A o \in Ops : pc[o] # "wait" /\ pc[o] # "done" /\ notice[o] = "none"
    BY Zenon DEF Init
  <2>3. Kept
    BY Zenon, <2>2, OpNames DEF Kept, WakerKept, StreamKept, AcceptKept, LoopKept, Waiting
  <2>4. Drained
    BY Zenon DEF Init, Drained
  <2>5. SeenOK
    <3>1. PICK early \in {<<>>} \cup {<<s>> : s \in PeerStreams} :
              incoming = early /\ known = {early[i] : i \in DOMAIN early}
      BY Zenon DEF Init
    <3>2. Seen = early
      <4>1. CASE early = <<>>
        BY <3>1, <4>1 DEF Init, Seen
      <4>2. ASSUME NEW s \in PeerStreams, early = <<s>> PROVE Seen = early
        BY <3>1, <4>2 DEF Init, Seen
      <4> QED
        BY Zenon, <4>1, <4>2
    <3>3. \A i, j \in DOMAIN early : early[i] = early[j] => i = j
      OBVIOUS
    <3> QED
      BY Zenon, <3>1, <3>2, <3>3 DEF Init, SeenOK
  <2> QED
    BY Zenon, <2>1, <2>3, <2>4, <2>5 DEF IInv
<1>2. IInv /\ [Next]_vars => IInv'
  BY Zenon, NextType, NextKept, NextDrained, NextSeen DEF IInv
<1> QED
  BY <1>1, <1>2, PTL DEF Spec

(* For every set of streams: an operation that waits for a stream is registered,
   and quiche still holds the stream in its queue if it can be read or written,
   although each handle_stream_events takes one event only. *)
THEOREM ConnNoLostStreamEvent == Spec => []NoLostStreamEvent
<1>1. IInv => NoLostStreamEvent
  <2> SUFFICES ASSUME IInv, NEW o \in Ops, Waiting(o)
               PROVE  /\ o \in waker
                      /\ o[1] = "recv" /\ o[2] \in unread => o[2] \in rq
                      /\ o[1] = "send" /\ o[2] \in room => o[2] \in wq
                      /\ o = Acceptor => incoming = <<>>
    BY Zenon DEF NoLostStreamEvent
  <2>1. o \in waker /\ (o = Acceptor => incoming = <<>>)
    BY Zenon DEF IInv, Kept, WakerKept, AcceptKept
  <2>2. ASSUME NEW s \in Streams, o = Recv(s)
        PROVE  o[1] = "recv" /\ (o[2] \in unread => o[2] \in rq)
    BY Zenon, <2>2, OpNames DEF IInv, Kept, StreamKept
  <2>3. ASSUME NEW s \in Streams, o = Send(s)
        PROVE  o[1] = "send" /\ (o[2] \in room => o[2] \in wq)
    BY Zenon, <2>3, OpNames DEF IInv, Kept, StreamKept
  <2> QED
    BY Zenon, <2>1, <2>2, <2>3, OpNames
<1> QED
  BY <1>1, Invariance, PTL

(* Nobody waits for a half-closed stream, and nobody waits once the send loop has
   stopped. *)
THEOREM ConnNobodyWaitsInVain == Spec => []NobodyWaitsInVain
<1>1. IInv => NobodyWaitsInVain
  BY Zenon DEF IInv, TypeOK, Kept, StreamKept, LoopKept, NobodyWaitsInVain
<1> QED
  BY <1>1, Invariance, PTL

(* A stream this side has closed is dropped from half_closed_streams only after
   the peer's fin, or when quiche has collected it. *)
THEOREM ConnHalfClosedIsDrained == Spec => []HalfClosedIsDrained
<1>1. IInv => HalfClosedIsDrained
  BY Zenon DEF IInv, Drained, HalfClosedIsDrained
<1> QED
  BY <1>1, Invariance, PTL

(* Every stream of the peer is accepted at most once, and none that has something
   to read is forgotten, however often it becomes readable. *)
THEOREM ConnAcceptedOnce == Spec => []AcceptedOnce
<1>1. IInv => AcceptedOnce
  BY Zenon DEF IInv, SeenOK, Seen, AcceptedOnce
<1> QED
  BY <1>1, Invariance, PTL
=============================================================================
