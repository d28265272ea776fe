------------------------------ MODULE QuicConn ------------------------------
(***************************************************************************)
(* hala-quic, src/state/conn.rs: the state machine around one quiche       *)
(* connection.  The send loop repeats read, the receive loop calls write   *)
(* with each packet, and the application calls the stream operations.      *)
(*                                                                         *)
(* Every operation works under the state's AsyncMutex up to the point      *)
(* where it returns or waits for an event of the EventMap, which registers *)
(* the waiter before it releases the lock: each such stretch is one        *)
(* action.  At most one operation waits for an event, and is named by it:  *)
(* <<"recv", s>> is the stream_recv that waits for StreamReadable(s).      *)
(* quiche is external: the streams it knows, what can be read and sent,    *)
(* and its queues of readable and writable streams, from which a stream,   *)
(* once taken, is missing until it becomes readable or writable anew.      *)
(***************************************************************************)
EXTENDS Integers, Sequences, FiniteSets

CONSTANTS FirstStream, \* first_outgoing_stream_id
          MyStreams,   \* the streams this side can open
          PeerStreams, \* the streams the peer can open
          Used,        \* the stream operations the application calls
          MaxPackets   \* the packets that carry more than acknowledgements

Streams == MyStreams \cup PeerStreams

ASSUME StreamAssumption ==
    /\ FirstStream \in Nat /\ MaxPackets \in Nat
    /\ \A s \in MyStreams : s \in Nat /\ s % 2 = FirstStream % 2
    /\ \A s \in PeerStreams : s \in Nat /\ s % 2 # FirstStream % 2

Reader == <<"read", 0>>
Acceptor == <<"accept", 0>>
Recv(s) == <<"recv", s>>
Send(s) == <<"send", s>>
Shutdown(s) == <<"shutdown", s>>
Closing(s) == <<"close", s>>
Ops == ({"recv", "send"} \X Streams) \cup {Reader, Acceptor}

VARIABLES
    conn,       \* quiche: open, closing (CONNECTION_CLOSE to be sent), draining
    known,      \* quiche: the streams created and not yet collected
    unread,     \* quiche: the streams with data, or a fin, not read yet
    fin,        \* quiche: the streams whose fin has arrived
    finSent,    \* quiche: the streams whose fin has been sent
    room,       \* quiche: the streams that can take more data
    rq,         \* quiche: the queue of readable streams
    wq,         \* quiche: the queue of writable streams
    tosend,     \* quiche: whether there is a packet to send
    regin,      \* register_incoming_stream_ids
    regout,     \* register_outgoing_stream_ids
    nextId,     \* lastest_outgoing_stream_id
    incoming,   \* incoming
    dropping,   \* dropping_stream_queue, as a set
    half,       \* half_closed_streams
    waker,      \* mediator: the operations whose waker is in the EventMap
    notice,     \* the reason each operation was woken for
    pc,         \* idle, call (about to take the lock), wait, timeout, done
    accepted,   \* history: the streams accept has returned, in order
    packets,    \* the number of packets received with more than an ACK
    shut,       \* quiche: the streams that are no longer read
    stopping    \* the streams whose stream_shutdown has released the lock

quiche == <<conn, known, unread, fin, finSent, room, rq, wq, tosend>>
state == <<regin, regout, nextId, incoming, dropping, half>>
stop == <<shut, stopping>>
vars == <<quiche, state, waker, notice, pc, accepted, packets, stop>>

TypeOK ==
    /\ conn \in {"open", "closing", "draining"}
    /\ known \in SUBSET Streams /\ unread \in SUBSET known
    /\ fin \in SUBSET Streams /\ finSent \in SUBSET Streams
    /\ room \in SUBSET Streams
    /\ rq \in SUBSET Streams /\ wq \in SUBSET (room \cap known)
    /\ tosend \in BOOLEAN
    /\ regin \in SUBSET PeerStreams
    /\ regout \in SUBSET MyStreams
    /\ nextId \in Nat
    /\ incoming \in Seq(PeerStreams)
    /\ dropping \in SUBSET Streams
    /\ half \in SUBSET Streams
    /\ waker \in SUBSET Ops
    /\ notice \in [Ops -> {"none", "on", "cancel"}]
    /\ pc \in [Ops -> {"idle", "call", "wait", "timeout", "done"}]
    /\ accepted \in Seq(PeerStreams)
    /\ packets \in 0 .. MaxPackets
    /\ shut \in SUBSET Streams /\ stopping \in SUBSET Streams

(* RawQuicConnState::new: the streams readable already are incoming. *)
Init ==
    /\ conn = "open"
    /\ \E early \in {<<>>} \cup {<<s>> : s \in PeerStreams} :
           /\ incoming = early
           /\ known = {early[i] : i \in DOMAIN early}
    /\ unread = known /\ rq = known /\ regin = known
    /\ fin = {} /\ finSent = {}
    /\ room = Streams /\ wq = {}
    /\ tosend \in BOOLEAN
    /\ regout = {} /\ nextId = FirstStream
    /\ dropping = {} /\ half = {}
    /\ waker = {}
    /\ notice = [o \in Ops |-> "none"]
    /\ pc = [o \in Ops |-> IF o \in {Reader} \cup (Used \cap {Acceptor})
                         THEN "call" ELSE "idle"]
    /\ accepted = <<>>
    /\ packets = 0
    /\ shut = {} /\ stopping = {}

Goto(o, from, to) ==
    /\ pc[o] = from
    /\ pc' = [pc EXCEPT ![o] = to]

-----------------------------------------------------------------------------
(* Events *)

(* The events `on` and `cancel` are notified with those reasons, and then the
   operations `waiters` start to wait. *)
Notify(on, cancel, waiters) ==
    /\ waker' = (waker \ (on \cup cancel)) \cup waiters
    /\ notice' = [o \in Ops |->
           IF pc[o] # "wait" \/ o \notin waker THEN notice[o]
           ELSE IF o \in cancel THEN "cancel"
           ELSE IF o \in on THEN "on"
           ELSE notice[o]]

StreamEvents(s) == {Recv(s), Send(s)}

NoEvent == <<"none", 0>>

(* The streams quiche reports readable: those read since are off its queue. *)
Readable == rq \cap unread

(* The one event handle_stream_events takes from quiche. *)
Popped(readable, writable) ==
    IF readable # {} THEN {Recv(s) : s \in readable}
    ELSE IF writable # {} THEN {Send(s) : s \in writable}
    ELSE {NoEvent}

(* Mutant: the stream is not looked up among the registered ones. *)
IsIncomingAgain(e) == e[1] = "recv" /\ e[2] % 2 # nextId % 2

(* handle_quic_incoming_stream: the peer's stream is seen for the first time. *)
IsIncoming(e) == e[1] = "recv" /\ e[2] % 2 # nextId % 2 /\ e[2] \notin regin

Announced(e) == IF IsIncoming(e) THEN {e, Acceptor} ELSE {e}

(* Mutant: the queues are emptied, for the sake of one event. *)
HandleStreamEventsAll(e, readable, writable) ==
    /\ e \in Popped(readable, writable)
    /\ rq' = {}
    /\ wq' = {}
    /\ regin' = IF IsIncoming(e) THEN regin \cup {e[2]} ELSE regin
    /\ incoming' = IF IsIncoming(e) THEN Append(incoming, e[2]) ELSE incoming

(* handle_stream_events, with quiche's queues as they are by then *)
HandleStreamEvents(e, readable, writable) ==
    /\ e \in Popped(readable, writable)
    /\ rq' = readable \ {s \in Streams : e = Recv(s)}
    /\ wq' = writable \ {s \in Streams : e = Send(s)}
    /\ regin' = IF IsIncoming(e) THEN regin \cup {e[2]} ELSE regin
    /\ incoming' = IF IsIncoming(e) THEN Append(incoming, e[2]) ELSE incoming

(* An operation is resumed: it tries again, or returns the cancellation. *)
Resume(o) ==
    /\ notice[o] # "none"
    /\ Goto(o, "wait", IF notice[o] = "on" THEN "call" ELSE "done")
    /\ notice' = [notice EXCEPT ![o] = "none"]
    /\ UNCHANGED <<quiche, state, waker, accepted, packets, stop>>

(* QuicStream's poll_read and poll_write make a new future for every poll, and
   so try again whatever the reason. *)
ResumeAnew(o) ==
    /\ o \notin {Reader, Acceptor}
    /\ notice[o] # "none"
    /\ Goto(o, "wait", "call")
    /\ notice' = [notice EXCEPT ![o] = "none"]
    /\ UNCHANGED <<quiche, state, waker, accepted, packets, stop>>

-----------------------------------------------------------------------------
(* Mutant: the operation returns the error and leaves the others waiting. *)
FoundClosedQuietly(o) ==
    /\ conn = "draining"
    /\ Goto(o, "call", "done")
    /\ UNCHANGED <<quiche, state, waker, notice, accepted, packets, stop>>

(* handle_quic_conn_status: whichever operation finds the connection closed
   cancels all the waiting ones, and fails. *)
FoundClosed(o) ==
    /\ conn = "draining"
    /\ Goto(o, "call", "done")
    /\ Notify({}, Ops, {})
    /\ UNCHANGED <<quiche, state, accepted, packets, stop>>

(* The lock is taken and the connection is not closed. *)
Enter(o, to) == conn # "draining" /\ Goto(o, "call", to)

(* handle_stream_status: the stream is half closed. *)
FoundHalfClosed(o) ==
    /\ o[2] \in half
    /\ Enter(o, "done")
    /\ UNCHANGED <<quiche, state, waker, notice, accepted, packets, stop>>

-----------------------------------------------------------------------------
(* read, called again and again by the send loop *)

(* Streams of this side that were closed before they were sent on, and closed again:
   quiche may make them now, within the peer's limit, only to send their fin. *)
NeverSent(gone) == (gone \cap MyStreams) \ (known \cup finSent)

(* Mutant: the operations of the closed streams are not cancelled here. *)
HandleDroppingQuietly(gone, waiters) ==
    /\ gone \subseteq dropping
    /\ dropping' = dropping \ gone
    /\ half' = half \cup gone
    /\ known' \in {known \cup made : made \in SUBSET NeverSent(gone)}
    /\ finSent' = finSent \cup (gone \cap known')
    /\ Notify({}, {}, waiters)

(* handle_dropping_streams: the fin of some of the streams can be sent, or
   fails for good; their operations are cancelled. *)
HandleDropping(gone, waiters) ==
    /\ gone \subseteq dropping
    /\ dropping' = dropping \ gone
    /\ half' = half \cup gone
    /\ known' \in {known \cup made : made \in SUBSET NeverSent(gone)}
    /\ finSent' = finSent \cup (gone \cap known')
    /\ Notify({}, UNION {StreamEvents(s) : s \in gone}, waiters)

(* quiche_conn.send has a packet.  CONNECTION_CLOSE is sent alone, and the
   connection is draining. *)
Read(gone) ==
    /\ Enter(Reader, "call")
    /\ HandleDropping(gone, {})
    /\ tosend \/ gone \cap known' # {} \/ conn = "closing"
    /\ conn' = IF conn = "closing" THEN "draining" ELSE conn
    /\ tosend' \in BOOLEAN
    /\ UNCHANGED <<unread, fin, room, rq, wq, regin, regout, nextId, incoming,
                   accepted, packets, stop>>

(* Nothing to send: read waits for Readable, for a limited time.  When the ping
   is overdue, it is sent at once. *)
ReadDone(gone) ==
    /\ ~ tosend /\ conn = "open"
    /\ \/ Enter(Reader, "wait") /\ HandleDropping(gone, {Reader}) /\ tosend' = FALSE
       \/ Enter(Reader, "call") /\ HandleDropping(gone, {}) /\ tosend' = TRUE
    /\ gone \cap known' = {}
    /\ UNCHANGED <<conn, unread, fin, room, rq, wq, regin, regout, nextId,
                   incoming, accepted, packets, stop>>

(* The wait times out; its waker stays in the EventMap. *)
ReadTimeout ==
    /\ Goto(Reader, "wait", "timeout")
    /\ notice' = [notice EXCEPT ![Reader] = "none"]
    /\ UNCHANGED <<quiche, state, waker, accepted, packets, stop>>

(* The ping is due, or the timer of quiche expired, which may have a packet to
   repeat or give the connection up, or neither. *)
ReadOnTimeout ==
    /\ Goto(Reader, "timeout", "call")
    /\ \/ tosend' = TRUE /\ conn' = conn
       \/ tosend' = tosend /\ conn' \in {conn, "draining"}
    /\ UNCHANGED <<known, unread, fin, finSent, room, rq, wq, state, waker, notice,
                   accepted, packets, stop>>

-----------------------------------------------------------------------------
(* write, called by the receive loop with every packet *)

(* A packet brings data of the streams `data` (the last of `last`), room on the
   streams `more` that had none, and the acknowledgement of all that the streams
   `acked` sent: quiche collects those that are through. *)
Packet(data, last, more, acked) ==
    /\ last \subseteq data /\ data \cap fin = {}
    /\ data \cap MyStreams \subseteq known
    /\ more \subseteq known \ room
    /\ acked \subseteq known \cap finSent \cap (fin \ unread)
    /\ packets' = IF data \cup more = {} THEN packets ELSE packets + 1
    /\ packets' <= MaxPackets
    /\ fin' = fin \cup last
    /\ room' = room \cup more

(* Mutant: streams with something left to read are forgotten. *)
HandleHalfClosedAll(unread1, known1) ==
    /\ half' = {}
    /\ unread' = unread1 \ half

(* handle_half_closed_streams: what the peer still sends on them is read and
   dropped, until its fin is read or quiche has collected the stream. *)
HandleHalfClosed(unread1, known1) ==
    /\ half' = {s \in half : s \in known1 /\ ~ (s \in unread1 /\ s \in fin')}
    /\ unread' = unread1 \ half

Write(data, last, more, acked) ==
    /\ conn # "draining"
    /\ Packet(data, last, more, acked)
    /\ LET known1 == (known \cup data) \ acked
           unread1 == unread \cup (data \ shut)
           rq1 == Readable \cup (data \ (unread \cup shut))
           wq1 == (wq \cup more) \ acked IN
       /\ known' = known1
       /\ \E e \in Popped(rq1, wq1) :
              /\ HandleStreamEvents(e, rq1, wq1)
              /\ Notify(Announced(e), {}, {})
       /\ HandleHalfClosed(unread1, known1)
    /\ tosend' = TRUE
    /\ UNCHANGED <<conn, finSent, regout, nextId, dropping, pc, accepted, stop>>

(* The packet is the peer's CONNECTION_CLOSE: nobody is told of it here. *)
WriteClose ==
    /\ conn # "draining"
    /\ conn' = "draining"
    /\ \E e \in Popped(Readable, wq) :
           HandleStreamEvents(e, Readable, wq) /\ Notify(Announced(e), {}, {})
    /\ half' = {s \in half : s \in known /\ ~ (s \in unread /\ s \in fin)}
    /\ unread' = unread \ half
    /\ UNCHANGED <<known, fin, finSent, room, tosend, regout, nextId, dropping, pc,
                   accepted, packets, stop>>

-----------------------------------------------------------------------------
(* stream_recv *)

(* There is something to read. *)
StreamRecv(s) ==
    /\ s \in unread \ half
    /\ Enter(Recv(s), IF s \in fin THEN "done" ELSE "idle")
    /\ unread' = unread \ {s}
    /\ \E e \in Popped(Readable \ {s}, wq) :
           /\ HandleStreamEvents(e, Readable \ {s}, wq)
           /\ Notify(Announced(e) \cup {Reader}, {}, {})
    /\ UNCHANGED <<conn, known, fin, finSent, room, tosend, regout, nextId, dropping,
                   half, accepted, packets, stop>>

(* quiche says Done: stream_recv_wait *)
StreamRecvDone(s) ==
    /\ s \in known \ (unread \cup half)
    /\ Enter(Recv(s), "wait")
    /\ \E e \in Popped(Readable, wq) :
           /\ HandleStreamEvents(e, Readable, wq)
           /\ Notify(Announced(e) \cup {Reader}, {}, {Recv(s)})
    /\ UNCHANGED <<conn, known, unread, fin, finSent, room, tosend, regout, nextId,
                   dropping, half, accepted, packets, stop>>

(* quiche does not know the stream: it was opened here and nothing was sent on
   it yet, or it is gone. *)
StreamRecvUnknown(s) ==
    /\ s \notin known \cup half
    /\ Enter(Recv(s), IF s \in regout THEN "wait" ELSE "done")
    /\ IF s \in regout THEN Notify({Reader}, {}, {Recv(s)}) ELSE UNCHANGED <<waker, notice>>
    /\ UNCHANGED <<quiche, state, accepted, packets, stop>>

-----------------------------------------------------------------------------
(* stream_send *)

(* A stream that quiche can send on; sending on a stream of this side that it
   does not know creates it. *)
CanSend(s) == s \notin half /\ s \notin finSent /\ (s \in known \/ s \in regout)

StreamSend(s) ==
    /\ CanSend(s) /\ s \in room
    /\ Enter(Send(s), "idle")
    /\ known' = known \cup {s}
    /\ regout' = regout \ {s}
    /\ room' \in {room, room \ {s}}
    /\ tosend' = TRUE
    /\ LET wq1 == IF s \in room' THEN wq ELSE wq \ {s} IN
       \E e \in Popped(Readable, wq1) :
           /\ HandleStreamEvents(e, Readable, wq1)
           /\ Notify(Announced(e) \cup {Reader}, {}, {})
    /\ UNCHANGED <<conn, unread, fin, finSent, nextId, dropping, half, accepted, packets,
                   stop>>

(* quiche says Done *)
StreamSendDone(s) ==
    /\ CanSend(s) /\ s \notin room
    /\ Enter(Send(s), "wait")
    /\ \E e \in Popped(Readable, wq) :
           /\ HandleStreamEvents(e, Readable, wq)
           /\ Notify(Announced(e) \cup {Reader}, {}, {Send(s)})
    /\ UNCHANGED <<conn, known, unread, fin, finSent, room, tosend, regout, nextId,
                   dropping, half, accepted, packets, stop>>

(* quiche refuses: the stream is closed or gone, or a new one is beyond the peer's
   limit on streams, and then stays registered. *)
StreamSendErr(s) ==
    /\ s \notin half /\ (CanSend(s) => s \notin known)
    /\ Enter(Send(s), "done")
    /\ UNCHANGED <<quiche, state, waker, notice, accepted, packets, stop>>

-----------------------------------------------------------------------------
(* accept *)

Accept ==
    /\ incoming # <<>>
    /\ Enter(Acceptor, "call")
    /\ accepted' = Append(accepted, Head(incoming))
    /\ incoming' = Tail(incoming)
    /\ UNCHANGED <<quiche, regin, regout, nextId, dropping, half, waker, notice, packets,
                   stop>>

AcceptWait ==
    /\ incoming = <<>>
    /\ Enter(Acceptor, "wait")
    /\ Notify({}, {}, {Acceptor})
    /\ UNCHANGED <<quiche, state, accepted, packets, stop>>

-----------------------------------------------------------------------------
(* The application *)

OpenStream ==
    /\ conn # "draining"
    /\ nextId \in MyStreams
    /\ regout' = regout \cup {nextId}
    /\ nextId' = nextId + 4
    /\ UNCHANGED <<quiche, regin, incoming, dropping, half, waker, notice, pc, accepted,
                   packets, stop>>

(* The streams the application holds. *)
Held == {s \in MyStreams : s < nextId} \cup {accepted[i] : i \in DOMAIN accepted}

Call(o) ==
    /\ o \in Used /\ o[2] \in Held
    /\ Goto(o, "idle", "call")
    /\ UNCHANGED <<quiche, state, waker, notice, accepted, packets, stop>>

(* close_stream: by poll_close, and again when the last QuicStream is dropped.  The
   first does nothing for a stream on which nothing was sent. *)
CloseStream(s) ==
    /\ conn # "draining"
    /\ Closing(s) \in Used /\ s \in Held
    /\ IF s \in regout
       THEN /\ regout' = regout \ {s}
            /\ UNCHANGED <<dropping, waker, notice>>
       ELSE /\ dropping' = dropping \cup {s}
            /\ regout' = regout
            /\ Notify({Reader}, StreamEvents(s), {})
    /\ UNCHANGED <<quiche, regin, nextId, incoming, half, pc, accepted, packets, stop>>

(* stream_shutdown: quiche drops what is unread, and all that comes later. *)
StreamShutdown(s) ==
    /\ Shutdown(s) \in Used /\ s \in Held \ stopping
    /\ stopping' = stopping \cup {s}
    /\ IF s \in known \ shut
       THEN /\ shut' = shut \cup {s}
            /\ unread' = unread \ {s}
            /\ rq' = rq \ {s}
            /\ tosend' \in {tosend, TRUE}
       ELSE UNCHANGED <<shut, unread, rq, tosend>>
    /\ UNCHANGED <<conn, known, fin, finSent, room, wq, state, waker, notice, pc, accepted,
                   packets>>

(* Without the lock, and whatever quiche said, its stream_recv is cancelled. *)
NotifyShutdown(s) ==
    /\ s \in stopping
    /\ stopping' = stopping \ {s}
    /\ Notify({}, {Recv(s)}, {})
    /\ UNCHANGED <<quiche, state, pc, accepted, packets, shut>>

(* close: nobody is told of it. *)
Close ==
    /\ conn = "open"
    /\ conn' = "closing"
    /\ UNCHANGED <<known, unread, fin, finSent, room, rq, wq, tosend, state, waker,
                   notice, pc, accepted, packets, stop>>

-----------------------------------------------------------------------------
ReadLoop ==
    \/ \E gone \in SUBSET dropping : Read(gone) \/ ReadDone(gone)
    \/ ReadTimeout \/ ReadOnTimeout \/ Resume(Reader) \/ FoundClosed(Reader)

RecvOp(s) ==
    \/ StreamRecv(s) \/ StreamRecvDone(s) \/ StreamRecvUnknown(s)
    \/ FoundHalfClosed(Recv(s)) \/ FoundClosed(Recv(s)) \/ Resume(Recv(s))

SendOp(s) ==
    \/ StreamSend(s) \/ StreamSendDone(s) \/ StreamSendErr(s)
    \/ FoundHalfClosed(Send(s)) \/ FoundClosed(Send(s)) \/ Resume(Send(s))

AcceptOp == Accept \/ AcceptWait \/ Resume(Acceptor) \/ FoundClosed(Acceptor)

(* A packet that carries acknowledgements only *)
WriteAck == \E acked \in SUBSET known : Write({}, {}, {}, acked)

Next ==
    \/ ReadLoop \/ AcceptOp
    \/ \E s \in Streams :
           RecvOp(s) \/ SendOp(s) \/ CloseStream(s)
           \/ StreamShutdown(s) \/ NotifyShutdown(s)
           \/ \E o \in StreamEvents(s) : Call(o) \/ ResumeAnew(o)
    \/ WriteAck \/ WriteClose
    \/ \E data \in SUBSET Streams, more \in SUBSET (known \ room) :
           \E last \in SUBSET data : Write(data, last, more, {})
    \/ OpenStream \/ Close

Spec == Init /\ [][Next]_vars

(* The loops and the operations run, waits time out, and acknowledgements of the
   pings read sends keep arriving. *)
FairSpec ==
    /\ Spec
    /\ WF_vars(ReadLoop) /\ WF_vars(WriteAck)
    /\ \A o \in Used \cap {Acceptor} : WF_vars(AcceptOp)
    /\ \A s \in {t \in Streams : Recv(t) \in Used} : WF_vars(RecvOp(s))
    /\ \A s \in {t \in Streams : Send(t) \in Used} : WF_vars(SendOp(s))
    /\ \A s \in {t \in Streams : Shutdown(t) \in Used} : WF_vars(NotifyShutdown(s))

-----------------------------------------------------------------------------
(* The operation waits, and no event has reached it. *)
Waiting(o) == pc[o] = "wait" /\ notice[o] = "none"

(* No event of a stream is lost: while an operation waits for a stream that can
   be read or written, its waker is in place and quiche still has the stream in
   its queue, so that a later handle_stream_events will find it; each call takes
   one event only. *)
NoLostStreamEvent ==
    \A o \in Ops : Waiting(o) =>
        /\ o \in waker
        /\ o[1] = "recv" /\ o[2] \in unread => o[2] \in rq
        /\ o[1] = "send" /\ o[2] \in room => o[2] \in wq
        /\ o = Acceptor => incoming = <<>>

(* Nobody waits in vain.  Nobody waits for a half-closed stream: close_stream
   cancels the operations it finds, handle_dropping_streams those that came later,
   and those that come after that are refused.  And nobody waits once the send loop
   has stopped: whoever saw the connection closed cancelled everybody, and the
   others see it themselves. *)
NobodyWaitsInVain ==
    /\ \A s \in half : ~ Waiting(Recv(s)) /\ ~ Waiting(Send(s))
    /\ pc[Reader] = "done" => \A o \in Ops : ~ Waiting(o)

(* accept returns every stream at most once, and a stream not announced yet is
   still in quiche's queue: however often it becomes readable, also after it was
   closed, handle_quic_incoming_stream queues it once and forgets none. *)
AcceptedOnce ==
    LET all == accepted \o incoming IN
    /\ \A i, j \in DOMAIN all : all[i] = all[j] => i = j
    /\ regin = {all[i] : i \in DOMAIN all}
    /\ \A s \in (unread \cap PeerStreams) \ regin : s \in rq

(* A stream is forgotten only when it is closed on both sides: while it is half
   closed quiche knows it, and one that is no longer dropping or half closed has
   its fin read or was collected. *)
HalfClosedIsDrained ==
    \A s \in finSent : s \in half \/ s \in fin \/ s \notin known

(* Readable streams are served: an operation that waits for a stream with data
   is woken, although each packet hands on one event only. *)
ReadableIsServed ==
    \A s \in {t \in Streams : Recv(t) \in Used} :
        (pc[Recv(s)] = "wait" /\ s \in unread)
            ~> (notice[Recv(s)] # "none" \/ pc[Recv(s)] # "wait")

(* The end of a connection, found by the peer's packet, by a timeout or by
   close, reaches every waiting operation, until nobody waits, although close and write tell
   nobody: the send loop finds out, at the latest when its wait times out.  FairSpec
   assumes that it does time out, as TimeoutReturns of module Timeout says; where
   that fails (AnyTimeoutReturns there), the send loop, and with it everybody
   else, waits for the next packet or operation. *)
CloseReachesWaiters ==
    conn # "open" ~> \A o \in Ops \cap (Used \cup {Reader}) : pc[o] # "wait"

(* close_stream "closes stream by sending len(0) data and fin flag": nobody waits
   for data of a stream of this side that was closed.  It does not hold: nobody
   notifies the reader. *)
CloseEndsRecv ==
    \A s \in MyStreams :
        (s < nextId /\ s \notin regout \cup known) => ~ Waiting(Recv(s))

(* stream_shutdown "notifies blocking stream_recv ops": nobody waits for a stream
   that is no longer read.  It does not hold of a call that comes later. *)
ShutdownEndsRecv == \A s \in shut \ stopping : ~ Waiting(Recv(s))
=============================================================================
