---------------------------- MODULE QuicListener ----------------------------
(***************************************************************************)
(* hala-quic, src/state/listener.rs and src/listener.rs: the state machine *)
(* of a QUIC server, its receive loop (udp -> write), its send loop        *)
(* (read -> udp), and the calls of accept and close.                       *)
(*                                                                         *)
(* The acceptor's lock is taken by the receive loop alone, so a handshake  *)
(* is one step.  The EventMap and the FutureBatcher are taken at their     *)
(* promise (modules EventMap and FutureBatcher): the waker is stored       *)
(* before the lock is released, and a result of a pushed future is handed  *)
(* out once.  A connection is named by its client: the source id of the    *)
(* server's side is the destination id of all packets the client sends     *)
(* after the Retry.  quiche and the network are external.                  *)
(***************************************************************************)
EXTENDS Integers, Sequences, FiniteSets

CONSTANTS Clients,     \* the clients, and the connection ids of the server
          Acceptors,   \* the tasks calling accept
          Closers,     \* the tasks calling close
          Nobody,      \* no task, or no client
          Duplicates,  \* whether the network delivers old packets again
          Faulty       \* whether quiche refuses packets and the sockets fail

ASSUME NobodyAssumption == Nobody \notin Clients \cup Acceptors \cup Closers
ASSUME FlagAssumption == Duplicates \in BOOLEAN /\ Faulty \in BOOLEAN

VARIABLES
    closed,     \* closed: AtomicBool
    incoming,   \* incoming: Some(queue), or "none" once it is dropped
    pre,        \* pre_established_conns
    conns,      \* conns
    reads,      \* conns_read: the read future of each connection
    batchEnd,   \* conns_read has been closed
    waker,      \* mediator: the acceptor to be woken by Incoming
    woken,      \* the reason each acceptor was woken for since it began to wait
    pc,         \* the next step of each acceptor and closer
    got,        \* history: the connections accept has returned, in order
    rpc, rcon,  \* the receive loop: its next step, its connection
    spc, scon,  \* the send loop: its next step, its connection
    sent,       \* the network: what each client has sent
    dropped     \* history: the replies that were never forwarded

listener == <<closed, incoming, pre, conns, reads, batchEnd, waker>>
tasks == <<woken, pc, got>>
recv == <<rpc, rcon>>
send == <<spc, scon>>
vars == <<listener, tasks, recv, send, sent, dropped>>

(* In the order in which a client sends them: Initial without and with the
   token of the Retry, the rest of the handshake, data. *)
Packets == {"initial", "token", "handshake", "data"}

TypeOK ==
    /\ closed \in BOOLEAN
    /\ incoming \in [dropped : BOOLEAN, queue : Seq(Clients)]
    /\ pre \in SUBSET Clients /\ conns \in SUBSET Clients
    /\ reads \in [Clients -> {"none", "pending", "ok", "err"}]
    /\ batchEnd \in BOOLEAN
    /\ waker \in Acceptors \cup {Nobody}
    /\ woken \in [Acceptors -> {"none", "On"}]
    /\ pc \in [Acceptors \cup Closers -> {"idle", "call", "wait", "drop", "end"}]
    /\ got \in Seq(Clients)
    /\ rpc \in {"recv", "insert", "queue", "notify", "batch", "stopped"}
    /\ rcon \in Clients \cup {Nobody}
    /\ spc \in {"status", "wait", "ok", "err", "send", "stopped"}
    /\ scon \in Clients \cup {Nobody}
    /\ sent \in [Clients -> SUBSET Packets]
    /\ dropped \in SUBSET Clients

Init ==
    /\ closed = FALSE
    /\ incoming = [dropped |-> FALSE, queue |-> <<>>]
    /\ pre = {} /\ conns = {}
    /\ reads = [c \in Clients |-> "none"]
    /\ batchEnd = FALSE
    /\ waker = Nobody
    /\ woken = [t \in Acceptors |-> "none"]
    /\ pc = [t \in Acceptors \cup Closers |-> IF t \in Acceptors THEN "call" ELSE "idle"]
    /\ got = <<>>
    /\ rpc = "recv" /\ rcon = Nobody
    /\ spc = "status" /\ scon = Nobody
    /\ sent = [c \in Clients |-> {"initial"}]
    /\ dropped = {}

Goto(t, from, to) ==
    /\ pc[t] = from
    /\ pc' = [pc EXCEPT ![t] = to]

(* mediator.notify_one(Incoming, reason) *)
NotifyIncoming(reason) ==
    /\ waker' = Nobody
    /\ woken' = [t \in Acceptors |-> IF t = waker THEN reason ELSE woken[t]]

-----------------------------------------------------------------------------
(* The receive loop.  A packet is delivered and the status is checked. *)

Latest(c, p) ==
    CASE p = "initial" -> sent[c] = {"initial"}
      [] p = "token" -> "handshake" \notin sent[c]
      [] OTHER -> TRUE

(* A packet of the client is in the buffer, *)
Delivered(c, p) ==
    /\ rpc = "recv"
    /\ p \in sent[c]
    /\ Duplicates \/ Latest(c, p)

(* and the listener is open, *)
Receive(c, p) == Delivered(c, p) /\ ~ closed

(* or closed, which the loop only learns from a packet. *)
RecvClosed ==
    /\ closed
    /\ \E c \in Clients, p \in Packets : Delivered(c, p)
    /\ rpc' = "stopped"
    /\ UNCHANGED <<listener, tasks, rcon, send, sent, dropped>>

(* recv_from fails, or the sending of the answer to the last packet. *)
RecvErr ==
    /\ Faulty
    /\ rpc = "recv"
    /\ rpc' = "stopped"
    /\ UNCHANGED <<listener, tasks, rcon, send, sent, dropped>>

(* handshake fails, and with it the loop: the header, the token or the packet
   is refused.  A connection that was being established is lost. *)
HandshakeErr ==
    /\ Faulty
    /\ rpc = "recv" /\ ~ closed
    /\ rpc' = "stopped"
    /\ pre' \in {pre} \cup {pre \ {c} : c \in pre}
    /\ UNCHANGED <<closed, incoming, conns, reads, batchEnd, waker, tasks, rcon, send, sent,
                   dropped>>

(* client_hello without a token, whose destination id is not the server's: the
   Retry is sent back. *)
Retry(c) ==
    /\ Receive(c, "initial")
    /\ sent' = [sent EXCEPT ![c] = @ \cup {"token"}]
    /\ UNCHANGED <<listener, tasks, recv, send, dropped>>

(* client_hello with the token: a connection is accepted and answers.  quiche
   establishes none by the first packet. *)
ClientHello(c) ==
    /\ Receive(c, "token")
    /\ c \notin pre
    /\ pre' = pre \cup {c}
    /\ sent' = [sent EXCEPT ![c] = @ \cup {"handshake", "data"}]
    /\ UNCHANGED <<closed, incoming, conns, reads, batchEnd, waker, tasks, recv, send, dropped>>

(* A packet for a connection that is being established and remains so. *)
PreEstablished(c) ==
    /\ \E p \in Packets \ {"initial"} : Receive(c, p)
    /\ c \in pre
    /\ UNCHANGED vars

(* The packet completes the handshake.  quiche may have an answer, which the
   loop takes from the buffer for the Internal result only. *)
Established(c) ==
    /\ Receive(c, "handshake")
    /\ c \in pre
    /\ pre' = pre \ {c}
    /\ rpc' = "insert" /\ rcon' = c
    /\ dropped' \in {dropped, dropped \cup {c}}
    /\ UNCHANGED <<closed, incoming, conns, reads, batchEnd, waker, tasks, send, sent>>

(* Any other packet is for an established connection, if there is one. *)
Unhandled(c) ==
    /\ \E p \in {"handshake", "data"} : Receive(c, p)
    /\ c \notin pre
    /\ conns' \in IF c \in conns THEN {conns, conns \ {c}} ELSE {conns}
    /\ UNCHANGED <<closed, incoming, pre, reads, batchEnd, waker, tasks, recv, send, sent,
                   dropped>>

(* self.conns.insert(scid, conn) *)
InsertConn ==
    /\ rpc = "insert"
    /\ conns' = conns \cup {rcon}
    /\ rpc' = "queue"
    /\ UNCHANGED <<closed, incoming, pre, reads, batchEnd, waker, tasks, rcon, send, sent,
                   dropped>>

(* incoming.lock(): the connection is queued, or the queue is gone and the loop
   ends. *)
QueueConn ==
    /\ rpc = "queue"
    /\ IF incoming.dropped
       THEN rpc' = "stopped" /\ UNCHANGED incoming
       ELSE /\ incoming' = [incoming EXCEPT !.queue = Append(@, rcon)]
            /\ rpc' = "notify"
    /\ UNCHANGED <<closed, pre, conns, reads, batchEnd, waker, tasks, rcon, send, sent,
                   dropped>>

(* Mutant: nobody is told of the connection. *)
NotifyNobody ==
    /\ rpc = "notify"
    /\ rpc' = "batch"
    /\ UNCHANGED <<listener, tasks, rcon, send, sent, dropped>>

NotifyConn ==
    /\ rpc = "notify"
    /\ rpc' = "batch"
    /\ NotifyIncoming("On")
    /\ UNCHANGED <<closed, incoming, pre, conns, reads, batchEnd, pc, got, rcon, send, sent,
                   dropped>>

(* batch_read(conn) *)
BatchRead ==
    /\ rpc = "batch"
    /\ reads' = [reads EXCEPT ![rcon] = "pending"]
    /\ rpc' = "recv" /\ rcon' = Nobody
    /\ UNCHANGED <<closed, incoming, pre, conns, batchEnd, waker, tasks, send, sent, dropped>>

-----------------------------------------------------------------------------
(* The send loop *)

(* A connection has a packet to send, or has ended. *)
ConnReady(c) ==
    /\ reads[c] = "pending"
    /\ \E r \in {"ok", "err"} : reads' = [reads EXCEPT ![c] = r]
    /\ UNCHANGED <<closed, incoming, pre, conns, batchEnd, waker, tasks, recv, send, sent,
                   dropped>>

(* handle_listener_statuts at the start of read *)
ReadStatus ==
    /\ spc = "status"
    /\ spc' = IF closed THEN "stopped" ELSE "wait"
    /\ UNCHANGED <<listener, tasks, recv, scon, sent, dropped>>

(* conns_read.wait() returns a result; *)
ReadResult(c) ==
    /\ spc = "wait" /\ ~ batchEnd
    /\ reads[c] \in {"ok", "err"}
    /\ spc' = reads[c] /\ scon' = c
    /\ reads' = [reads EXCEPT ![c] = "none"]
    /\ UNCHANGED <<closed, incoming, pre, conns, batchEnd, waker, tasks, recv, sent, dropped>>

(* or None. *)
ReadNone ==
    /\ spc = "wait" /\ batchEnd
    /\ spc' = IF closed THEN "stopped" ELSE "wait"
    /\ UNCHANGED <<listener, tasks, recv, scon, sent, dropped>>

(* The read of a connection failed: the connection is removed. *)
ReadErr ==
    /\ spc = "err"
    /\ spc' = IF closed THEN "stopped" ELSE "wait"
    /\ conns' = IF closed THEN conns ELSE conns \ {scon}
    /\ scon' = Nobody
    /\ UNCHANGED <<closed, incoming, pre, reads, batchEnd, waker, tasks, recv, sent, dropped>>

(* Mutant: the connection is not read again. *)
ReadOkOnce ==
    /\ spc = "ok"
    /\ spc' = IF closed THEN "stopped" ELSE "send"
    /\ scon' = Nobody
    /\ UNCHANGED <<listener, tasks, recv, sent, dropped>>

(* A packet was read: the connection is read again, *)
ReadOk ==
    /\ spc = "ok"
    /\ spc' = IF closed THEN "stopped" ELSE "send"
    /\ reads' = IF closed THEN reads ELSE [reads EXCEPT ![scon] = "pending"]
    /\ scon' = Nobody
    /\ UNCHANGED <<closed, incoming, pre, conns, batchEnd, waker, tasks, recv, sent, dropped>>

(* and the packet is sent; an error of the socket ends the loop. *)
SendOut ==
    /\ spc = "send"
    /\ spc' \in {"status"} \cup (IF Faulty THEN {"stopped"} ELSE {})
    /\ UNCHANGED <<listener, tasks, recv, scon, sent, dropped>>

-----------------------------------------------------------------------------
(* accept *)

(* Mutant: the connection remains in the queue. *)
AcceptPeek(t) ==
    /\ ~ incoming.dropped /\ incoming.queue # <<>>
    /\ Goto(t, "call", "end")
    /\ got' = Append(got, Head(incoming.queue))
    /\ UNCHANGED <<listener, woken, recv, send, sent, dropped>>

AcceptConn(t) ==
    /\ ~ incoming.dropped /\ incoming.queue # <<>>
    /\ Goto(t, "call", "call")
    /\ got' = Append(got, Head(incoming.queue))
    /\ incoming' = [incoming EXCEPT !.queue = Tail(@)]
    /\ UNCHANGED <<closed, pre, conns, reads, batchEnd, waker, woken, recv, send, sent,
                   dropped>>

AcceptNone(t) ==
    /\ incoming.dropped
    /\ Goto(t, "call", "end")
    /\ UNCHANGED <<listener, woken, got, recv, send, sent, dropped>>

(* mediator.wait(Incoming, incoming), which takes the place of another waiter *)
AcceptWait(t) ==
    /\ ~ incoming.dropped /\ incoming.queue = <<>>
    /\ Goto(t, "call", "wait")
    /\ waker' = t
    /\ woken' = [woken EXCEPT ![t] = "none"]
    /\ UNCHANGED <<closed, incoming, pre, conns, reads, batchEnd, got, recv, send, sent,
                   dropped>>

(* .expect("Please always use `event_map::Reason::On` to notify me!!") *)
AcceptWoken(t) ==
    /\ woken[t] # "none"
    /\ Goto(t, "wait", IF woken[t] = "On" THEN "call" ELSE "panic")
    /\ woken' = [woken EXCEPT ![t] = "none"]
    /\ UNCHANGED <<listener, got, recv, send, sent, dropped>>

-----------------------------------------------------------------------------
(* close *)

(* The compare_exchange: the first call goes on to drop the queue, a later one
   closes conns_read. *)
CloseFlag(t) ==
    /\ Goto(t, "idle", IF closed THEN "end" ELSE "drop")
    /\ closed' = TRUE
    /\ batchEnd' = (batchEnd \/ closed)
    /\ UNCHANGED <<incoming, pre, conns, reads, waker, woken, got, recv, send, sent, dropped>>

(* Mutant: nobody is told that the queue is gone. *)
CloseQueueQuietly(t) ==
    /\ Goto(t, "drop", "end")
    /\ incoming' = [dropped |-> TRUE, queue |-> <<>>]
    /\ UNCHANGED <<closed, pre, conns, reads, batchEnd, waker, woken, got, recv, send,
                   sent, dropped>>

CloseQueue(t) ==
    /\ Goto(t, "drop", "end")
    /\ incoming' = [dropped |-> TRUE, queue |-> <<>>]
    /\ NotifyIncoming("On")
    /\ UNCHANGED <<closed, pre, conns, reads, batchEnd, got, recv, send, sent, dropped>>

-----------------------------------------------------------------------------
RecvLoop == InsertConn \/ QueueConn \/ NotifyConn \/ BatchRead

SendLoop ==
    \/ ReadStatus \/ (\E c \in Clients : ReadResult(c)) \/ ReadNone \/ ReadErr \/ ReadOk
    \/ SendOut

AcceptOp(t) == AcceptConn(t) \/ AcceptNone(t) \/ AcceptWait(t) \/ AcceptWoken(t)

Next ==
    \/ RecvLoop \/ RecvClosed \/ RecvErr \/ HandshakeErr \/ SendLoop
    \/ \E c \in Clients :
           Retry(c) \/ ClientHello(c) \/ PreEstablished(c) \/ Established(c)
           \/ Unhandled(c) \/ ConnReady(c)
    \/ \E t \in Acceptors : AcceptOp(t)
    \/ \E t \in Closers : CloseFlag(t) \/ CloseQueue(t)

Spec == Init /\ [][Next]_vars

(* The loops, the accept calls and a call of close that has begun go on, and a
   socket takes what it is given to send; no packet need arrive, so that the
   receive loop of a closed listener may stay in recv_from, and no connection need
   have anything to send. *)
FairSpec ==
    /\ Spec
    /\ WF_vars(RecvLoop) /\ WF_vars(SendLoop)
    /\ \A t \in Acceptors : WF_vars(AcceptOp(t))
    /\ \A t \in Closers : WF_vars(CloseQueue(t))

-----------------------------------------------------------------------------
(* An established connection is never forgotten: as long as the listener is
   open and the connection is in the map, the batcher has its read future, or
   one of the two loops holds it and is about to push it.  (A socket that fails
   ends the loop that would have polled the future.) *)
ConnIsRead ==
    ~ closed => \A c \in conns : reads[c] # "none" \/ c \in {rcon, scon}

(* Every connection is queued for accept once, and returned in that order; as
   long as the queue exists, none that is read is missing from it. *)
QueuedOnce ==
    LET all == got \o incoming.queue IN
    /\ \A i, j \in DOMAIN all : all[i] = all[j] => i = j
    /\ \A c \in Clients :
           ~ incoming.dropped /\ reads[c] # "none" => c \in {all[i] : i \in DOMAIN all}

(* A waiting accept misses nothing: while it is the one in the EventMap, the
   queue exists and is empty, or the receive loop is about to notify it. *)
NoLostIncoming ==
    \A t \in Acceptors : pc[t] = "wait" /\ waker = t =>
        ~ incoming.dropped /\ (incoming.queue = <<>> \/ rpc = "notify")

(* A listener that is closed ends its accept: Incoming is notified after the
   queue is dropped, under its lock. *)
AcceptEnds ==
    \A t \in Acceptors : closed ~> pc[t] = "end"

(* listener.rs: "this is pre-establishing conn packet".  What is looked up in
   pre_established_conns is not the packet of an established connection.  It does
   not hold: a late Initial makes a new connection under the id of that one. *)
EstablishedIsNotShadowed == pre \cap conns = {}

(* close, "try wakeup read future": once the listener is closed its send loop
   ends.  It does not hold: only a second close closes conns_read. *)
SendLoopEnds == closed ~> spc = "stopped"

(* "Must handle internal data forward": the receive loop forwards what the state
   machine answers.  It does not hold: only the answers of an Internal result
   are sent. *)
RepliesAreForwarded == dropped = {}
=============================================================================
