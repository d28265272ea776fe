------------------------------ MODULE ConnPool ------------------------------
(***************************************************************************)
(* hala-quic, src/conn_pool.rs: the pool of client connections behind an   *)
(* AsyncSpinMutex.  The task that owns the mutex (AsyncMutex) looks at the *)
(* connections of the pool one by one, waiting for the lock of each, and   *)
(* opens a stream on the first that has one left, or on a new connection.  *)
(* It holds the mutex all the time, and may be dropped at any await.       *)
(* Between its steps the connections live on: a stream is known to quiche  *)
(* when it is first sent on, the peer grants streams, connections close.   *)
(* The i-th stream of a connection has the id 4 * i, or 4 * i + 1 at the   *)
(* server: lastest_outgoing_stream_id starts at 4 or 5.  quiche counts by  *)
(* id: the first send on the i-th opens the i + 1 ids up to it, the one    *)
(* that is never used and those that are skipped included.                 *)
(***************************************************************************)
EXTENDS AsyncMutex, FiniteSets, Sequences

CONSTANTS Conns,        \* the connections, by source id
          NoConn,
          MaxConns,     \* max_conns
          MaxStreams,   \* initial_max_streams_bidi of the peer
          MaxGone       \* bound on the streams of a connection that are finished, or
                        \* closed before they were sent on

ASSUME NoConnAssumption == NoConn \notin Conns
ASSUME PoolAssumption ==
    MaxConns \in Nat /\ MaxGone \in Nat /\ MaxStreams \in Nat \ {0}

VARIABLES conns,    \* RawConnPool.conns
          state,    \* each connection: "new", "open" or "closed"
          streams,  \* what became of each of its streams, in the order of their ids
          opened,   \* quiche: local_opened_streams_bidi
          stage,    \* where the owner of the mutex is in open_stream
          todo,     \* the connections the loop has not looked at
          closed,   \* `closed` of the loop
          conn      \* the connection looked at, or found

quiche == <<state, streams, opened>>
call == <<stage, todo, closed, conn>>
poolVars == <<conns, quiche, call>>
allVars == <<vars, poolVars>>

(* A stream is open while its id is in register_outgoing_stream_ids, sent once it
   has been sent on, closed when it was closed before that, closing when it was
   closed once more and quiche made it in order to send its fin. *)
Status == {"open", "sent", "closed", "closing", "finished"}

(* The streams of a connection below the n-th that are in one of the states S *)
Below(s, n, S) == {i \in 1 .. (n - 1) : s[i] \in S}
Number(c, S) == Cardinality(Below(streams[c], Len(streams[c]) + 1, S))

(* quiche: peer_max_streams_bidi.  The peer grants a stream for each that is finished. *)
Limit(c) == MaxStreams + Number(c, {"finished"})

(* quiche: peer_streams_left_bidi *)
Left(c) == Limit(c) - opened[c]

PoolTypeOK ==
    /\ TypeOK
    /\ conns \in SUBSET Conns
    /\ state \in [Conns -> {"new", "open", "closed"}]
    /\ streams \in [Conns -> Seq(Status)]
    /\ opened \in [Conns -> Nat]
    /\ stage \in {"begin", "next", "left", "connect", "open", "done"}
    /\ todo \in SUBSET Conns /\ closed \in SUBSET Conns
    /\ conn \in Conns \cup {NoConn}

PoolInit ==
    /\ Init
    /\ conns = {}
    /\ state = [c \in Conns |-> "new"]
    /\ streams = [c \in Conns |-> << >>]
    /\ opened = [c \in Conns |-> 0]
    /\ stage = "begin"
    /\ todo = {} /\ closed = {}
    /\ conn = NoConn

(* The owner of the mutex takes a step of open_stream. *)
Owner(from, to) ==
    /\ owner # Nobody
    /\ pc[owner] = "owner"
    /\ stage = from
    /\ stage' = to
    /\ UNCHANGED vars

-----------------------------------------------------------------------------
(* open_stream and find_avalid_conn *)

Begin ==
    /\ Owner("begin", "next")
    /\ todo' = conns
    /\ UNCHANGED <<conns, quiche, closed, conn>>

(* if conn.is_closed().await { closed.push(id.clone()); continue } *)
IsClosed(c) ==
    /\ c \in todo
    /\ Owner("next", IF state[c] = "closed" THEN "next" ELSE "left")
    /\ todo' = todo \ {c}
    /\ closed' = IF state[c] = "closed" THEN closed \cup {c} ELSE closed
    /\ conn' = IF state[c] = "closed" THEN NoConn ELSE c
    /\ UNCHANGED <<conns, quiche>>

(* Mutant: the streams that were not sent on yet are not counted. *)
PeerStreamsLeftBare(c) == Left(c)

(* Mutant: none is kept back for the id that is not used. *)
PeerStreamsLeftAll(c) ==
    IF Left(c) > Number(c, {"open"}) THEN Left(c) - Number(c, {"open"}) ELSE 0

(* peer_streams_left_bidi: the streams not sent on yet are subtracted, and one
   more as long as quiche has not seen a stream *)
PeerStreamsLeft(c) ==
    LET cached == Number(c, {"open"})
    IN  CASE Left(c) <= cached -> 0
          [] Left(c) > cached /\ Left(c) = MaxStreams -> Left(c) - cached - 1
          [] Left(c) > cached /\ Left(c) # MaxStreams -> Left(c) - cached

(* conn.peer_streams_left_bidi().await; a connection closed by now still has an
   answer, which says nothing *)
LeftBidi ==
    /\ stage = "left"
    /\ \E room \in IF state[conn] = "open" THEN {PeerStreamsLeft(conn) > 0} ELSE BOOLEAN :
           /\ Owner("left", IF room THEN "open" ELSE "next")
           /\ conn' = IF room THEN conn ELSE NoConn
    /\ UNCHANGED <<conns, quiche, todo, closed>>

(* Mutant: every connection the loop has looked at is removed. *)
RemoveClosedAll ==
    /\ todo = {}
    /\ conns' = {}
    /\ Owner("next", "connect")
    /\ closed' = {}
    /\ UNCHANGED <<quiche, todo, conn>>

(* The connections found closed are removed, and their names are free for new
   ones; WouldBlock if the pool is full. *)
RemoveClosed ==
    /\ todo = {}
    /\ conns' = conns \ closed
    /\ Owner("next", IF Cardinality(conns') >= MaxConns THEN "done" ELSE "connect")
    /\ state' = [c \in Conns |-> IF c \in closed THEN "new" ELSE state[c]]
    /\ closed' = {}
    /\ UNCHANGED <<streams, opened, todo, conn>>

(* QuicConn::connect has made a connection, which is inserted; or its error *)
Connect ==
    /\ \E c \in Conns : state[c] = "new"
    /\ Owner("connect", "open")
    /\ conn' = CHOOSE c \in Conns : state[c] = "new"
    /\ state' = [state EXCEPT ![conn'] = "open"]
    /\ conns' = conns \cup {conn'}
    /\ UNCHANGED <<streams, opened, todo, closed>>

ConnectErr ==
    /\ Owner("connect", "done")
    /\ UNCHANGED <<conns, quiche, todo, closed, conn>>

(* conn.open_stream().await: a new id, unless the connection has been closed *)
OpenStream ==
    /\ Owner("open", "done")
    /\ streams' = IF state[conn] = "open"
                    THEN [streams EXCEPT ![conn] = Append(@, "open")]
                    ELSE streams
    /\ conn' = NoConn
    /\ UNCHANGED <<conns, state, opened, todo, closed>>

(* The guard is dropped: open_stream has returned, or its future is dropped at an
   await, and the locals with it. *)
Release(t) ==
    /\ stage # "begin"
    /\ Unlock(t)
    /\ stage' = "begin"
    /\ todo' = {} /\ closed' = {} /\ conn' = NoConn
    /\ UNCHANGED <<conns, quiche>>

-----------------------------------------------------------------------------
(* The connections: a stream is sent on, closed before that and perhaps again
   (poll_close, then the Drop of the last handle), finished, which lets the peer
   grant another; a connection is closed. *)

(* quiche makes the i-th stream of a connection, unless its id is beyond the limit:
   StreamLimit, which leaves everything as it was. *)
Make(c, i, was, is) ==
    /\ state[c] = "open"
    /\ i \in DOMAIN streams[c] /\ streams[c][i] = was
    /\ i < Limit(c)
    /\ streams' = [streams EXCEPT ![c][i] = is]
    /\ opened' = [opened EXCEPT ![c] = IF i < @ THEN @ ELSE i + 1]
    /\ UNCHANGED <<vars, conns, state, call>>

SendFirst(c, i) == Make(c, i, "open", "sent")

(* handle_dropping_streams sends the fin of a stream that quiche does not know. *)
CloseAgain(c, i) == Make(c, i, "closed", "closing")

MayGo(c) == Number(c, {"closed", "closing", "finished"}) < MaxGone

(* close_stream takes the id out of register_outgoing_stream_ids. *)
CloseUnsent(c, i) ==
    /\ MayGo(c)
    /\ state[c] = "open"
    /\ i \in DOMAIN streams[c] /\ streams[c][i] = "open"
    /\ streams' = [streams EXCEPT ![c][i] = "closed"]
    /\ UNCHANGED <<vars, conns, state, opened, call>>

Finish(c, i) ==
    /\ state[c] = "open"
    /\ i \in DOMAIN streams[c]
    /\ streams[c][i] = "closing" \/ (streams[c][i] = "sent" /\ MayGo(c))
    /\ streams' = [streams EXCEPT ![c][i] = "finished"]
    /\ UNCHANGED <<vars, conns, state, opened, call>>

(* Every operation on the streams of a closed connection fails, and nobody looks at
   their number again. *)
CloseConn(c) ==
    /\ state[c] = "open"
    /\ state' = [state EXCEPT ![c] = "closed"]
    /\ streams' = [streams EXCEPT ![c] = << >>]
    /\ opened' = [opened EXCEPT ![c] = 0]
    /\ UNCHANGED <<vars, conns, call>>

-----------------------------------------------------------------------------
(* lock().await: the mutex alone moves *)
Wait(t) ==
    /\ Lock(t) \/ Repoll(t) \/ Abandon(t) \/ SpuriousWake(t) \/ Resume(t)
    /\ UNCHANGED poolVars

StreamStep(c, i) ==
    SendFirst(c, i) \/ CloseUnsent(c, i) \/ CloseAgain(c, i) \/ Finish(c, i)

PoolStep ==
    \/ Begin \/ LeftBidi \/ RemoveClosed \/ Connect \/ ConnectErr \/ OpenStream
    \/ \E c \in Conns : IsClosed(c)

PoolNext ==
    \/ PoolStep
    \/ \E t \in Tasks : Wait(t) \/ Release(t)
    \/ \E c \in Conns : CloseConn(c) \/ \E i \in DOMAIN streams[c] : StreamStep(c, i)

PoolSpec == PoolInit /\ [][PoolNext]_allVars

(* The owner's call goes on (connect returns, QuicConnect) and drops its guard when
   it is over; threads keep running, and the executor polls a woken task again. *)
PoolFairSpec ==
    /\ PoolSpec
    /\ WF_allVars(PoolStep \/ (stage = "done" /\ \E t \in Tasks : Release(t)))
    /\ \A t \in Tasks :
           /\ WF_allVars(Resume(t) /\ UNCHANGED poolVars)
           /\ WF_allVars(Repoll(t) /\ UNCHANGED poolVars)

-----------------------------------------------------------------------------
(* A stream of the pool can be used: its id is within the peer's limit, but for
   the streams of lower ids that were closed before they were sent on.  Each of these
   takes an id for good, for which peer_streams_left_bidi does not allow.  It holds
   whatever happens to the connection between the look at it and the opening, in
   whichever order the streams are sent on first, and whichever calls wait for the
   mutex or are dropped. *)
StreamCanSend ==
    \A c \in Conns : \A i \in DOMAIN streams[c] :
        state[c] = "open" /\ streams[c][i] = "open"
            => i < Limit(c) + Cardinality(Below(streams[c], i, {"closed", "closing"}))

(* peer_streams_left_bidi: "Adjusted peer_streams_left_bidi according to
   register_outgoing_stream_ids", so that every stream opened can be sent on.  It
   does not hold after a stream was closed that had not been sent on. *)
EveryStreamCanSend ==
    \A c \in Conns : \A i \in DOMAIN streams[c] :
        state[c] = "open" /\ streams[c][i] = "open" => i < Limit(c)

(* open_stream: WouldBlock "if the number of opening streams has reached its
   limit = `(max_streams_bidi-1) * max_conns`".  A connection has at most
   max_streams_bidi - 1 streams in use, sent on or not, whichever are closed unsent. *)
StreamLimit ==
    \A c \in Conns :
        state[c] = "open" => Number(c, {"open", "sent"}) < MaxStreams

(* No connection is lost from the pool, and none but the pool's is used: those
   that are open are among its members, and they are at most max_conns. *)
OpenIsPooled ==
    /\ \A c \in Conns : state[c] = "open" => c \in conns
    /\ Cardinality(conns) <= MaxConns
=============================================================================
