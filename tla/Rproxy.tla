------------------------------- MODULE Rproxy -------------------------------
(***************************************************************************)
(* The reverse proxy, crates/rproxy/src: the accept loop and the tasks it  *)
(* spawns (rproxy.rs), the session each task awaits (utils.rs), and the    *)
(* three listeners (listener/quic.rs, listener/tcp.rs).                    *)
(*                                                                         *)
(* Over QUIC a task accepts connections, a task per connection accepts its *)
(* streams and sends them through a channel(0), and the accept loop        *)
(* receives them.  The channel is external: a sender that sent is parked,  *)
(* the receiver takes the oldest item and unparks a sender (which need not *)
(* be the item's own: senders park before they push), next is None when    *)
(* every sender is gone, and a send to a receiver that is gone fails.      *)
(*                                                                         *)
(* Session shares one result and one waker between its clones, under a     *)
(* spin lock that poll and closed_with hold throughout: each is one step.  *)
(***************************************************************************)
EXTENDS Integers, Sequences, FiniteSets

CONSTANTS
    Kind,        \* the listener: "quic", "tcp" or "tls"
    Conns,       \* connections the peers open
    MaxStreams,  \* streams of each; a TCP connection counts as its one stream
    Results,     \* io::Result<()> values a session is closed with
    None

VARIABLES
    listening,     \* the task that accepts QUIC connections is alive
    conn,          \* of a connection's task: "none", "accept", "send" or "ended"
    accepted,      \* streams of a connection accepted so far
    queue,         \* the items in the channel
    loop,          \* Rproxy::accept: "next", "tls", "stopped" or "dropped"
    task,          \* of a stream's task, see TaskSteps
    closed, waker, \* the SessionFlag of a stream's session
    resumed,       \* tasks whose waker was called
    conns, closed_conns

acceptor == <<listening, conn, accepted, queue, loop>>
session == <<closed, waker, resumed>>
counters == <<conns, closed_conns>>
proxyVars == <<acceptor, task, session, counters>>

Streams == Conns \X (1..MaxStreams)
TaskSteps == {"none", "tls", "lost", "handshake", "error", "count", "poll",
              "parked", "uncount", "addclosed", "ended"}

Accepted(s) == s[2] <= accepted[s[1]]
Sending == {c \in Conns : conn[c] = "send"}

ProxyInit ==
    /\ listening = (Kind = "quic")
    /\ conn = [c \in Conns |-> "none"] /\ accepted = [c \in Conns |-> 0]
    /\ queue = <<>> /\ loop = "next"
    /\ task = [s \in Streams |-> "none"]
    /\ closed = [s \in Streams |-> None] /\ waker = [s \in Streams |-> FALSE]
    /\ resumed = {}
    /\ conns = 0 /\ closed_conns = 0

-----------------------------------------------------------------------------
(* QuicStreamListener. *)

(* listener.accept() gives a connection, or None once it is closed. *)
AcceptConn(c) ==
    /\ listening /\ conn[c] = "none"
    /\ conn' = [conn EXCEPT ![c] = "accept"]
    /\ UNCHANGED <<listening, accepted, queue, loop, task, session, counters>>

ListenerClosed ==
    /\ listening /\ listening' = FALSE
    /\ UNCHANGED <<conn, accepted, queue, loop, task, session, counters>>

(* conn.accept_stream() gives a stream, and sx.send takes it. *)
AcceptStream(c) ==
    /\ conn[c] = "accept" /\ accepted[c] < MaxStreams /\ loop # "dropped"
    /\ accepted' = [accepted EXCEPT ![c] = @ + 1]
    /\ conn' = [conn EXCEPT ![c] = "send"]
    /\ queue' = Append(queue, <<c, accepted[c] + 1>>)
    /\ UNCHANGED <<listening, loop, task, session, counters>>

(* The same when the receiver is gone: the stream is dropped, the task     *)
(* breaks out of its loop.                                                 *)
SendFails(c) ==
    /\ conn[c] = "accept" /\ accepted[c] < MaxStreams /\ loop = "dropped"
    /\ accepted' = [accepted EXCEPT ![c] = @ + 1]
    /\ conn' = [conn EXCEPT ![c] = "ended"]
    /\ task' = [task EXCEPT ![<<c, accepted[c] + 1>>] = "lost"]
    /\ UNCHANGED <<listening, queue, loop, session, counters>>

(* accept_stream() gives None: the connection is closed. *)
ConnClosed(c) ==
    /\ conn[c] = "accept"
    /\ conn' = [conn EXCEPT ![c] = "ended"]
    /\ UNCHANGED <<listening, accepted, queue, loop, task, session, counters>>

-----------------------------------------------------------------------------
(* Rproxy::accept: a task is spawned for each stream the listener gives.   *)

(* QuicStreamListener: receiver.next() gives an item and unparks c. *)
Receive(c) ==
    /\ loop = "next" /\ queue # <<>> /\ c \in Sending
    /\ queue' = Tail(queue)
    /\ conn' = [conn EXCEPT ![c] = "accept"]
    /\ task' = [task EXCEPT ![Head(queue)] = "handshake"]
    /\ UNCHANGED <<listening, accepted, loop, session, counters>>

AllSendersGone == ~listening /\ \A c \in Conns : conn[c] \in {"none", "ended"}

ReceiveNone ==
    /\ Kind = "quic" /\ loop = "next" /\ queue = <<>> /\ AllSendersGone
    /\ loop' = "stopped"
    /\ UNCHANGED <<listening, conn, accepted, queue, task, session, counters>>

(* TcpListener: an accepted connection goes to its task at once, or, with  *)
(* an SslAcceptor, after the loop itself has awaited the TLS handshake.    *)
AcceptTcp(c) ==
    /\ Kind \in {"tcp", "tls"} /\ loop = "next" /\ accepted[c] < MaxStreams
    /\ accepted' = [accepted EXCEPT ![c] = @ + 1]
    /\ loop' = IF Kind = "tls" THEN "tls" ELSE "next"
    /\ task' = [task EXCEPT ![<<c, accepted[c] + 1>>] =
                                IF Kind = "tls" THEN "tls" ELSE "handshake"]
    /\ UNCHANGED <<listening, conn, queue, session, counters>>

TlsHandshaken(s) ==
    /\ loop = "tls" /\ task[s] = "tls" /\ loop' = "next"
    /\ task' = [task EXCEPT ![s] = "handshake"]
    /\ UNCHANGED <<listening, conn, accepted, queue, session, counters>>

(* ssl handshake error: the connection is dropped, the loop continues. *)
TlsFails(s) ==
    /\ loop = "tls" /\ task[s] = "tls" /\ loop' = "next"
    /\ task' = [task EXCEPT ![s] = "lost"]
    /\ UNCHANGED <<listening, conn, accepted, queue, session, counters>>

(* A failed accept ends the loop. *)
AcceptFails ==
    /\ Kind \in {"tcp", "tls"} /\ loop = "next" /\ loop' = "stopped"
    /\ UNCHANGED <<listening, conn, accepted, queue, task, session, counters>>

(* The owner of the accept future drops it, and the listener with it: what *)
(* is queued or in its TLS handshake is dropped.  A sender that waits for  *)
(* its item to be taken is told that all is well; its next send fails.     *)
DropAccept ==
    /\ loop \in {"next", "tls"} /\ loop' = "dropped"
    /\ queue' = <<>>
    /\ task' = [s \in Streams |->
                   IF task[s] \in {"none", "tls"} /\ Accepted(s)
                   THEN "lost" ELSE task[s]]
    /\ conn' = [c \in Conns |-> IF conn[c] = "send" THEN "accept" ELSE conn[c]]
    /\ UNCHANGED <<listening, accepted, session, counters>>

-----------------------------------------------------------------------------
(* Rproxy::handshake, in the task of stream s. *)

ProxyGoto(s, from, to) == task[s] = from /\ task' = [task EXCEPT ![s] = to]

(* The handshaker's future gives a Session or an error. *)
HandshakeOk(s) ==
    ProxyGoto(s, "handshake", "count") /\ UNCHANGED <<acceptor, session, counters>>

HandshakeErr(s) ==
    ProxyGoto(s, "handshake", "error") /\ UNCHANGED <<acceptor, session, counters>>

AddConn(s) ==
    /\ ProxyGoto(s, "count", "poll") /\ conns' = conns + 1
    /\ UNCHANGED <<acceptor, session, closed_conns>>

(* Session::poll. *)
PollReady(s) ==
    /\ closed[s] # None /\ closed' = [closed EXCEPT ![s] = None]
    /\ ProxyGoto(s, "poll", "uncount")
    /\ UNCHANGED <<acceptor, waker, resumed, counters>>

PollPending(s) ==
    /\ closed[s] = None /\ waker' = [waker EXCEPT ![s] = TRUE]
    /\ ProxyGoto(s, "poll", "parked")
    /\ UNCHANGED <<acceptor, closed, resumed, counters>>

(* The executor polls a task that was woken, or for no reason. *)
Run(s) ==
    /\ ProxyGoto(s, "parked", "poll") /\ resumed' = resumed \ {s}
    /\ UNCHANGED <<acceptor, closed, waker, counters>>

SubConn(s) ==
    /\ ProxyGoto(s, "uncount", "addclosed") /\ conns' = conns - 1
    /\ UNCHANGED <<acceptor, session, closed_conns>>

AddClosed(s) ==
    /\ ProxyGoto(s, "addclosed", "ended") /\ closed_conns' = closed_conns + 1
    /\ UNCHANGED <<acceptor, session, conns>>

(* A clone of the session is closed: by the handshaker before it returns   *)
(* the session, or by whoever forwards the stream, at any time and again.  *)
closed_with(s, r) ==
    /\ task[s] \notin {"none", "tls", "lost", "error"}
    /\ closed' = [closed EXCEPT ![s] = r]
    /\ waker' = [waker EXCEPT ![s] = FALSE]
    /\ resumed' = IF waker[s] THEN resumed \cup {s} ELSE resumed
    /\ UNCHANGED <<acceptor, task, counters>>

-----------------------------------------------------------------------------
Listen(c) ==
    \/ AcceptConn(c) \/ AcceptStream(c) \/ SendFails(c) \/ ConnClosed(c)
    \/ Receive(c) \/ AcceptTcp(c)

Serve(s) ==
    \/ TlsHandshaken(s) \/ TlsFails(s) \/ HandshakeOk(s) \/ HandshakeErr(s)
    \/ AddConn(s) \/ PollReady(s) \/ PollPending(s) \/ Run(s)
    \/ SubConn(s) \/ AddClosed(s) \/ \E r \in Results : closed_with(s, r)

ProxyNext ==
    \/ \E c \in Conns : Listen(c)
    \/ ListenerClosed \/ ReceiveNone \/ AcceptFails \/ DropAccept
    \/ \E s \in Streams : Serve(s)

ProxySpec == ProxyInit /\ [][ProxyNext]_proxyVars

-----------------------------------------------------------------------------
(* Properties. *)

(* quic.rs: no stream is forgotten between the task that accepts it and    *)
(* the one that serves it.  An accepted stream without a task is in the    *)
(* channel, what is in the channel has no task yet and is there once, and  *)
(* a loop that ended by itself left none behind.                           *)
NoStreamForgotten ==
    /\ \A s \in Streams :
           Accepted(s) /\ task[s] = "none" => \E i \in DOMAIN queue : queue[i] = s
    /\ \A i, j \in DOMAIN queue :
           task[queue[i]] = "none" /\ (queue[i] = queue[j] => i = j)
    /\ loop = "stopped" => queue = <<>>

(* quic.rs: channel(0) holds the connections back.  There are as many      *)
(* streams under way to the accept loop as connection tasks that wait.     *)
BackPressure == Len(queue) = Cardinality(Sending)

(* rproxy.rs: stats.  conns counts the sessions that are awaited, and      *)
(* closed_conns those that ended, whatever the tasks interleave; a failed  *)
(* handshake is in neither, a session between the two for one step.        *)
Awaited == {s \in Streams : task[s] \in {"poll", "parked", "uncount"}}
Ended == {s \in Streams : task[s] = "ended"}

StatsFollowTasks ==
    conns = Cardinality(Awaited) /\ closed_conns = Cardinality(Ended)

(* utils.rs: a task that sleeps on a session has its waker stored and no   *)
(* result to miss, or was woken: no closed_with falls between its look at  *)
(* the result and its going to sleep.                                      *)
NoLostClose ==
    \A s \in Streams :
        task[s] = "parked" /\ s \notin resumed => waker[s] /\ closed[s] = None
=============================================================================
