----------------------------- MODULE QuicProofs -----------------------------
(***************************************************************************)
(* Proofs about the two ends of a new connection of hala-quic.  The buffer *)
(* of a UdpGroup is safe whatever its one caller does, and                 *)
(* QuicConn::connect with its receive loop is such a caller.  The          *)
(* listener, for every set of clients and of tasks that accept: what it    *)
(* accepts is read, queued and announced.                                  *)
(*                                                                         *)
(* The buffer changes hands along a call: it is in batching_read_buf while *)
(* wait looks for a future, with the poll while that runs, and freed when  *)
(* the call returns.  A call that was given up leaves it behind, which is  *)
(* why GroupOK says nothing of buf at "idle" but that it is the only box.  *)
(***************************************************************************)
EXTENDS QuicConnect, QuicListener, TLAPS

-----------------------------------------------------------------------------
(* UdpGroup and connect *)

GroupOK ==
    /\ at \in Steps
    /\ buf \in Boxes \cup {Null}
    /\ mine \in Boxes \cup {Null}
    /\ NoLeak
    /\ at \in {"wait", "parked"} => buf = target /\ buf # Null
    /\ at = "cntl" => buf = Null /\ mine = target /\ mine # Null
    /\ at # "cntl" => mine = Null
    /\ at = "push" => buf = Null

(* None of the assertions of push_batch_read on the pointer fails: a poll finds
   the buffer there, and its place empty when it puts the buffer back. *)
AssertionsHold == at # "panic"

LEMMA GroupOKInit == GroupInit => GroupOK
  BY Zenon DEF GroupInit, GroupOK, NoLeak, Steps

LEMMA GroupOKNext == GroupOK /\ [GroupNext]_groupVars => GroupOK'
<1> SUFFICES ASSUME GroupOK, [GroupNext]_groupVars PROVE GroupOK'
  BY Zenon
<1>1. CASE RecvFrom
  BY Zenon, <1>1, NullAssumption DEF RecvFrom, GroupGoto, GroupOK, NoLeak, Steps
<1>2. CASE PollTake
  BY Zenon, <1>2 DEF PollTake, GroupGoto, GroupOK, NoLeak, Steps
<1>3. CASE PollReady
  BY Zenon, <1>3 DEF PollReady, GroupGoto, GroupOK, NoLeak, Steps
<1>4. CASE PollBlock
  BY Zenon, <1>4 DEF PollBlock, GroupGoto, GroupOK, NoLeak, Steps
<1>5. CASE Park
  BY Zenon, <1>5 DEF Park, GroupGoto, GroupOK, NoLeak, Steps
<1>6. CASE Repoll
  BY Zenon, <1>6 DEF Repoll, GroupGoto, GroupOK, NoLeak, Steps
<1>7. CASE Push
  BY Zenon, <1>7 DEF Push, GroupGoto, GroupOK, NoLeak, Steps
<1>8. CASE GiveUp
  BY Zenon, <1>8 DEF GiveUp, GroupGoto, GroupOK, NoLeak, Steps
<1>9. ASSUME NEW f \in Fds, Arrive(f) \/ Wake(f) PROVE GroupOK'
  BY Zenon, <1>9 DEF Arrive, Wake, GroupOK, NoLeak, Steps
<1>10. CASE UNCHANGED groupVars
  BY Zenon, <1>10 DEF groupVars, GroupOK, NoLeak, Steps
<1> QED
  BY Zenon, <1>1, <1>2, <1>3, <1>4, <1>5, <1>6, <1>7, <1>8, <1>9, <1>10 DEF GroupNext, Recv

(* recv_from, called by one caller at a time that may give up any call: the
   datagram goes to the buffer of the call in progress, every box is freed
   exactly once, and no assertion on the pointer fails. *)
THEOREM GroupBufferSafe == GroupSpec => [](NoStaleBuffer /\ NoLeak /\ AssertionsHold)
<1>1. GroupOK => NoStaleBuffer /\ NoLeak /\ AssertionsHold
  BY Zenon DEF GroupOK, NoStaleBuffer, AssertionsHold, Steps
<1> QED
  BY <1>1, GroupOKInit, GroupOKNext, PTL DEF GroupSpec

LEMMA ClientStepIsGroupStep == [ClientNext]_<<groupVars, client>> => [GroupNext]_groupVars
<1> SUFFICES ASSUME [ClientNext]_<<groupVars, client>> PROVE [GroupNext]_groupVars
  BY Zenon
<1>1. CASE NewAttempt \/ ConnectFails \/ SendPacket \/ CheckClosed \/ AskTimeout
             \/ RecvPacket \/ LoopWrite
  BY Zenon, <1>1
     DEF NewAttempt, ConnectFails, SendPacket, CheckClosed, AskTimeout, RecvPacket, 
              LoopWrite
<1>2. CASE StartRecv \/ LoopRecv
  BY Zenon, <1>2 DEF StartRecv, LoopRecv, GroupNext, Recv
<1>3. CASE RecvPoll \/ RecvReady \/ RecvReturn
  BY Zenon, <1>3 DEF RecvPoll, RecvReady, RecvReturn, GroupNext, Recv
<1>4. CASE TimedOut
  BY Zenon, <1>4 DEF TimedOut, GroupNext
<1>5. CASE Expire
  BY Zenon, <1>5 DEF Expire
<1>6. CASE Environment
  BY Zenon, <1>6 DEF Environment, GroupNext
<1>7. CASE UNCHANGED <<groupVars, client>>
  BY Zenon, <1>7
<1> QED
  BY Zenon, <1>1, <1>2, <1>3, <1>4, <1>5, <1>6, <1>7 DEF ClientNext, ClientStep

(* connect and the receive loop call recv_from one at a time, and give it up only
   where its future is pending: they use the group the way it demands. *)
THEOREM ConnectUsesGroup == ClientSpec => GroupSpec
  BY ClientStepIsGroupStep, PTL DEF ClientSpec, ClientInit, GroupSpec

(* The datagrams of connect, whose timeouts drop recv_from, and of the receive
   loop never land in the buffer of an attempt that is over. *)
THEOREM ConnectNoStaleBuffer == ClientSpec => []NoStaleBuffer
  BY ConnectUsesGroup, GroupBufferSafe, PTL

(* Nor does connect leak or free twice the box of a recv_from it has dropped. *)
THEOREM ConnectNoLeak == ClientSpec => []NoLeak
  BY ConnectUsesGroup, GroupBufferSafe, PTL

-----------------------------------------------------------------------------
(* The listener *)

(* Each loop holds a connection between taking it and passing it on. *)
LoopsOK ==
    /\ rpc = "recv" => rcon = Nobody
    /\ rpc \in {"insert", "queue", "notify", "batch"} => rcon \in Clients
    /\ spc \in {"status", "wait", "send"} => scon = Nobody
    /\ spc \in {"ok", "err"} => scon \in Clients

(* The connections accept has returned and those it will return *)
All == got \o incoming.queue

(* Connection c is one of them. *)
IsQueued(c) == \E i \in DOMAIN All : All[i] = c

(* Where a connection is on its way to the queue: a client that has not been
   answered has none, one that is being established or held by the receive loop
   is not queued yet. *)
OnTheWay ==
    /\ \A i, j \in DOMAIN All : All[i] = All[j] => i = j
    /\ \A c \in Clients :
           /\ "handshake" \notin sent[c] => c \notin pre /\ c # rcon /\ ~ IsQueued(c)
           /\ c \in pre => c # rcon /\ ~ IsQueued(c)
    /\ rpc \in {"insert", "queue"} => ~ IsQueued(rcon)

(* While the queue exists, whatever is read has been queued. *)
ReadIsQueued ==
    ~ incoming.dropped =>
        /\ \A c \in Clients : reads[c] # "none" => IsQueued(c)
        /\ rpc \in {"notify", "batch"} => IsQueued(rcon)
        /\ spc \in {"ok", "err"} => IsQueued(scon)

(* Initially there are no connections. *)
LEMMA InitInvs == Init => TypeOK /\ LoopsOK /\ OnTheWay /\ ReadIsQueued
<1> SUFFICES ASSUME Init PROVE TypeOK /\ LoopsOK /\ OnTheWay /\ ReadIsQueued
  BY Zenon
<1>1. TypeOK
  <2>1. incoming \in [dropped : BOOLEAN, queue : Seq(Clients)] /\ got \in Seq(Clients)
    BY DEF Init
  <2>2. pc \in [Acceptors \cup Closers -> {"idle", "call", "wait", "drop", "end"}]
    BY Zenon DEF Init
  <2> QED
    BY Zenon, <2>1, <2>2 DEF Init, TypeOK, Packets
<1>2. LoopsOK
  BY Zenon DEF Init, LoopsOK
<1>3. DOMAIN All = {}
  <2>1. All = <<>>
    BY DEF Init, All
  <2> QED
    BY <2>1
<1>4. OnTheWay
  BY Zenon, <1>3, NobodyAssumption DEF Init, OnTheWay, IsQueued
<1>5. ReadIsQueued
  BY Zenon, <1>3 DEF Init, ReadIsQueued
<1> QED
  BY Zenon, <1>1, <1>2, <1>4, <1>5

(* Every step keeps the types. *)
LEMMA NextType == TypeOK /\ LoopsOK /\ [Next]_vars => TypeOK'
<1> SUFFICES ASSUME TypeOK, LoopsOK, [Next]_vars PROVE TypeOK'
  BY Zenon
<1> USE NobodyAssumption
        DEF TypeOK, LoopsOK, Packets, Goto, NotifyIncoming, listener, tasks, recv, send
<1>1. CASE UNCHANGED vars
  BY <1>1 DEF vars
<1>2. CASE RecvClosed \/ RecvErr
  BY Zenon, <1>2 DEF RecvClosed, RecvErr
<1>3. CASE InsertConn
  BY <1>3 DEF InsertConn
<1>4. CASE QueueConn
  <2>1. CASE incoming.dropped
    BY <1>4, <2>1 DEF QueueConn
  <2>2. CASE ~ incoming.dropped
    <3>1. Append(incoming.queue, rcon) \in Seq(Clients)
      BY <1>4 DEF QueueConn
    <3>2. incoming' = [incoming EXCEPT !.queue = Append(incoming.queue, rcon)]
      BY Zenon, <1>4, <2>2 DEF QueueConn
    <3>3. incoming' \in [dropped : BOOLEAN, queue : Seq(Clients)]
      BY Zenon, <3>1, <3>2
    <3> QED
      BY <1>4, <2>2, <3>3 DEF QueueConn
  <2> QED
    BY Zenon, <2>1, <2>2
<1>5. CASE NotifyConn
  BY Zenon, <1>5 DEF NotifyConn
<1>6. CASE BatchRead
  BY <1>6 DEF BatchRead
<1>7. CASE HandshakeErr
  BY <1>7 DEF HandshakeErr
<1>8. CASE ReadStatus
  BY <1>8 DEF ReadStatus
<1>9. CASE ReadNone
  BY Zenon, <1>9 DEF ReadNone
<1>10. CASE ReadErr
  BY <1>10 DEF ReadErr
<1>11. CASE ReadOk \/ SendOut
  BY <1>11 DEF ReadOk, SendOut
<1>12. ASSUME NEW c \in Clients, ReadResult(c) PROVE TypeOK'
  BY <1>12 DEF ReadResult
<1>13. ASSUME NEW c \in Clients, Retry(c) PROVE TypeOK'
  BY <1>13 DEF Retry
<1>14. ASSUME NEW c \in Clients, ClientHello(c) PROVE TypeOK'
  BY <1>14 DEF ClientHello
<1>15. ASSUME NEW c \in Clients, PreEstablished(c) PROVE TypeOK'
  BY <1>15 DEF PreEstablished, vars
<1>16. ASSUME NEW c \in Clients, Established(c) PROVE TypeOK'
  BY <1>16 DEF Established, Receive, Delivered
<1>17. ASSUME NEW c \in Clients, Unhandled(c) PROVE TypeOK'
  BY <1>17 DEF Unhandled
<1>18. ASSUME NEW c \in Clients, ConnReady(c) PROVE TypeOK'
  BY <1>18 DEF ConnReady
<1>19. ASSUME NEW t \in Acceptors, AcceptConn(t) PROVE TypeOK'
  <2>1. Tail(incoming.queue) \in Seq(Clients)
        /\ Append(got, Head(incoming.queue)) \in Seq(Clients)
    BY <1>19 DEF AcceptConn
  <2>2. incoming' = [incoming EXCEPT !.queue = Tail(incoming.queue)]
    BY Zenon, <1>19 DEF AcceptConn
  <2>3. incoming' \in [dropped : BOOLEAN, queue : Seq(Clients)]
    BY Zenon, <2>1, <2>2
  <2> QED
    BY <1>19, <2>1, <2>3 DEF AcceptConn
<1>20. ASSUME NEW t \in Acceptors, AcceptNone(t) PROVE TypeOK'
  BY <1>20 DEF AcceptNone
<1>21. ASSUME NEW t \in Acceptors, AcceptWait(t) PROVE TypeOK'
  BY <1>21 DEF AcceptWait
<1>22. ASSUME NEW t \in Acceptors, AcceptWoken(t) PROVE TypeOK'
  BY <1>22 DEF AcceptWoken
<1>23. ASSUME NEW t \in Closers, CloseFlag(t) PROVE TypeOK'
  BY <1>23 DEF CloseFlag
<1>24. ASSUME NEW t \in Closers, CloseQueue(t) PROVE TypeOK'
  BY <1>24 DEF CloseQueue
<1> HIDE DEF TypeOK, LoopsOK, Packets, Goto, NotifyIncoming, listener, tasks, recv, send
<1> QED
  BY Zenon, <1>1, <1>2, <1>3, <1>4, <1>5, <1>6, <1>7, <1>8, <1>9, <1>10, <1>11, <1>12, <1>13,
     <1>14, <1>15, <1>16, <1>17, <1>18, <1>19, <1>20, <1>21, <1>22, <1>23, <1>24
     DEF Next, RecvLoop, SendLoop, AcceptOp

(* Every step keeps the connections the loops hold. *)
LEMMA NextLoops == TypeOK /\ LoopsOK /\ [Next]_vars => LoopsOK'
<1> SUFFICES ASSUME TypeOK, LoopsOK, [Next]_vars PROVE LoopsOK'
  BY Zenon
<1> USE NobodyAssumption DEF TypeOK, LoopsOK, listener, tasks, recv, send
<1>1. CASE UNCHANGED vars
  BY Zenon, <1>1 DEF vars
<1>2. CASE RecvClosed \/ RecvErr
  BY Zenon, <1>2 DEF RecvClosed, RecvErr
<1>3. CASE InsertConn
  BY Zenon, <1>3 DEF InsertConn
<1>4. CASE QueueConn
  BY Zenon, <1>4 DEF QueueConn
<1>5. CASE NotifyConn
  BY Zenon, <1>5 DEF NotifyConn
<1>6. CASE BatchRead
  BY Zenon, <1>6 DEF BatchRead
<1>7. CASE HandshakeErr
  BY Zenon, <1>7 DEF HandshakeErr
<1>8. CASE ReadStatus
  BY Zenon, <1>8 DEF ReadStatus
<1>9. CASE ReadNone
  BY Zenon, <1>9 DEF ReadNone
<1>10. CASE ReadErr
  BY Zenon, <1>10 DEF ReadErr
<1>11. CASE ReadOk \/ SendOut
  BY Zenon, <1>11 DEF ReadOk, SendOut
<1>12. ASSUME NEW c \in Clients, ReadResult(c) PROVE LoopsOK'
  BY Zenon, <1>12 DEF ReadResult
<1>13. ASSUME NEW c \in Clients, Retry(c) PROVE LoopsOK'
  BY Zenon, <1>13 DEF Retry
<1>14. ASSUME NEW c \in Clients, ClientHello(c) PROVE LoopsOK'
  BY Zenon, <1>14 DEF ClientHello
<1>15. ASSUME NEW c \in Clients, PreEstablished(c) PROVE LoopsOK'
  BY Zenon, <1>15 DEF PreEstablished, vars
<1>16. ASSUME NEW c \in Clients, Established(c) PROVE LoopsOK'
  BY Zenon, <1>16 DEF Established, Receive, Delivered
<1>17. ASSUME NEW c \in Clients, Unhandled(c) PROVE LoopsOK'
  BY Zenon, <1>17 DEF Unhandled
<1>18. ASSUME NEW c \in Clients, ConnReady(c) PROVE LoopsOK'
  BY Zenon, <1>18 DEF ConnReady
<1>19. ASSUME NEW t \in Acceptors, AcceptConn(t) PROVE LoopsOK'
  BY Zenon, <1>19 DEF AcceptConn
<1>20. ASSUME NEW t \in Acceptors, AcceptNone(t) PROVE LoopsOK'
  BY Zenon, <1>20 DEF AcceptNone
<1>21. ASSUME NEW t \in Acceptors, AcceptWait(t) PROVE LoopsOK'
  BY Zenon, <1>21 DEF AcceptWait
<1>22. ASSUME NEW t \in Acceptors, AcceptWoken(t) PROVE LoopsOK'
  BY Zenon, <1>22 DEF AcceptWoken
<1>23. ASSUME NEW t \in Closers, CloseFlag(t) PROVE LoopsOK'
  BY Zenon, <1>23 DEF CloseFlag
<1>24. ASSUME NEW t \in Closers, CloseQueue(t) PROVE LoopsOK'
  BY Zenon, <1>24 DEF CloseQueue
<1> HIDE DEF TypeOK, LoopsOK, listener, tasks, recv, send
<1> QED
  BY Zenon, <1>1, <1>2, <1>3, <1>4, <1>5, <1>6, <1>7, <1>8, <1>9, <1>10, <1>11, <1>12, <1>13,
     <1>14, <1>15, <1>16, <1>17, <1>18, <1>19, <1>20, <1>21, <1>22, <1>23, <1>24
     DEF Next, RecvLoop, SendLoop, AcceptOp

(* Every step keeps the connections being read. *)
LEMMA NextRead == TypeOK /\ LoopsOK /\ ConnIsRead /\ [Next]_vars => ConnIsRead'
<1> SUFFICES ASSUME TypeOK, LoopsOK, ConnIsRead, [Next]_vars PROVE ConnIsRead'
  BY Zenon
<1> USE NobodyAssumption DEF TypeOK, LoopsOK, ConnIsRead, listener, tasks, recv, send
<1>1. CASE UNCHANGED vars
  BY Zenon, <1>1 DEF vars
<1>2. CASE RecvClosed \/ RecvErr
  BY Zenon, <1>2 DEF RecvClosed, RecvErr
<1>3. CASE InsertConn
  BY Zenon, <1>3 DEF InsertConn
<1>4. CASE QueueConn
  BY Zenon, <1>4 DEF QueueConn
<1>5. CASE NotifyConn
  BY Zenon, <1>5 DEF NotifyConn
<1>6. CASE BatchRead
  BY <1>6 DEF BatchRead
<1>7. CASE HandshakeErr
  BY Zenon, <1>7 DEF HandshakeErr
<1>8. CASE ReadStatus
  BY Zenon, <1>8 DEF ReadStatus
<1>9. CASE ReadNone
  BY Zenon, <1>9 DEF ReadNone
<1>10. CASE ReadErr
  BY Zenon, <1>10 DEF ReadErr
<1>11. CASE ReadOk \/ SendOut
  BY <1>11 DEF ReadOk, SendOut
<1>12. ASSUME NEW c \in Clients, ReadResult(c) PROVE ConnIsRead'
  BY <1>12 DEF ReadResult
<1>13. ASSUME NEW c \in Clients, Retry(c) PROVE ConnIsRead'
  BY Zenon, <1>13 DEF Retry
<1>14. ASSUME NEW c \in Clients, ClientHello(c) PROVE ConnIsRead'
  BY Zenon, <1>14 DEF ClientHello
<1>15. ASSUME NEW c \in Clients, PreEstablished(c) PROVE ConnIsRead'
  BY Zenon, <1>15 DEF PreEstablished, vars
<1>16. ASSUME NEW c \in Clients, Established(c) PROVE ConnIsRead'
  BY <1>16 DEF Established, Receive, Delivered
<1>17. ASSUME NEW c \in Clients, Unhandled(c) PROVE ConnIsRead'
  BY <1>17 DEF Unhandled
<1>18. ASSUME NEW c \in Clients, ConnReady(c) PROVE ConnIsRead'
  BY <1>18 DEF ConnReady
<1>19. ASSUME NEW t \in Acceptors, AcceptConn(t) PROVE ConnIsRead'
  BY Zenon, <1>19 DEF AcceptConn
<1>20. ASSUME NEW t \in Acceptors, AcceptNone(t) PROVE ConnIsRead'
  BY Zenon, <1>20 DEF AcceptNone
<1>21. ASSUME NEW t \in Acceptors, AcceptWait(t) PROVE ConnIsRead'
  BY Zenon, <1>21 DEF AcceptWait
<1>22. ASSUME NEW t \in Acceptors, AcceptWoken(t) PROVE ConnIsRead'
  BY Zenon, <1>22 DEF AcceptWoken
<1>23. ASSUME NEW t \in Closers, CloseFlag(t) PROVE ConnIsRead'
  BY Zenon, <1>23 DEF CloseFlag
<1>24. ASSUME NEW t \in Closers, CloseQueue(t) PROVE ConnIsRead'
  BY ZenonT(60), <1>24 DEF CloseQueue
<1> HIDE DEF TypeOK, LoopsOK, ConnIsRead, listener, tasks, recv, send
<1> QED
  BY Zenon, <1>1, <1>2, <1>3, <1>4, <1>5, <1>6, <1>7, <1>8, <1>9, <1>10, <1>11, <1>12, <1>13,
     <1>14, <1>15, <1>16, <1>17, <1>18, <1>19, <1>20, <1>21, <1>22, <1>23, <1>24
     DEF Next, RecvLoop, SendLoop, AcceptOp

(* Every step keeps a waiting accept reachable. *)
LEMMA NextIncoming == TypeOK /\ NoLostIncoming /\ [Next]_vars => NoLostIncoming'
<1> SUFFICES ASSUME TypeOK, NoLostIncoming, [Next]_vars PROVE NoLostIncoming'
  BY Zenon
<1> USE NobodyAssumption
        DEF TypeOK, NoLostIncoming, Goto, NotifyIncoming, listener, tasks, recv, send
<1>1. CASE UNCHANGED vars
  BY Zenon, <1>1 DEF vars
<1>2. CASE RecvClosed \/ RecvErr
  BY Zenon, <1>2 DEF RecvClosed, RecvErr, Delivered
<1>3. CASE InsertConn
  BY Zenon, <1>3 DEF InsertConn
<1>4. CASE QueueConn
  BY SMTT(30), <1>4 DEF QueueConn
<1>5. CASE NotifyConn
  BY ZenonT(60), <1>5 DEF NotifyConn
<1>6. CASE BatchRead
  BY Zenon, <1>6 DEF BatchRead
<1>7. CASE HandshakeErr
  BY Zenon, <1>7 DEF HandshakeErr
<1>8. CASE ReadStatus
  BY Zenon, <1>8 DEF ReadStatus
<1>9. CASE ReadNone
  BY Zenon, <1>9 DEF ReadNone
<1>10. CASE ReadErr
  BY Zenon, <1>10 DEF ReadErr
<1>11. CASE ReadOk \/ SendOut
  BY Zenon, <1>11 DEF ReadOk, SendOut
<1>12. ASSUME NEW c \in Clients, ReadResult(c) PROVE NoLostIncoming'
  BY Zenon, <1>12 DEF ReadResult
<1>13. ASSUME NEW c \in Clients, Retry(c) PROVE NoLostIncoming'
  BY Zenon, <1>13 DEF Retry
<1>14. ASSUME NEW c \in Clients, ClientHello(c) PROVE NoLostIncoming'
  BY Zenon, <1>14 DEF ClientHello
<1>15. ASSUME NEW c \in Clients, PreEstablished(c) PROVE NoLostIncoming'
  BY Zenon, <1>15 DEF PreEstablished, vars
<1>16. ASSUME NEW c \in Clients, Established(c) PROVE NoLostIncoming'
  BY Zenon, <1>16 DEF Established, Receive, Delivered
<1>17. ASSUME NEW c \in Clients, Unhandled(c) PROVE NoLostIncoming'
  BY Zenon, <1>17 DEF Unhandled
<1>18. ASSUME NEW c \in Clients, ConnReady(c) PROVE NoLostIncoming'
  BY Zenon, <1>18 DEF ConnReady
<1>19. ASSUME NEW t \in Acceptors, AcceptConn(t) PROVE NoLostIncoming'
  BY Zenon, <1>19 DEF AcceptConn
<1>20. ASSUME NEW t \in Acceptors, AcceptNone(t) PROVE NoLostIncoming'
  BY Zenon, <1>20 DEF AcceptNone
<1>21. ASSUME NEW t \in Acceptors, AcceptWait(t) PROVE NoLostIncoming'
  BY Zenon, <1>21 DEF AcceptWait
<1>22. ASSUME NEW t \in Acceptors, AcceptWoken(t) PROVE NoLostIncoming'
  BY Zenon, <1>22 DEF AcceptWoken
<1>23. ASSUME NEW t \in Closers, CloseFlag(t) PROVE NoLostIncoming'
  BY Zenon, <1>23 DEF CloseFlag
<1>24. ASSUME NEW t \in Closers, CloseQueue(t) PROVE NoLostIncoming'
  BY Zenon, <1>24 DEF CloseQueue
<1> HIDE DEF TypeOK, NoLostIncoming, Goto, NotifyIncoming, listener, tasks, recv, send
<1> QED
  BY Zenon, <1>1, <1>2, <1>3, <1>4, <1>5, <1>6, <1>7, <1>8, <1>9, <1>10, <1>11, <1>12, <1>13,
     <1>14, <1>15, <1>16, <1>17, <1>18, <1>19, <1>20, <1>21, <1>22, <1>23, <1>24
     DEF Next, RecvLoop, SendLoop, AcceptOp

(* accept takes the connection from the queue and returns it: in the sequence of
   all connections nothing moves. *)
LEMMA AcceptKeeps ==
    ASSUME TypeOK, NEW t \in Acceptors, AcceptConn(t)
    PROVE  All' = All
<1> DEFINE q == incoming.queue
<1>1. q \in Seq(Clients) /\ q # <<>> /\ got \in Seq(Clients)
  BY Zenon DEF TypeOK, AcceptConn
<1>2. got' = Append(got, Head(q)) /\ incoming'.queue = Tail(q)
  BY Zenon DEF TypeOK, AcceptConn
<1> HIDE DEF q
<1>3. Append(got, Head(q)) \o Tail(q) = got \o q
  BY <1>1
<1> QED
  BY Zenon, <1>2, <1>3 DEF All, q

(* The receive loop appends its connection, unless the queue is gone. *)
LEMMA QueueKeeps ==
    ASSUME TypeOK, LoopsOK, QueueConn
    PROVE  /\ incoming.dropped => All' = All
           /\ ~ incoming.dropped =>
                  /\ DOMAIN All' = DOMAIN All \cup {Len(All) + 1}
                  /\ \A i \in DOMAIN All : All'[i] = All[i]
                  /\ All'[Len(All) + 1] = rcon
           /\ Len(All) \in Nat /\ DOMAIN All = 1 .. Len(All)
           /\ rcon \in Clients
<1> DEFINE q == incoming.queue
<1>1. q \in Seq(Clients) /\ got \in Seq(Clients) /\ rcon \in Clients
  BY Zenon DEF TypeOK, LoopsOK, QueueConn
<1>2. got' = got /\ (incoming.dropped => incoming' = incoming)
      /\ (~ incoming.dropped => incoming'.queue = Append(q, rcon))
  BY Zenon DEF TypeOK, QueueConn, tasks
<1> HIDE DEF q
<1>3. got \o Append(q, rcon) = Append(got \o q, rcon) /\ got \o q \in Seq(Clients)
  BY <1>1
<1>4. All \in Seq(Clients) /\ All = got \o q
  BY Zenon, <1>3 DEF All, q
<1>5. ~ incoming.dropped => All' = Append(All, rcon)
  BY Zenon, <1>2, <1>3, <1>4 DEF All
<1>6. incoming.dropped => All' = All
  BY Zenon, <1>2 DEF All
<1> HIDE DEF All
<1>7. Len(All) \in Nat /\ DOMAIN All = 1 .. Len(All)
  BY <1>4
<1> DEFINE new == Append(All, rcon)
<1>8. /\ DOMAIN new = 1 .. Len(All) + 1
      /\ \A i \in DOMAIN All : new[i] = All[i]
      /\ new[Len(All) + 1] = rcon
  BY <1>1, <1>4
<1> HIDE DEF new
<1>9. DOMAIN new = DOMAIN All \cup {Len(All) + 1}
  BY <1>7, <1>8
<1>10. ~ incoming.dropped => All' = new
  BY Zenon, <1>5 DEF new
<1> QED
  BY Zenon, <1>1, <1>6, <1>7, <1>8, <1>9, <1>10

(* close drops what was queued and not accepted. *)
LEMMA CloseKeeps ==
    ASSUME TypeOK, NEW t \in Closers, CloseQueue(t)
    PROVE  /\ DOMAIN All' \subseteq DOMAIN All
           /\ \A i \in DOMAIN All' : All'[i] = All[i]
           /\ incoming'.dropped
<1> DEFINE q == incoming.queue
<1>1. q \in Seq(Clients) /\ got \in Seq(Clients)
  BY Zenon DEF TypeOK
<1>2. got' = got /\ incoming'.queue = <<>> /\ incoming'.dropped
  BY Zenon DEF CloseQueue
<1> HIDE DEF q
<1>3. got \o <<>> = got /\ DOMAIN got \subseteq DOMAIN (got \o q)
      /\ \A i \in DOMAIN got : (got \o q)[i] = got[i]
  BY <1>1
<1> QED
  BY Zenon, <1>2, <1>3 DEF All, q

(* Every step keeps the connections that are read queued, or returned by accept. *)
LEMMA NextQueued == TypeOK /\ LoopsOK /\ ReadIsQueued /\ [Next]_vars => ReadIsQueued'
<1> SUFFICES ASSUME TypeOK, LoopsOK, ReadIsQueued, [Next]_vars PROVE ReadIsQueued'
  BY Zenon
<1>a. ASSUME UNCHANGED <<incoming, got>>
      PROVE  All' = All /\ \A c : IsQueued(c)' <=> IsQueued(c)
  BY Zenon, <1>a DEF All, IsQueued
<1> USE NobodyAssumption DEF TypeOK, LoopsOK, ReadIsQueued, listener, tasks, recv, send
<1>1. CASE UNCHANGED vars
  BY Zenon, <1>1, <1>a DEF vars
<1>2. CASE RecvClosed \/ RecvErr
  BY Zenon, <1>2, <1>a DEF RecvClosed, RecvErr
<1>3. CASE InsertConn
  BY Zenon, <1>3, <1>a DEF InsertConn
<1>4. CASE QueueConn
  <2>1. CASE incoming.dropped
    <3>1. All' = All
      BY Zenon, <1>4, <2>1, QueueKeeps
    <3>2. \A c : IsQueued(c)' <=> IsQueued(c)
      BY Zenon, <3>1 DEF IsQueued
    <3> QED
      BY Zenon, <1>4, <2>1, <3>1, <3>2 DEF QueueConn
  <2>2. CASE ~ incoming.dropped
    <3>1. /\ DOMAIN All' = DOMAIN All \cup {Len(All) + 1}
          /\ \A i \in DOMAIN All : All'[i] = All[i]
          /\ All'[Len(All) + 1] = rcon
          /\ Len(All) + 1 \notin DOMAIN All
          /\ rcon \in Clients
      BY <1>4, <2>2, QueueKeeps
    <3>2. \A c : IsQueued(c)' <=> IsQueued(c) \/ c = rcon
      BY Zenon, <3>1 DEF IsQueued
    <3>3. /\ rpc = "queue" /\ rpc' = "notify" /\ UNCHANGED <<rcon, pre, sent, reads, spc,
                                                             scon>>
          /\ incoming'.dropped = incoming.dropped
      BY Zenon, <1>4, <2>2 DEF QueueConn
    <3> QED
      BY Zenon, <3>2, <3>3
  <2> QED
    BY Zenon, <2>1, <2>2
<1>5. CASE NotifyConn
  BY Zenon, <1>5, <1>a DEF NotifyConn
<1>6. CASE BatchRead
  BY Zenon, <1>6, <1>a DEF BatchRead
<1>7. CASE HandshakeErr
  BY Zenon, <1>7, <1>a DEF HandshakeErr
<1>8. CASE ReadStatus
  BY Zenon, <1>8, <1>a DEF ReadStatus
<1>9. CASE ReadNone
  BY Zenon, <1>9, <1>a DEF ReadNone
<1>10. CASE ReadErr
  BY Zenon, <1>10, <1>a DEF ReadErr
<1>11. CASE ReadOk \/ SendOut
  BY <1>11, <1>a DEF ReadOk, SendOut
<1>12. ASSUME NEW c \in Clients, ReadResult(c) PROVE ReadIsQueued'
  BY Zenon, <1>12, <1>a DEF ReadResult
<1>13. ASSUME NEW c \in Clients, Retry(c) PROVE ReadIsQueued'
  BY Zenon, <1>13, <1>a DEF Retry
<1>14. ASSUME NEW c \in Clients, ClientHello(c) PROVE ReadIsQueued'
  BY Zenon, <1>14, <1>a DEF ClientHello
<1>15. ASSUME NEW c \in Clients, PreEstablished(c) PROVE ReadIsQueued'
  BY Zenon, <1>15, <1>a DEF PreEstablished, vars
<1>16. ASSUME NEW c \in Clients, Established(c) PROVE ReadIsQueued'
  BY Zenon, <1>16, <1>a DEF Established, Receive, Delivered
<1>17. ASSUME NEW c \in Clients, Unhandled(c) PROVE ReadIsQueued'
  BY Zenon, <1>17, <1>a DEF Unhandled
<1>18. ASSUME NEW c \in Clients, ConnReady(c) PROVE ReadIsQueued'
  BY Zenon, <1>18, <1>a DEF ConnReady
<1>19. ASSUME NEW t \in Acceptors, AcceptConn(t) PROVE ReadIsQueued'
  <2>1. All' = All
    BY Zenon, <1>19, AcceptKeeps
  <2>2. \A c : IsQueued(c)' <=> IsQueued(c)
    BY Zenon, <2>1 DEF IsQueued
  <2> QED
    BY Zenon, <1>19, <2>1, <2>2 DEF AcceptConn
<1>20. ASSUME NEW t \in Acceptors, AcceptNone(t) PROVE ReadIsQueued'
  BY Zenon, <1>20, <1>a DEF AcceptNone
<1>21. ASSUME NEW t \in Acceptors, AcceptWait(t) PROVE ReadIsQueued'
  BY Zenon, <1>21, <1>a DEF AcceptWait
<1>22. ASSUME NEW t \in Acceptors, AcceptWoken(t) PROVE ReadIsQueued'
  BY Zenon, <1>22, <1>a DEF AcceptWoken
<1>23. ASSUME NEW t \in Closers, CloseFlag(t) PROVE ReadIsQueued'
  BY Zenon, <1>23, <1>a DEF CloseFlag
<1>24. ASSUME NEW t \in Closers, CloseQueue(t) PROVE ReadIsQueued'
  BY Zenon, <1>24, CloseKeeps DEF CloseQueue
<1> HIDE DEF TypeOK, LoopsOK, ReadIsQueued, listener, tasks, recv, send
<1> QED
  BY ZenonT(60), <1>1, <1>2, <1>3, <1>4, <1>5, <1>6, <1>7, <1>8, <1>9, <1>10, <1>11, <1>12, <1>13,
     <1>14, <1>15, <1>16, <1>17, <1>18, <1>19, <1>20, <1>21, <1>22, <1>23, <1>24
     DEF Next, RecvLoop, SendLoop, AcceptOp

(* Every step keeps a connection from being queued twice. *)
LEMMA NextOnTheWay ==
    ~ Duplicates /\ TypeOK /\ LoopsOK /\ OnTheWay /\ [Next]_vars => OnTheWay'
<1> SUFFICES ASSUME ~ Duplicates, TypeOK, LoopsOK, OnTheWay, [Next]_vars PROVE OnTheWay'
  BY Zenon
<1>a. ASSUME UNCHANGED <<incoming, got>>
      PROVE  All' = All /\ \A c : IsQueued(c)' <=> IsQueued(c)
  BY Zenon, <1>a DEF All, IsQueued
<1> USE NobodyAssumption DEF TypeOK, LoopsOK, OnTheWay, listener, tasks, recv, send
<1>1. CASE UNCHANGED vars
  BY Zenon, <1>1, <1>a DEF vars
<1>2. CASE RecvClosed \/ RecvErr
  BY Zenon, <1>2, <1>a DEF RecvClosed, RecvErr
<1>3. CASE InsertConn
  BY Zenon, <1>3, <1>a DEF InsertConn
<1>4. CASE QueueConn
  <2>1. CASE incoming.dropped
    <3>1. All' = All
      BY Zenon, <1>4, <2>1, QueueKeeps
    <3>2. \A c : IsQueued(c)' <=> IsQueued(c)
      BY Zenon, <3>1 DEF IsQueued
    <3> QED
      BY Zenon, <1>4, <2>1, <3>1, <3>2 DEF QueueConn
  <2>2. CASE ~ incoming.dropped
    <3>1. /\ DOMAIN All' = DOMAIN All \cup {Len(All) + 1}
          /\ \A i \in DOMAIN All : All'[i] = All[i]
          /\ All'[Len(All) + 1] = rcon
          /\ Len(All) + 1 \notin DOMAIN All
          /\ rcon \in Clients
      BY <1>4, <2>2, QueueKeeps
    <3>2. \A c : IsQueued(c)' <=> IsQueued(c) \/ c = rcon
      BY Zenon, <3>1 DEF IsQueued
    <3>3. /\ rpc = "queue" /\ rpc' = "notify" /\ UNCHANGED <<rcon, pre, sent, reads, spc,
                                                             scon>>
          /\ incoming'.dropped = incoming.dropped
      BY <1>4, <2>2 DEF QueueConn
    <3>4. \A i, j \in DOMAIN All' : All'[i] = All'[j] => i = j
      BY Zenon, <3>1, <3>3 DEF IsQueued
    <3> QED
      BY Zenon, <3>2, <3>3, <3>4
  <2> QED
    BY Zenon, <2>1, <2>2
<1>5. CASE NotifyConn
  BY Zenon, <1>5, <1>a DEF NotifyConn
<1>6. CASE BatchRead
  BY Zenon, <1>6, <1>a DEF BatchRead
<1>7. CASE HandshakeErr
  BY <1>7, <1>a DEF HandshakeErr
<1>8. CASE ReadStatus
  BY Zenon, <1>8, <1>a DEF ReadStatus
<1>9. CASE ReadNone
  BY Zenon, <1>9, <1>a DEF ReadNone
<1>10. CASE ReadErr
  BY Zenon, <1>10, <1>a DEF ReadErr
<1>11. CASE ReadOk \/ SendOut
  BY Zenon, <1>11, <1>a DEF ReadOk, SendOut
<1>12. ASSUME NEW c \in Clients, ReadResult(c) PROVE OnTheWay'
  BY Zenon, <1>12, <1>a DEF ReadResult
<1>13. ASSUME NEW c \in Clients, Retry(c) PROVE OnTheWay'
  BY <1>13, <1>a DEF Retry
<1>14. ASSUME NEW c \in Clients, ClientHello(c) PROVE OnTheWay'
  BY <1>14, <1>a DEF ClientHello, Receive, Delivered, Latest
<1>15. ASSUME NEW c \in Clients, PreEstablished(c) PROVE OnTheWay'
  BY Zenon, <1>15, <1>a DEF PreEstablished, vars
<1>16. ASSUME NEW c \in Clients, Established(c) PROVE OnTheWay'
  BY Zenon, <1>16, <1>a DEF Established, Receive, Delivered
<1>17. ASSUME NEW c \in Clients, Unhandled(c) PROVE OnTheWay'
  BY Zenon, <1>17, <1>a DEF Unhandled
<1>18. ASSUME NEW c \in Clients, ConnReady(c) PROVE OnTheWay'
  BY Zenon, <1>18, <1>a DEF ConnReady
<1>19. ASSUME NEW t \in Acceptors, AcceptConn(t) PROVE OnTheWay'
  <2>1. All' = All
    BY Zenon, <1>19, AcceptKeeps
  <2>2. \A c : IsQueued(c)' <=> IsQueued(c)
    BY Zenon, <2>1 DEF IsQueued
  <2> QED
    BY Zenon, <1>19, <2>1, <2>2 DEF AcceptConn
<1>20. ASSUME NEW t \in Acceptors, AcceptNone(t) PROVE OnTheWay'
  BY Zenon, <1>20, <1>a DEF AcceptNone
<1>21. ASSUME NEW t \in Acceptors, AcceptWait(t) PROVE OnTheWay'
  BY Zenon, <1>21, <1>a DEF AcceptWait
<1>22. ASSUME NEW t \in Acceptors, AcceptWoken(t) PROVE OnTheWay'
  BY Zenon, <1>22, <1>a DEF AcceptWoken
<1>23. ASSUME NEW t \in Closers, CloseFlag(t) PROVE OnTheWay'
  BY Zenon, <1>23, <1>a DEF CloseFlag
<1>24. ASSUME NEW t \in Closers, CloseQueue(t) PROVE OnTheWay'
  <2>1. /\ DOMAIN All' \subseteq DOMAIN All
        /\ \A i \in DOMAIN All' : All'[i] = All[i]
        /\ incoming'.dropped
    BY Zenon, <1>24, CloseKeeps
  <2>2. \A c : IsQueued(c)' => IsQueued(c)
    BY Zenon, <2>1 DEF IsQueued
  <2> QED
    BY Zenon, <1>24, <2>1, <2>2 DEF CloseQueue
<1> HIDE DEF TypeOK, LoopsOK, OnTheWay, listener, tasks, recv, send
<1> QED
  BY ZenonT(60), <1>1, <1>2, <1>3, <1>4, <1>5, <1>6, <1>7, <1>8, <1>9, <1>10, <1>11, <1>12, <1>13,
     <1>14, <1>15, <1>16, <1>17, <1>18, <1>19, <1>20, <1>21, <1>22, <1>23, <1>24
     DEF Next, RecvLoop, SendLoop, AcceptOp

(* The inductive invariant, without Duplicates *)
IInv == TypeOK /\ LoopsOK /\ ReadIsQueued /\ ConnIsRead /\ NoLostIncoming

(* The invariant holds in every reachable state. *)
LEMMA Invariance == Spec => []IInv
<1>1. Init => IInv
  BY Zenon, InitInvs DEF IInv, Init, ConnIsRead, NoLostIncoming
<1>2. IInv /\ [Next]_vars => IInv'
  BY Zenon, NextType, NextLoops, NextQueued, NextRead, NextIncoming DEF IInv
<1> QED
  BY <1>1, <1>2, PTL DEF Spec

(* For every set of clients, acceptors and closers, and whatever the network
   duplicates: the read future of a connection in the map is in the batcher or
   held by a loop that pushes it. *)
THEOREM ListenerConnIsRead == Spec => []ConnIsRead
<1>1. IInv => ConnIsRead
  BY Zenon DEF IInv
<1> QED
  BY <1>1, Invariance, PTL

(* An accept that waits in the EventMap has missed no connection and no close. *)
THEOREM ListenerNoLostIncoming == Spec => []NoLostIncoming
<1>1. IInv => NoLostIncoming
  BY Zenon DEF IInv
<1> QED
  BY <1>1, Invariance, PTL

(* On a network that delivers no packet again, every connection is queued for
   accept once, and whatever is read has been queued. *)
THEOREM ListenerQueuedOnce == ASSUME ~ Duplicates PROVE Spec => []QueuedOnce
<1>1. Init => OnTheWay
  BY Zenon, InitInvs
<1>2. IInv /\ OnTheWay /\ [Next]_vars => OnTheWay'
  BY Zenon, NextOnTheWay DEF IInv
<1>3. IInv /\ OnTheWay => QueuedOnce
  BY DEF IInv, OnTheWay, ReadIsQueued, QueuedOnce, IsQueued, All
<1> QED
  BY <1>1, <1>2, <1>3, Invariance, PTL DEF Spec

=============================================================================
