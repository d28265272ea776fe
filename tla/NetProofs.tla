------------------------------ MODULE NetProofs -----------------------------
(***************************************************************************)
(* Proofs about sockets and what is proxied over them.  The poller, for    *)
(* every set of sockets and tasks: a call that waits hears of its          *)
(* readiness, and a closed socket has no reader.  The reverse proxy, for   *)
(* every number of connections, streams and results, and every kind of     *)
(* listener: what it counts, queues and wakes.                             *)
(***************************************************************************)
EXTENDS Poller, Rproxy, FiniteSetTheorems, TLAPS

-----------------------------------------------------------------------------
(* The poller *)

(* A task is in a call on an open socket only: fd_close is called when no future
   borrows the socket. *)
CallsOpen == \A t \in Tasks : pc[t] # "idle" => handle[Token(t)] = "open"

(* From add_waker on, the waker of a call is in the map unless it was woken or
   displaced. *)
WakerStored ==
    \A t \in Tasks :
        pc[t] \in {"call", "pending"} /\ t \notin woken \cup displaced
        => wakers[Chan(t)] = t

(* What a pending call should hear of is with mio or with poll_once. *)
EdgeKept ==
    \A t \in Tasks :
        pc[t] = "pending" /\ t \notin woken \cup displaced /\ Due(t)
            => Token(t) \in edges \/ Chan(t) \in events

(* poll_once has gone through its events before it polls again. *)
EventsDone == ppc = "poll" => events = {}

(* The inductive invariant *)
IInv == TypeOK /\ CallsOpen /\ WakerStored /\ EdgeKept /\ EventsDone /\ ClosedHasNoReader

(* The channel of a task is one of its socket's two. *)
LEMMA ChanType ==
    ASSUME NEW t \in Tasks
    PROVE  /\ Token(t) \in Tokens /\ Chan(t) \in Chans
           /\ Chan(t)[1] = Token(t) /\ Chan(t)[2] \in {"read", "write"}
           /\ Chan(t) = <<Token(t), Chan(t)[2]>>
<1>1. Uses[t] \in Tokens \X DOMAIN Interest
  BY Zenon, UsesAssumption
<1>2. Interest[Uses[t][2]] \in {"read", "write"}
  BY <1>1 DEF Interest
<1> QED
  BY Zenon, <1>1, <1>2 DEF Token, Chan, Chans

(* Initially nothing is registered and nobody waits. *)
LEMMA InitIInv == Init => IInv
  BY InterruptAssumption, NobodyAssumption
     DEF Init, IInv, TypeOK, CallsOpen, WakerStored, EdgeKept, EventsDone,
         ClosedHasNoReader, Steps, Chans

(* Every step keeps the types. *)
LEMMA NextType == TypeOK /\ [Next]_vars => TypeOK'
<1> SUFFICES ASSUME TypeOK, [Next]_vars PROVE TypeOK'
  BY Zenon
<1> USE ChanType DEF TypeOK, Steps, Goto, Over, SetWaker, InCall, kernel, thread
<1>1. CASE UNCHANGED vars
  BY Zenon, <1>1 DEF vars, kernel, thread
<1>2. ASSUME NEW c \in Chans, Arrive(c) PROVE TypeOK'
  BY Zenon, <1>2 DEF Arrive, Registered
<1>3. ASSUME NEW k \in Tokens, Open(k) PROVE TypeOK'
  BY Zenon, <1>3 DEF Open
<1>4. ASSUME NEW k \in Tokens, Register(k) PROVE TypeOK'
  BY Zenon, <1>4 DEF Register
<1>5. ASSUME NEW k \in Tokens, RegisterFails(k) PROVE TypeOK'
  BY Zenon, <1>5 DEF RegisterFails
<1>6. ASSUME NEW k \in Tokens, Fail(k) PROVE TypeOK'
  BY Zenon, <1>6 DEF Fail
<1>7. ASSUME NEW k \in Tokens, Shutdown(k) PROVE TypeOK'
  BY <1>7 DEF Shutdown, Chans
<1>8. ASSUME NEW k \in Tokens, Deregister(k) PROVE TypeOK'
  BY Zenon, <1>8 DEF Deregister
<1>9. ASSUME NEW k \in Tokens, Close(k) PROVE TypeOK'
  BY Zenon, <1>9 DEF Close, Chans
<1>10. ASSUME NEW t \in Tasks, Call(t) PROVE TypeOK'
  BY Zenon, <1>10 DEF Call
<1>11. ASSUME NEW t \in Tasks, AddWaker(t) PROVE TypeOK'
  BY Zenon, <1>11 DEF AddWaker
<1>12. ASSUME NEW t \in Tasks, CallOk(t) PROVE TypeOK'
  BY Zenon, <1>12 DEF CallOk
<1>13. ASSUME NEW t \in Tasks, CallWouldBlock(t) PROVE TypeOK'
  BY Zenon, <1>13 DEF CallWouldBlock
<1>14. ASSUME NEW t \in Tasks, CallErr(t) PROVE TypeOK'
  BY Zenon, <1>14 DEF CallErr
<1>15. ASSUME NEW t \in Tasks, RemoveWaker(t) PROVE TypeOK'
  BY Zenon, <1>15 DEF RemoveWaker
<1>16. ASSUME NEW t \in Tasks, Abandon(t) PROVE TypeOK'
  BY Zenon, <1>16 DEF Abandon
<1>17. ASSUME NEW c \in Chans, Wake(c) PROVE TypeOK'
  BY Zenon, <1>17 DEF Wake
<1>18. CASE PollEvents
  <2>1. \A k \in Tokens : Interests(k) \subseteq Chans
    BY Zenon DEF Interests, Chans
  <2>2. events' \in SUBSET Chans
    BY <1>18, <2>1 DEF PollEvents
  <2> QED
    BY Zenon, <1>18, <2>2 DEF PollEvents
<1>19. CASE PollDone
  BY Zenon, <1>19 DEF PollDone
<1>20. CASE PollFails
  BY Zenon, <1>20 DEF PollFails
<1> HIDE DEF TypeOK, Steps, Goto, Over, SetWaker, InCall, kernel, thread
<1> QED
  BY ZenonT(60), <1>1, <1>2, <1>3, <1>4, <1>5, <1>6, <1>7, <1>8, <1>9, <1>10, <1>11, <1>12, <1>13,
     <1>14, <1>15, <1>16, <1>17, <1>18, <1>19, <1>20
     DEF Next, Resume, PollThread

(* Every step keeps the sockets of the calls open. *)
LEMMA NextCalls == TypeOK /\ CallsOpen /\ [Next]_vars => CallsOpen'
<1> SUFFICES ASSUME TypeOK, CallsOpen, [Next]_vars PROVE CallsOpen'
  BY Zenon
<1> USE ChanType DEF TypeOK, CallsOpen, Goto, Over, kernel, thread
<1>1. CASE UNCHANGED vars
  BY Zenon, <1>1 DEF vars, kernel, thread
<1>2. ASSUME NEW c \in Chans, Arrive(c) PROVE CallsOpen'
  BY Zenon, <1>2 DEF Arrive
<1>3. ASSUME NEW k \in Tokens, Open(k) PROVE CallsOpen'
  BY Zenon, <1>3 DEF Open
<1>4. ASSUME NEW k \in Tokens, Register(k) PROVE CallsOpen'
  BY Zenon, <1>4 DEF Register
<1>5. ASSUME NEW k \in Tokens, RegisterFails(k) PROVE CallsOpen'
  BY Zenon, <1>5 DEF RegisterFails
<1>6. ASSUME NEW k \in Tokens, Fail(k) PROVE CallsOpen'
  BY Zenon, <1>6 DEF Fail
<1>7. ASSUME NEW k \in Tokens, Shutdown(k) PROVE CallsOpen'
  BY Zenon, <1>7 DEF Shutdown
<1>8. ASSUME NEW k \in Tokens, Deregister(k) PROVE CallsOpen'
  BY Zenon, <1>8 DEF Deregister
<1>9. ASSUME NEW k \in Tokens, Close(k) PROVE CallsOpen'
  BY Zenon, <1>9 DEF Close
<1>10. ASSUME NEW t \in Tasks, Call(t) PROVE CallsOpen'
  BY Zenon, <1>10 DEF Call
<1>11. ASSUME NEW t \in Tasks, AddWaker(t) PROVE CallsOpen'
  BY Zenon, <1>11 DEF AddWaker
<1>12. ASSUME NEW t \in Tasks, CallOk(t) PROVE CallsOpen'
  BY Zenon, <1>12 DEF CallOk
<1>13. ASSUME NEW t \in Tasks, CallWouldBlock(t) PROVE CallsOpen'
  BY Zenon, <1>13 DEF CallWouldBlock
<1>14. ASSUME NEW t \in Tasks, CallErr(t) PROVE CallsOpen'
  BY Zenon, <1>14 DEF CallErr
<1>15. ASSUME NEW t \in Tasks, RemoveWaker(t) PROVE CallsOpen'
  BY Zenon, <1>15 DEF RemoveWaker
<1>16. ASSUME NEW t \in Tasks, Abandon(t) PROVE CallsOpen'
  BY Zenon, <1>16 DEF Abandon
<1>17. ASSUME NEW c \in Chans, Wake(c) PROVE CallsOpen'
  BY Zenon, <1>17 DEF Wake
<1>18. CASE PollEvents
  BY Zenon, <1>18 DEF PollEvents
<1>19. CASE PollDone
  BY Zenon, <1>19 DEF PollDone
<1>20. CASE PollFails
  BY Zenon, <1>20 DEF PollFails
<1> HIDE DEF TypeOK, CallsOpen, Goto, Over, kernel, thread
<1> QED
  BY ZenonT(60), <1>1, <1>2, <1>3, <1>4, <1>5, <1>6, <1>7, <1>8, <1>9, <1>10, <1>11, <1>12, <1>13,
     <1>14, <1>15, <1>16, <1>17, <1>18, <1>19, <1>20
     DEF Next, Resume, PollThread

(* Every step keeps the waker of a call stored, or wakes or displaces it. *)
LEMMA NextWaker ==
    TypeOK /\ CallsOpen /\ WakerStored /\ [Next]_vars => WakerStored'
<1> SUFFICES ASSUME TypeOK, CallsOpen, WakerStored, [Next]_vars PROVE WakerStored'
  BY Zenon
<1> USE ChanType, NobodyAssumption
        DEF TypeOK, CallsOpen, WakerStored, Goto, Over, SetWaker, InCall, kernel, thread
<1>1. CASE UNCHANGED vars
  BY Zenon, <1>1 DEF vars, kernel, thread
<1>2. ASSUME NEW c \in Chans, Arrive(c) PROVE WakerStored'
  BY Zenon, <1>2 DEF Arrive
<1>3. ASSUME NEW k \in Tokens, Open(k) PROVE WakerStored'
  BY Zenon, <1>3 DEF Open
<1>4. ASSUME NEW k \in Tokens, Register(k) PROVE WakerStored'
  BY Zenon, <1>4 DEF Register
<1>5. ASSUME NEW k \in Tokens, RegisterFails(k) PROVE WakerStored'
  BY Zenon, <1>5 DEF RegisterFails
<1>6. ASSUME NEW k \in Tokens, Fail(k) PROVE WakerStored'
  BY Zenon, <1>6 DEF Fail
<1>7. ASSUME NEW k \in Tokens, Shutdown(k) PROVE WakerStored'
  BY Zenon, <1>7 DEF Shutdown
<1>8. ASSUME NEW k \in Tokens, Deregister(k) PROVE WakerStored'
  BY Zenon, <1>8 DEF Deregister
<1>9. ASSUME NEW k \in Tokens, Close(k) PROVE WakerStored'
  BY Zenon, <1>9 DEF Close
<1>10. ASSUME NEW t \in Tasks, Call(t) PROVE WakerStored'
  BY Zenon, <1>10 DEF Call
<1>11. ASSUME NEW t \in Tasks, AddWaker(t) PROVE WakerStored'
  BY ZenonT(60), <1>11 DEF AddWaker
<1>12. ASSUME NEW t \in Tasks, CallOk(t) PROVE WakerStored'
  BY Zenon, <1>12 DEF CallOk
<1>13. ASSUME NEW t \in Tasks, CallWouldBlock(t) PROVE WakerStored'
  BY Zenon, <1>13 DEF CallWouldBlock
<1>14. ASSUME NEW t \in Tasks, CallErr(t) PROVE WakerStored'
  BY Zenon, <1>14 DEF CallErr
<1>15. ASSUME NEW t \in Tasks, RemoveWaker(t) PROVE WakerStored'
  BY ZenonT(60), <1>15 DEF RemoveWaker
<1>16. ASSUME NEW t \in Tasks, Abandon(t) PROVE WakerStored'
  BY Zenon, <1>16 DEF Abandon
<1>17. ASSUME NEW c \in Chans, Wake(c) PROVE WakerStored'
  BY Zenon, <1>17 DEF Wake
<1>18. CASE PollEvents
  BY Zenon, <1>18 DEF PollEvents
<1>19. CASE PollDone
  BY Zenon, <1>19 DEF PollDone
<1>20. CASE PollFails
  BY ZenonT(60), <1>20 DEF PollFails
<1> HIDE DEF TypeOK, CallsOpen, WakerStored, Goto, Over, SetWaker, InCall, kernel, thread
<1> QED
  BY SMTT(30), <1>1, <1>2, <1>3, <1>4, <1>5, <1>6, <1>7, <1>8, <1>9, <1>10, <1>11, <1>12, <1>13,
     <1>14, <1>15, <1>16, <1>17, <1>18, <1>19, <1>20
     DEF Next, Resume, PollThread

(* Every step keeps an edge for what has become ready. *)
LEMMA NextEdge ==
    TypeOK /\ CallsOpen /\ WakerStored /\ EdgeKept /\ EventsDone /\ [Next]_vars
        => EdgeKept' /\ EventsDone'
<1> SUFFICES ASSUME TypeOK, CallsOpen, WakerStored, EdgeKept, EventsDone, [Next]_vars
             PROVE  EdgeKept' /\ EventsDone'
  BY Zenon
<1> USE ChanType
        DEF TypeOK, CallsOpen, EdgeKept, EventsDone, Due, Goto, Over, SetWaker, InCall,
            Registered, kernel, thread
<1>1. CASE UNCHANGED vars
  BY Zenon, <1>1 DEF vars, kernel, thread
<1>2. ASSUME NEW c \in Chans, Arrive(c) PROVE EdgeKept' /\ EventsDone'
  BY Zenon, <1>2 DEF Arrive
<1>3. ASSUME NEW k \in Tokens, Open(k) PROVE EdgeKept' /\ EventsDone'
  BY Zenon, <1>3 DEF Open
<1>4. ASSUME NEW k \in Tokens, Register(k) PROVE EdgeKept' /\ EventsDone'
  BY Zenon, <1>4 DEF Register
<1>5. ASSUME NEW k \in Tokens, RegisterFails(k) PROVE EdgeKept' /\ EventsDone'
  BY Zenon, <1>5 DEF RegisterFails
<1>6. ASSUME NEW k \in Tokens, Fail(k) PROVE EdgeKept' /\ EventsDone'
  BY Zenon, <1>6 DEF Fail
<1>7. ASSUME NEW k \in Tokens, Shutdown(k) PROVE EdgeKept' /\ EventsDone'
  BY <1>7 DEF Shutdown
<1>8. ASSUME NEW k \in Tokens, Deregister(k) PROVE EdgeKept' /\ EventsDone'
  BY Zenon, <1>8 DEF Deregister
<1>9. ASSUME NEW k \in Tokens, Close(k) PROVE EdgeKept' /\ EventsDone'
  BY Zenon, <1>9 DEF Close
<1>10. ASSUME NEW t \in Tasks, Call(t) PROVE EdgeKept' /\ EventsDone'
  BY Zenon, <1>10 DEF Call
<1>11. ASSUME NEW t \in Tasks, AddWaker(t) PROVE EdgeKept' /\ EventsDone'
  BY ZenonT(60), <1>11 DEF AddWaker
<1>12. ASSUME NEW t \in Tasks, CallOk(t) PROVE EdgeKept' /\ EventsDone'
  BY <1>12 DEF CallOk, Fails
<1>13. ASSUME NEW t \in Tasks, CallWouldBlock(t) PROVE EdgeKept' /\ EventsDone'
  BY Zenon, <1>13 DEF CallWouldBlock, Fails
<1>14. ASSUME NEW t \in Tasks, CallErr(t) PROVE EdgeKept' /\ EventsDone'
  BY Zenon, <1>14 DEF CallErr
<1>15. ASSUME NEW t \in Tasks, RemoveWaker(t) PROVE EdgeKept' /\ EventsDone'
  BY ZenonT(60), <1>15 DEF RemoveWaker
<1>16. ASSUME NEW t \in Tasks, Abandon(t) PROVE EdgeKept' /\ EventsDone'
  BY Zenon, <1>16 DEF Abandon
<1>17. ASSUME NEW c \in Chans, Wake(c) PROVE EdgeKept' /\ EventsDone'
  BY Zenon, <1>17 DEF Wake, WakerStored
<1>18. CASE PollEvents
  <2>1. ASSUME NEW t \in Tasks, Due(t), Token(t) \in edges PROVE Chan(t) \in events'
    <3>1. Reported(Token(t)) /\ Chan(t) \in Interests(Token(t))
      BY Zenon, <2>1 DEF Reported, Interests
    <3> QED
      BY Zenon, <2>1, <3>1, <1>18 DEF PollEvents
  <2> QED
    BY Zenon, <1>18, <2>1 DEF PollEvents
<1>19. CASE PollDone
  BY Zenon, <1>19 DEF PollDone
<1>20. CASE PollFails
  BY Zenon, <1>20 DEF PollFails
<1> HIDE DEF TypeOK, CallsOpen, EdgeKept, EventsDone, Due, Goto, Over, SetWaker, InCall,
         Registered, kernel, thread
<1> QED
  BY SMTT(30), <1>1, <1>2, <1>3, <1>4, <1>5, <1>6, <1>7, <1>8, <1>9, <1>10, <1>11, <1>12, <1>13,
     <1>14, <1>15, <1>16, <1>17, <1>18, <1>19, <1>20
     DEF Next, Resume, PollThread

(* Every step keeps closed sockets without a reader. *)
LEMMA NextClosed ==
    TypeOK /\ CallsOpen /\ ClosedHasNoReader /\ [Next]_vars => ClosedHasNoReader'
<1> SUFFICES ASSUME TypeOK, CallsOpen, ClosedHasNoReader, [Next]_vars
             PROVE  ClosedHasNoReader'
  BY Zenon
<1> USE ChanType
        DEF TypeOK, CallsOpen, ClosedHasNoReader, Goto, Over, SetWaker, kernel, thread,
            Chans
<1>1. CASE UNCHANGED vars
  BY Zenon, <1>1 DEF vars, kernel, thread
<1>2. ASSUME NEW c \in Chans, Arrive(c) PROVE ClosedHasNoReader'
  BY Zenon, <1>2 DEF Arrive
<1>3. ASSUME NEW k \in Tokens, Open(k) PROVE ClosedHasNoReader'
  BY Zenon, <1>3 DEF Open
<1>4. ASSUME NEW k \in Tokens, Register(k) PROVE ClosedHasNoReader'
  BY Zenon, <1>4 DEF Register
<1>5. ASSUME NEW k \in Tokens, RegisterFails(k) PROVE ClosedHasNoReader'
  BY Zenon, <1>5 DEF RegisterFails
<1>6. ASSUME NEW k \in Tokens, Fail(k) PROVE ClosedHasNoReader'
  BY Zenon, <1>6 DEF Fail
<1>7. ASSUME NEW k \in Tokens, Shutdown(k) PROVE ClosedHasNoReader'
  BY Zenon, <1>7 DEF Shutdown
<1>8. ASSUME NEW k \in Tokens, Deregister(k) PROVE ClosedHasNoReader'
  BY Zenon, <1>8 DEF Deregister
<1>9. ASSUME NEW k \in Tokens, Close(k) PROVE ClosedHasNoReader'
  BY Zenon, <1>9 DEF Close
<1>10. ASSUME NEW t \in Tasks, Call(t) PROVE ClosedHasNoReader'
  BY Zenon, <1>10 DEF Call
<1>11. ASSUME NEW t \in Tasks, AddWaker(t) PROVE ClosedHasNoReader'
  BY <1>11 DEF AddWaker
<1>12. ASSUME NEW t \in Tasks, CallOk(t) PROVE ClosedHasNoReader'
  BY Zenon, <1>12 DEF CallOk
<1>13. ASSUME NEW t \in Tasks, CallWouldBlock(t) PROVE ClosedHasNoReader'
  BY Zenon, <1>13 DEF CallWouldBlock
<1>14. ASSUME NEW t \in Tasks, CallErr(t) PROVE ClosedHasNoReader'
  BY Zenon, <1>14 DEF CallErr
<1>15. ASSUME NEW t \in Tasks, RemoveWaker(t) PROVE ClosedHasNoReader'
  BY Zenon, <1>15 DEF RemoveWaker
<1>16. ASSUME NEW t \in Tasks, Abandon(t) PROVE ClosedHasNoReader'
  BY Zenon, <1>16 DEF Abandon
<1>17. ASSUME NEW c \in Chans, Wake(c) PROVE ClosedHasNoReader'
  BY Zenon, <1>17 DEF Wake
<1>18. CASE PollEvents
  BY Zenon, <1>18 DEF PollEvents
<1>19. CASE PollDone
  BY Zenon, <1>19 DEF PollDone
<1>20. CASE PollFails
  BY Zenon, <1>20 DEF PollFails
<1> HIDE DEF TypeOK, CallsOpen, ClosedHasNoReader, Goto, Over, SetWaker, kernel, thread,
         Chans
<1> QED
  BY SMTT(30), <1>1, <1>2, <1>3, <1>4, <1>5, <1>6, <1>7, <1>8, <1>9, <1>10, <1>11, <1>12, <1>13,
     <1>14, <1>15, <1>16, <1>17, <1>18, <1>19, <1>20
     DEF Next, Resume, PollThread

(* The invariant holds in every reachable state. *)
LEMMA Invariance == Spec => []IInv
<1>1. IInv /\ [Next]_vars => IInv'
  BY Zenon, NextType, NextCalls, NextWaker, NextEdge, NextClosed DEF IInv
<1> QED
  BY InitIInv, <1>1, PTL DEF Spec

(* mio/driver.rs and mio/poller.rs: no readiness is lost.  A task that is pending on a
   channel that has become ready is woken, or will be by the poll thread, unless
   another task has displaced its waker. *)
THEOREM PollerNoLostReadiness == Spec => []NoLostReadiness
<1>1. IInv => NoLostReadiness
  BY Zenon DEF IInv, WakerStored, EdgeKept, NoLostReadiness, Parked
<1> QED
  BY <1>1, Invariance, PTL

(* mio/driver.rs: fd_close leaves no reader's waker behind, between the two halves of
   deregister and after them. *)
THEOREM PollerClosedHasNoReader == Spec => []ClosedHasNoReader
<1>1. IInv => ClosedHasNoReader
  BY Zenon DEF IInv
<1> QED
  BY <1>1, Invariance, PTL

-----------------------------------------------------------------------------
(* The reverse proxy *)

(* What Append, Tail and the empty sequence are. *)
LEMMA AppendIs ==
    ASSUME NEW S, NEW q \in Seq(S), NEW e \in S
    PROVE  /\ Append(q, e) \in Seq(S) /\ Len(Append(q, e)) = Len(q) + 1
           /\ DOMAIN Append(q, e) = 1 .. Len(q) + 1
           /\ \A i \in 1 .. Len(q) : Append(q, e)[i] = q[i]
           /\ Append(q, e)[Len(q) + 1] = e
OBVIOUS

LEMMA TailIs ==
    ASSUME NEW S, NEW q \in Seq(S), q # <<>>
    PROVE  /\ Len(q) \in Nat \ {0} /\ Head(q) = q[1] /\ q[1] \in S
           /\ Tail(q) \in Seq(S) /\ Len(Tail(q)) = Len(q) - 1
           /\ DOMAIN Tail(q) = 1 .. Len(q) - 1
           /\ \A i \in 1 .. Len(q) - 1 : Tail(q)[i] = q[i + 1]
OBVIOUS

LEMMA EmptyIs ==
    ASSUME NEW S
    PROVE  /\ <<>> \in Seq(S) /\ Len(<<>>) = 0 /\ DOMAIN <<>> = {}
           /\ \A q \in Seq(S) : Len(q) \in Nat /\ (Len(q) = 0 => q = <<>>)
OBVIOUS

-----------------------------------------------------------------------------
(* Session. *)

(* A sleeping task owns the stored waker.  poll stores it in the step that *)
(* finds no result, and closed_with takes it in the step that leaves one.  *)
SessionOK ==
    /\ task \in [Streams -> TaskSteps]
    /\ waker \in [Streams -> BOOLEAN]
    /\ DOMAIN closed = Streams
    /\ NoLostClose

(* The steps of the accept loop and of the connections' tasks, and what    *)
(* they do to the tasks: a stream gets its task, or is lost.               *)
LEMMA ListenTasks ==
    ASSUME task \in [Streams -> TaskSteps],
           \/ \E c \in Conns : Listen(c)
           \/ ListenerClosed \/ ReceiveNone \/ AcceptFails \/ DropAccept
    PROVE  /\ task' \in [Streams -> TaskSteps]
           /\ UNCHANGED <<session, counters>>
           /\ \A s \in Streams : \/ task'[s] = task[s]
                                 \/ task'[s] \in {"tls", "lost", "handshake"}
<1>1. CASE \E c \in Conns : Listen(c)
  <2>1. PICK c \in Conns : Listen(c) BY Zenon, <1>1
  <2>2. CASE task' = task BY Zenon, <2>1, <2>2 DEF Listen, AcceptConn, AcceptStream,
          SendFails, ConnClosed, Receive, AcceptTcp, session, counters
  <2>3. CASE SendFails(c) BY Zenon, <2>3 DEF SendFails, TaskSteps, session, counters
  <2>4. CASE Receive(c) BY Zenon, <2>4 DEF Receive, TaskSteps, session, counters
  <2>5. CASE AcceptTcp(c) BY Zenon, <2>5 DEF AcceptTcp, TaskSteps, session, counters
  <2> QED BY Zenon, <2>1, <2>2, <2>3, <2>4, <2>5
        DEF Listen, AcceptConn, AcceptStream, ConnClosed
<1>2. CASE ListenerClosed \/ ReceiveNone \/ AcceptFails
  BY Zenon, <1>2 DEF ListenerClosed, ReceiveNone, AcceptFails, session, counters
<1>3. CASE DropAccept BY Zenon, <1>3 DEF DropAccept, TaskSteps, session, counters
<1> QED BY Zenon, <1>1, <1>2, <1>3

(* Initially no task sleeps. *)
LEMMA SessionInit == ProxyInit => SessionOK
BY Zenon DEF ProxyInit, SessionOK, NoLostClose, TaskSteps

(* Every step keeps the wakers and results in order. *)
LEMMA SessionStep == SessionOK /\ [ProxyNext]_proxyVars => SessionOK'
<1> SUFFICES ASSUME SessionOK, [ProxyNext]_proxyVars PROVE SessionOK'
  BY Zenon
<1> USE DEF SessionOK
<1>1. CASE \/ \E c \in Conns : Listen(c)
           \/ ListenerClosed \/ ReceiveNone \/ AcceptFails \/ DropAccept
  BY ZenonT(60), <1>1, ListenTasks DEF NoLostClose, session
<1>2. CASE \E s \in Streams : Serve(s)
  <2>1. PICK s \in Streams : Serve(s) BY Zenon, <1>2
  <2>2. CASE TlsHandshaken(s) BY Zenon, <2>2 DEF TlsHandshaken, session, NoLostClose, TaskSteps
  <2>3. CASE TlsFails(s) BY Zenon, <2>3 DEF TlsFails, session, NoLostClose, TaskSteps
  <2>4. CASE HandshakeOk(s)
    BY Zenon, <2>4
       DEF HandshakeOk, ProxyGoto, session, NoLostClose, TaskSteps
  <2>5. CASE HandshakeErr(s)
    BY Zenon, <2>5
       DEF HandshakeErr, ProxyGoto, session, NoLostClose, TaskSteps
  <2>6. CASE AddConn(s) BY Zenon, <2>6 DEF AddConn, ProxyGoto, session, NoLostClose, TaskSteps
  <2>7. CASE PollReady(s) BY Zenon, <2>7 DEF PollReady, ProxyGoto, NoLostClose, TaskSteps
  <2>8. CASE PollPending(s) BY Zenon, <2>8 DEF PollPending, ProxyGoto, NoLostClose, TaskSteps
  <2>9. CASE Run(s) BY Zenon, <2>9 DEF Run, ProxyGoto, NoLostClose, TaskSteps
  <2>10. CASE SubConn(s) BY Zenon, <2>10 DEF SubConn, ProxyGoto, session, NoLostClose, TaskSteps
  <2>11. CASE AddClosed(s)
    BY Zenon, <2>11
       DEF AddClosed, ProxyGoto, session, NoLostClose, TaskSteps
  <2>12. CASE \E r \in Results : closed_with(s, r)
    BY <2>12 DEF closed_with, NoLostClose, TaskSteps
  <2> QED BY Zenon, <2>1, <2>2, <2>3, <2>4, <2>5, <2>6, <2>7, <2>8, <2>9, <2>10, <2>11, <2>12
        DEF Serve
<1>3. CASE UNCHANGED proxyVars BY Zenon, <1>3 DEF proxyVars, session, NoLostClose
<1> QED BY Zenon, <1>1, <1>2, <1>3 DEF ProxyNext

(* utils.rs: no close of a session is lost between a poll that found no    *)
(* result and the wake of the task, for any number of sessions.            *)
THEOREM RproxyNoLostClose == ProxySpec => []NoLostClose
<1>1. SessionOK => NoLostClose BY Zenon DEF SessionOK
<1> QED BY SessionInit, SessionStep, <1>1, PTL DEF ProxySpec

-----------------------------------------------------------------------------
(* The channel. *)

(* Types; a stream that was not accepted has no task; what is in the       *)
(* channel was accepted; and once the loop has ended by itself, or when    *)
(* the listener is not a QUIC one, nobody sends.                           *)
ChannelOK ==
    /\ listening \in BOOLEAN
    /\ conn \in [Conns -> {"none", "accept", "send", "ended"}]
    /\ accepted \in [Conns -> 0..MaxStreams]
    /\ queue \in Seq(Streams)
    /\ task \in [Streams -> TaskSteps]
    /\ \A s \in Streams : ~Accepted(s) => task[s] = "none"
    /\ \A i \in DOMAIN queue : Accepted(queue[i])
    /\ NoStreamForgotten
    /\ loop = "stopped" \/ Kind # "quic" => queue = <<>> /\ AllSendersGone

(* Initially the channel is empty. *)
LEMMA ChannelInit == ASSUME MaxStreams \in Nat PROVE ProxyInit => ChannelOK
<1> SUFFICES ASSUME ProxyInit PROVE ChannelOK
  BY Zenon
<1>1. listening \in BOOLEAN BY Zenon DEF ProxyInit
<1>2. queue = <<>> /\ queue \in Seq(Streams) /\ DOMAIN queue = {}
  BY Zenon, EmptyIs DEF ProxyInit
<1>3. Kind # "quic" => ~listening BY Zenon DEF ProxyInit
<1>4. \A s \in Streams : s[1] \in Conns /\ s[2] \in 1..MaxStreams
  BY Zenon DEF Streams
<1> QED BY <1>1, <1>2, <1>3, <1>4
      DEF ProxyInit, ChannelOK, NoStreamForgotten, AllSendersGone, Accepted, TaskSteps

(* The stream that a connection's next accept gives. *)
LEMMA NextStream ==
    ASSUME MaxStreams \in Nat, ChannelOK, NEW c \in Conns, accepted[c] < MaxStreams,
           accepted' = [accepted EXCEPT ![c] = @ + 1]
    PROVE  LET n == <<c, accepted[c] + 1>>
           IN  /\ n \in Streams /\ task[n] = "none" /\ ~Accepted(n)
               /\ accepted' \in [Conns -> 0..MaxStreams]
               /\ \A s \in Streams : Accepted(s)' <=> Accepted(s) \/ s = n
<1> DEFINE n == <<c, accepted[c] + 1>>
<1>1. n \in Streams /\ n[1] = c /\ n[2] = accepted[c] + 1
  BY DEF ChannelOK, Streams
<1>2. ~Accepted(n) BY <1>1 DEF ChannelOK, Accepted
<1>3. accepted' \in [Conns -> 0..MaxStreams] BY DEF ChannelOK
<1>4. ASSUME NEW s \in Streams PROVE Accepted(s)' <=> Accepted(s) \/ s = n
  <2>1. PICK d \in Conns, k \in 1..MaxStreams : s = <<d, k>> BY DEF Streams
  <2>2. CASE d = c BY <2>1, <2>2 DEF ChannelOK, Accepted
  <2>3. CASE d # c BY Zenon, <2>1, <2>3 DEF ChannelOK, Accepted
  <2> QED BY Zenon, <2>2, <2>3
<1>5. task[n] = "none" BY Zenon, <1>1, <1>2 DEF ChannelOK
<1> QED BY Zenon, <1>1, <1>2, <1>3, <1>4, <1>5

(* Steps that leave the channel and its senders alone and touch no stream  *)
(* without a task *)
LEMMA ChannelKept ==
    ASSUME ChannelOK, UNCHANGED <<listening, conn, accepted, queue>>,
           task' \in [Streams -> TaskSteps],
           \A s \in Streams : task'[s] = "none" <=> task[s] = "none",
           loop' = "stopped" /\ loop # "stopped" => queue = <<>> /\ AllSendersGone
    PROVE  ChannelOK'
<1>1. \A i \in DOMAIN queue : queue[i] \in Streams BY DEF ChannelOK
<1>2. \A s : Accepted(s)' <=> Accepted(s) BY Zenon DEF Accepted
<1>3. AllSendersGone' <=> AllSendersGone BY Zenon DEF AllSendersGone
<1> HIDE DEF Accepted, AllSendersGone
<1> QED BY <1>1, <1>2, <1>3 DEF ChannelOK, NoStreamForgotten

(* Every step keeps the channel in order. *)
LEMMA ChannelStep ==
    ASSUME MaxStreams \in Nat PROVE ChannelOK /\ [ProxyNext]_proxyVars => ChannelOK'
<1> SUFFICES ASSUME ChannelOK, [ProxyNext]_proxyVars PROVE ChannelOK'
  BY Zenon
<1>q. /\ queue \in Seq(Streams) /\ DOMAIN queue = 1..Len(queue) /\ Len(queue) \in Nat
      /\ \A i \in DOMAIN queue : queue[i] \in Streams
  BY DEF ChannelOK
<1>t. task \in [Streams -> TaskSteps] BY Zenon DEF ChannelOK
<1>1. ASSUME NEW c \in Conns, Listen(c) PROVE ChannelOK'
  <2> DEFINE n == <<c, accepted[c] + 1>>
  <2>1. CASE AcceptConn(c)
    <3>1. /\ conn' \in [Conns -> {"none", "accept", "send", "ended"}]
          /\ UNCHANGED <<listening, accepted, queue, loop, task>>
          /\ Kind = "quic" /\ loop # "stopped"
      BY Zenon, <2>1 DEF AcceptConn, ChannelOK, AllSendersGone
    <3>2. \A s : Accepted(s)' <=> Accepted(s) BY Zenon, <3>1 DEF Accepted
    <3> QED BY <3>1, <3>2 DEF ChannelOK, NoStreamForgotten
  <2>2. CASE AcceptStream(c)
    <3>1. /\ n \in Streams /\ task[n] = "none" /\ ~Accepted(n)
          /\ accepted' \in [Conns -> 0..MaxStreams]
          /\ \A s \in Streams : Accepted(s)' <=> Accepted(s) \/ s = n
      BY Zenon, <2>2, NextStream DEF AcceptStream
    <3>2. /\ queue' \in Seq(Streams) /\ Len(queue') = Len(queue) + 1
          /\ DOMAIN queue' = 1..(Len(queue) + 1)
          /\ queue'[Len(queue) + 1] = n
          /\ \A i \in 1..Len(queue) : queue'[i] = queue[i]
      BY <2>2, <3>1, <1>q, AppendIs DEF AcceptStream
    <3>3. /\ conn' \in [Conns -> {"none", "accept", "send", "ended"}]
          /\ UNCHANGED <<listening, loop, task>>
          /\ Kind = "quic" /\ loop # "stopped"
      BY Zenon, <2>2 DEF AcceptStream, ChannelOK, AllSendersGone
    <3>4. \A i \in 1..Len(queue) : queue[i] # n /\ Accepted(queue[i])
          /\ queue[i] \in Streams
      BY Zenon, <1>q, <3>1 DEF ChannelOK
    <3> HIDE DEF n
    <3>5. (\A i \in DOMAIN queue : Accepted(queue[i]))'
      <4>1. \A i \in DOMAIN queue' :
               queue'[i] \in Streams /\ (i = Len(queue) + 1 \/ i \in 1..Len(queue))
        BY <3>2, <1>q
      <4>2. \A i \in DOMAIN queue' : Accepted(queue'[i]) \/ queue'[i] = n
        BY Zenon, <4>1, <3>2, <3>4
      <4> QED BY Zenon, <4>1, <4>2, <3>1 DEF Accepted
    <3>6. NoStreamForgotten'
      <4>1. ASSUME NEW s \in Streams, Accepted(s)', task'[s] = "none"
            PROVE  \E i \in DOMAIN queue' : queue'[i] = s
        <5>1. CASE s = n BY <5>1, <3>2, <1>q
        <5>2. CASE s # n
          <6>1. PICK i \in DOMAIN queue : queue[i] = s
            BY ZenonT(60), <4>1, <5>2, <3>1, <3>3 DEF ChannelOK, NoStreamForgotten
          <6> QED BY <6>1, <3>2, <1>q
        <5> QED BY Zenon, <5>1, <5>2
      <4>2. ASSUME NEW i \in DOMAIN queue', NEW j \in DOMAIN queue'
            PROVE  task'[queue'[i]] = "none" /\ (queue'[i] = queue'[j] => i = j)
        BY <3>1, <3>2, <3>3, <3>4, <1>q DEF ChannelOK, NoStreamForgotten
      <4> QED BY Zenon, <4>1, <4>2, <3>3 DEF NoStreamForgotten, Accepted
    <3>7. (\A s \in Streams : ~Accepted(s) => task[s] = "none")'
      BY Zenon, <3>1, <3>3 DEF ChannelOK, Accepted
    <3> QED BY Zenon, <3>1, <3>2, <3>3, <3>5, <3>6, <3>7, <1>t DEF ChannelOK
  <2>3. CASE SendFails(c) \/ AcceptTcp(c)
    <3>1. /\ n \in Streams /\ task[n] = "none" /\ ~Accepted(n)
          /\ accepted' \in [Conns -> 0..MaxStreams]
          /\ \A s \in Streams : Accepted(s)' <=> Accepted(s) \/ s = n
      BY Zenon, <2>3, NextStream DEF SendFails, AcceptTcp
    <3>2. /\ UNCHANGED <<listening, queue>>
          /\ conn' \in [Conns -> {"none", "accept", "send", "ended"}]
          /\ loop' = "stopped" => loop = "stopped"
          /\ AllSendersGone => AllSendersGone'
      <4>1. CASE SendFails(c) BY Zenon, <4>1 DEF SendFails, ChannelOK, AllSendersGone
      <4>2. CASE AcceptTcp(c) BY Zenon, <4>2 DEF AcceptTcp, ChannelOK, AllSendersGone
      <4> QED BY Zenon, <2>3, <4>1, <4>2
    <3>3. /\ task' \in [Streams -> TaskSteps] /\ task'[n] # "none"
          /\ \A s \in Streams : s # n => task'[s] = task[s]
      BY ZenonT(60), <2>3, <3>1, <1>t DEF SendFails, AcceptTcp, TaskSteps
    <3>4. \A i \in DOMAIN queue : queue[i] # n
      BY Zenon, <3>1 DEF ChannelOK
    <3> HIDE DEF n
    <3>5. NoStreamForgotten'
      BY <3>1, <3>2, <3>3, <3>4, <1>q DEF ChannelOK, NoStreamForgotten
    <3> QED BY Zenon, <3>1, <3>2, <3>3, <3>5, <1>q DEF ChannelOK
  <2>4. CASE ConnClosed(c)
    <3>1. /\ conn' \in [Conns -> {"none", "accept", "send", "ended"}]
          /\ UNCHANGED <<listening, accepted, queue, loop, task>>
          /\ AllSendersGone => AllSendersGone'
      BY Zenon, <2>4 DEF ConnClosed, ChannelOK, AllSendersGone
    <3>2. \A s : Accepted(s)' <=> Accepted(s) BY Zenon, <3>1 DEF Accepted
    <3> QED BY <3>1, <3>2 DEF ChannelOK, NoStreamForgotten
  <2>5. CASE Receive(c)
    <3>1. /\ Len(queue) > 0 /\ Head(queue) = queue[1] /\ queue[1] \in Streams
          /\ task[queue[1]] = "none" /\ Accepted(queue[1])
      BY <2>5, <1>q, EmptyIs DEF Receive, ChannelOK, NoStreamForgotten
    <3>2. /\ queue' \in Seq(Streams) /\ Len(queue') = Len(queue) - 1
          /\ DOMAIN queue' = 1..(Len(queue) - 1)
          /\ \A i \in 1..(Len(queue) - 1) : queue'[i] = queue[i + 1]
      BY Zenon, <2>5, <1>q, TailIs DEF Receive
    <3>3. /\ conn' \in [Conns -> {"none", "accept", "send", "ended"}]
          /\ UNCHANGED <<listening, loop, accepted>>
          /\ Kind = "quic" /\ loop # "stopped"
      BY Zenon, <2>5, <1>q, <3>1 DEF Receive, ChannelOK
    <3>4. /\ task' \in [Streams -> TaskSteps] /\ task'[queue[1]] # "none"
          /\ \A s \in Streams : s # queue[1] => task'[s] = task[s]
      BY Zenon, <2>5, <3>1, <1>t DEF Receive, TaskSteps
    <3>5. \A s : Accepted(s)' <=> Accepted(s) BY Zenon, <3>3 DEF Accepted
    <3>a. \A i \in 1..(Len(queue) - 1) :
             /\ i + 1 \in DOMAIN queue /\ i + 1 # 1 /\ 1 \in DOMAIN queue
             /\ queue'[i] = queue[i + 1]
      BY <3>1, <3>2, <1>q
    <3>b. \A i \in 1..(Len(queue) - 1) :
             queue[i + 1] # queue[1] /\ Accepted(queue[i + 1])
             /\ task[queue[i + 1]] = "none"
      BY ZenonT(60), <3>a DEF ChannelOK, NoStreamForgotten
    <3>6. \A i \in DOMAIN queue' : queue'[i] # queue[1] /\ Accepted(queue'[i])
                                    /\ task'[queue'[i]] = "none"
      BY <3>2, <3>4, <3>a, <3>b, <1>q
    <3>7. ASSUME NEW s \in Streams, Accepted(s), task'[s] = "none"
          PROVE  \E i \in DOMAIN queue' : queue'[i] = s
      <4>1. s # queue[1] /\ task[s] = "none" BY Zenon, <3>4, <3>7
      <4>2. PICK i \in DOMAIN queue : queue[i] = s
        BY Zenon, <4>1, <3>7 DEF ChannelOK, NoStreamForgotten
      <4>3. i - 1 \in DOMAIN queue' /\ queue'[i - 1] = s
        BY <4>1, <4>2, <3>2, <1>q
      <4> QED BY Zenon, <4>3
    <3>8. \A i, j \in DOMAIN queue' : queue'[i] = queue'[j] => i = j
      <4>1. SUFFICES ASSUME NEW i \in 1..(Len(queue) - 1), NEW j \in 1..(Len(queue) - 1),
                            queue[i + 1] = queue[j + 1]
                     PROVE  i = j
        BY Zenon, <3>2, <3>a
      <4>2. i + 1 = j + 1 BY Zenon, <4>1, <3>a DEF ChannelOK, NoStreamForgotten
      <4> QED BY <4>2, <1>q
    <3>9. NoStreamForgotten'
      <4>1. (\A s \in Streams : Accepted(s) /\ task[s] = "none"
                                 => \E i \in DOMAIN queue : queue[i] = s)'
        BY Zenon, <3>5, <3>7 DEF Accepted
      <4> QED BY ZenonT(60), <4>1, <3>3, <3>6, <3>8 DEF NoStreamForgotten
    <3>c. /\ (\A s \in Streams : ~Accepted(s) => task[s] = "none")'
          /\ (\A i \in DOMAIN queue : Accepted(queue[i]))'
      <4>1. \A s \in Streams : ~Accepted(s) => task'[s] = "none"
        BY ZenonT(60), <3>1, <3>4 DEF ChannelOK
      <4> QED BY Zenon, <4>1, <3>3, <3>6 DEF Accepted
    <3> QED BY ZenonT(60), <3>2, <3>3, <3>4, <3>9, <3>c DEF ChannelOK
  <2> QED BY ZenonT(60), <1>1, <2>1, <2>2, <2>3, <2>4, <2>5 DEF Listen
<1>2. CASE ListenerClosed
  <2>1. listening' = FALSE /\ UNCHANGED <<conn, accepted, queue, loop, task>>
    BY Zenon, <1>2 DEF ListenerClosed
  <2>2. \A s : Accepted(s)' <=> Accepted(s) BY Zenon, <2>1 DEF Accepted
  <2>3. AllSendersGone => AllSendersGone' BY Zenon, <2>1 DEF AllSendersGone
  <2> HIDE DEF Accepted, AllSendersGone
  <2> QED BY ZenonT(60), <2>1, <2>2, <2>3 DEF ChannelOK, NoStreamForgotten
<1>3. CASE ReceiveNone BY Zenon, <1>3, <1>t, ChannelKept DEF ReceiveNone
<1>4. CASE AcceptFails BY Zenon, <1>4, <1>t, ChannelKept DEF AcceptFails, ChannelOK
<1>5. CASE DropAccept
  <2>1. /\ queue' = <<>> /\ queue' \in Seq(Streams) /\ DOMAIN queue' = {}
        /\ loop' = "dropped" /\ UNCHANGED <<listening, accepted>>
    BY Zenon, <1>5, EmptyIs DEF DropAccept
  <2>2. /\ conn' \in [Conns -> {"none", "accept", "send", "ended"}]
        /\ AllSendersGone => AllSendersGone'
    BY Zenon, <1>5 DEF DropAccept, ChannelOK, AllSendersGone
  <2>3. \A s : Accepted(s)' <=> Accepted(s) BY Zenon, <2>1 DEF Accepted
  <2>4. /\ task' \in [Streams -> TaskSteps]
        /\ \A s \in Streams : IF Accepted(s) THEN task'[s] # "none"
                                             ELSE task'[s] = task[s]
    BY Zenon, <1>5, <1>t DEF DropAccept, TaskSteps
  <2> HIDE DEF Accepted, AllSendersGone
  <2> QED BY Zenon, <2>1, <2>2, <2>3, <2>4 DEF ChannelOK, NoStreamForgotten
<1>6. CASE \E s \in Streams : Serve(s)
  <2>1. PICK s \in Streams : Serve(s) BY Zenon, <1>6
  <2>2. CASE TlsHandshaken(s) \/ TlsFails(s)
    BY Zenon, <2>2, <1>t, ChannelKept DEF TlsHandshaken, TlsFails, TaskSteps
  <2>3. CASE \/ HandshakeOk(s) \/ HandshakeErr(s) \/ AddConn(s) \/ PollReady(s)
             \/ PollPending(s) \/ Run(s) \/ SubConn(s) \/ AddClosed(s)
    <3>1. PICK from \in TaskSteps \ {"none"}, to \in TaskSteps \ {"none"} :
              ProxyGoto(s, from, to)
      BY Zenon, <2>3 DEF HandshakeOk, HandshakeErr, AddConn, PollReady, PollPending, Run,
                  SubConn, AddClosed, TaskSteps
    <3>2. UNCHANGED acceptor
      BY Zenon, <2>3 DEF HandshakeOk, HandshakeErr, AddConn, PollReady, PollPending, Run,
                  SubConn, AddClosed
    <3> QED BY Zenon, <3>1, <3>2, <1>t, ChannelKept DEF ProxyGoto, acceptor
  <2>4. CASE \E r \in Results : closed_with(s, r)
    BY Zenon, <2>4, <1>t, ChannelKept DEF closed_with, acceptor
  <2> QED BY Zenon, <2>1, <2>2, <2>3, <2>4 DEF Serve
<1>7. CASE UNCHANGED proxyVars BY Zenon, <1>7, <1>t, ChannelKept DEF proxyVars, acceptor
<1> QED BY ZenonT(60), <1>1, <1>2, <1>3, <1>4, <1>5, <1>6, <1>7 DEF ProxyNext

(* quic.rs: no stream is forgotten or served twice on its way from the     *)
(* connection that accepted it to its task, for any number of connections  *)
(* and streams and whichever sender the channel unparks.                   *)
THEOREM RproxyNoStreamForgotten ==
    ASSUME MaxStreams \in Nat PROVE ProxySpec => []NoStreamForgotten
<1>1. ChannelOK => NoStreamForgotten BY Zenon DEF ChannelOK
<1> QED BY ChannelInit, ChannelStep, <1>1, PTL DEF ProxySpec

(* The items in the channel are as many as the senders that are parked. *)
PressureOK == IsFiniteSet(Sending) /\ BackPressure

(* Initially nobody is parked. *)
LEMMA PressureInit == ProxyInit => PressureOK
<1> SUFFICES ASSUME ProxyInit PROVE PressureOK
  BY Zenon
<1>1. Sending = {} BY Zenon DEF ProxyInit, Sending
<1> QED BY Zenon, <1>1, FS_EmptySet DEF ProxyInit, PressureOK, BackPressure

(* A send parks its sender, a receive unparks one. *)
LEMMA PressureStep ==
    ASSUME MaxStreams \in Nat
    PROVE  ChannelOK /\ PressureOK /\ [ProxyNext]_proxyVars => PressureOK'
<1> SUFFICES ASSUME ChannelOK, PressureOK, [ProxyNext]_proxyVars PROVE PressureOK'
  BY Zenon
<1>t. /\ conn \in [Conns -> {"none", "accept", "send", "ended"}]
      /\ queue \in Seq(Streams) /\ Len(queue) \in Nat
      /\ Len(queue) = Cardinality(Sending) /\ IsFiniteSet(Sending)
  BY DEF ChannelOK, PressureOK, BackPressure
<1>k. ASSUME Sending' = Sending, queue' = queue PROVE PressureOK'
  BY Zenon, <1>k DEF PressureOK, BackPressure
<1>1. ASSUME NEW c \in Conns, Listen(c) PROVE PressureOK'
  <2>1. CASE AcceptConn(c) BY Zenon, <2>1, <1>t, <1>k DEF AcceptConn, Sending
  <2>2. CASE AcceptStream(c)
    <3>1. <<c, accepted[c] + 1>> \in Streams
      BY <2>2 DEF AcceptStream, ChannelOK, Streams
    <3>2. Len(queue') = Len(queue) + 1
      BY <2>2, <3>1, <1>t, AppendIs DEF AcceptStream
    <3>3. c \notin Sending /\ Sending' = Sending \cup {c}
      BY Zenon, <2>2, <1>t DEF AcceptStream, Sending
    <3> QED BY <3>2, <3>3, <1>t, FS_AddElement DEF PressureOK, BackPressure
  <2>3. CASE SendFails(c) BY Zenon, <2>3, <1>t, <1>k DEF SendFails, Sending
  <2>4. CASE ConnClosed(c) BY Zenon, <2>4, <1>t, <1>k DEF ConnClosed, Sending
  <2>5. CASE Receive(c)
    <3>1. Len(queue') = Len(queue) - 1
      BY Zenon, <2>5, <1>t, TailIs DEF Receive
    <3>2. c \in Sending /\ Sending' = Sending \ {c}
      BY Zenon, <2>5, <1>t DEF Receive, Sending
    <3> QED BY Zenon, <3>1, <3>2, <1>t, FS_RemoveElement DEF PressureOK, BackPressure
  <2>6. CASE AcceptTcp(c) BY Zenon, <2>6, <1>k DEF AcceptTcp, Sending
  <2> QED BY ZenonT(60), <1>1, <2>1, <2>2, <2>3, <2>4, <2>5, <2>6 DEF Listen
<1>2. CASE ListenerClosed \/ ReceiveNone \/ AcceptFails
  BY Zenon, <1>2, <1>k DEF ListenerClosed, ReceiveNone, AcceptFails, Sending
<1>3. CASE DropAccept
  <2>1. Sending' = {} /\ queue' = <<>> BY Zenon, <1>3 DEF DropAccept, Sending
  <2> QED BY Zenon, <2>1, FS_EmptySet, EmptyIs DEF PressureOK, BackPressure
<1>4. CASE \E s \in Streams : Serve(s)
  <2>1. conn' = conn /\ queue' = queue
    BY Zenon, <1>4 DEF Serve, TlsHandshaken, TlsFails, HandshakeOk, HandshakeErr, AddConn,
       PollReady, PollPending, Run, SubConn, AddClosed, closed_with, acceptor
  <2> QED BY Zenon, <2>1, <1>k DEF Sending
<1>5. CASE UNCHANGED proxyVars BY Zenon, <1>5, <1>k DEF proxyVars, acceptor, Sending
<1> QED BY Zenon, <1>1, <1>2, <1>3, <1>4, <1>5 DEF ProxyNext

(* quic.rs: channel(0) lets no more streams pile up than there are         *)
(* connection tasks, each of which waits, for any number of them.          *)
THEOREM RproxyBackPressure == ASSUME MaxStreams \in Nat PROVE ProxySpec => []BackPressure
<1>1. PressureOK => BackPressure BY Zenon DEF PressureOK
<1> QED BY ChannelInit, ChannelStep, PressureInit, PressureStep, <1>1, PTL DEF ProxySpec

-----------------------------------------------------------------------------
(* The counters. *)

CountOK ==
    /\ task \in [Streams -> TaskSteps]
    /\ IsFiniteSet(Awaited) /\ IsFiniteSet(Ended)
    /\ StatsFollowTasks

(* Nothing is counted initially. *)
LEMMA CountInit == ProxyInit => CountOK
<1> SUFFICES ASSUME ProxyInit PROVE CountOK
  BY Zenon
<1>1. Awaited = {} /\ Ended = {} BY Zenon DEF ProxyInit, Awaited, Ended
<1> QED BY Zenon, <1>1, FS_EmptySet DEF ProxyInit, CountOK, StatsFollowTasks, TaskSteps

(* Each of the four steps that touches a counter moves one task. *)
LEMMA CountStep ==
    ASSUME MaxStreams \in Nat
    PROVE  ChannelOK /\ CountOK /\ [ProxyNext]_proxyVars => CountOK'
<1> SUFFICES ASSUME ChannelOK, CountOK, [ProxyNext]_proxyVars PROVE CountOK'
  BY Zenon
<1> USE DEF CountOK
<1>a. /\ conns \in Int /\ closed_conns \in Int
      /\ conns = Cardinality(Awaited) /\ closed_conns = Cardinality(Ended)
  BY FS_CardinalityType DEF StatsFollowTasks
<1>b. ASSUME task' \in [Streams -> TaskSteps], Awaited' = Awaited, Ended' = Ended,
             UNCHANGED counters
      PROVE  CountOK'
  BY Zenon, <1>a, <1>b DEF StatsFollowTasks, counters
<1>1. CASE \/ \E c \in Conns : Listen(c)
           \/ ListenerClosed \/ ReceiveNone \/ AcceptFails \/ DropAccept
  <2>1. task' \in [Streams -> TaskSteps] /\ UNCHANGED counters
    BY Zenon, <1>1, ListenTasks
  <2>2. \A s \in Streams : \/ task'[s] = task[s]
                           \/ /\ task[s] \in {"none", "tls"}
                              /\ task'[s] \in {"tls", "lost", "handshake"}
    <3>1. CASE \E c \in Conns : Listen(c)
      <4>1. PICK c \in Conns : Listen(c) BY Zenon, <3>1
      <4>2. CASE SendFails(c) \/ AcceptTcp(c)
        <5>1. task[<<c, accepted[c] + 1>>] = "none"
          BY Zenon, <4>2, NextStream DEF SendFails, AcceptTcp
        <5> QED BY Zenon, <4>2, <5>1 DEF SendFails, AcceptTcp
      <4>3. CASE Receive(c)
        <5>1. task[Head(queue)] = "none"
          BY <4>3, EmptyIs DEF Receive, ChannelOK, NoStreamForgotten
        <5> QED BY Zenon, <4>3, <5>1 DEF Receive
      <4> QED BY Zenon, <4>1, <4>2, <4>3 DEF Listen, AcceptConn, AcceptStream, ConnClosed
    <3>2. CASE DropAccept BY Zenon, <3>2 DEF DropAccept
    <3> QED BY Zenon, <1>1, <3>1, <3>2 DEF ListenerClosed, ReceiveNone, AcceptFails
  <2>3. Awaited' = Awaited /\ Ended' = Ended BY Zenon, <2>1, <2>2 DEF Awaited, Ended
  <2> QED BY Zenon, <2>1, <2>3, <1>b
<1>2. CASE \E s \in Streams : Serve(s)
  <2>1. PICK s \in Streams : Serve(s) BY Zenon, <1>2
  <2>2. CASE TlsHandshaken(s) \/ TlsFails(s)
    BY Zenon, <2>2, <1>b DEF TlsHandshaken, TlsFails, Awaited, Ended, TaskSteps
  <2>3. CASE HandshakeOk(s) \/ HandshakeErr(s)
    BY Zenon, <2>3, <1>b DEF HandshakeOk, HandshakeErr, ProxyGoto, Awaited, Ended, TaskSteps
  <2>4. CASE PollReady(s)
    BY Zenon, <2>4, <1>b DEF PollReady, ProxyGoto, Awaited, Ended, TaskSteps
  <2>5. CASE PollPending(s)
    BY Zenon, <2>5, <1>b DEF PollPending, ProxyGoto, Awaited, Ended, TaskSteps
  <2>6. CASE Run(s)
    BY Zenon, <2>6, <1>b DEF Run, ProxyGoto, Awaited, Ended, TaskSteps
  <2>7. CASE \E r \in Results : closed_with(s, r)
    BY Zenon, <2>7, <1>b DEF closed_with, Awaited, Ended
  <2>8. CASE AddConn(s)
    <3>1. /\ task' \in [Streams -> TaskSteps] /\ s \notin Awaited
          /\ Awaited' = Awaited \cup {s} /\ Ended' = Ended
      BY Zenon, <2>8 DEF AddConn, ProxyGoto, Awaited, Ended, TaskSteps
    <3> QED BY <2>8, <3>1, <1>a, FS_AddElement DEF AddConn, StatsFollowTasks
  <2>9. CASE SubConn(s)
    <3>1. /\ task' \in [Streams -> TaskSteps] /\ s \in Awaited
          /\ Awaited' = Awaited \ {s} /\ Ended' = Ended
      BY Zenon, <2>9 DEF SubConn, ProxyGoto, Awaited, Ended, TaskSteps
    <3> QED BY <2>9, <3>1, <1>a, FS_RemoveElement DEF SubConn, StatsFollowTasks
  <2>10. CASE AddClosed(s)
    <3>1. /\ task' \in [Streams -> TaskSteps] /\ s \notin Ended
          /\ Ended' = Ended \cup {s} /\ Awaited' = Awaited
      BY Zenon, <2>10 DEF AddClosed, ProxyGoto, Awaited, Ended, TaskSteps
    <3> QED BY <2>10, <3>1, <1>a, FS_AddElement DEF AddClosed, StatsFollowTasks
  <2> QED BY ZenonT(60), <2>1, <2>2, <2>3, <2>4, <2>5, <2>6, <2>7, <2>8, <2>9, <2>10 DEF Serve
<1>3. CASE UNCHANGED proxyVars BY ZenonT(60), <1>3, <1>b DEF proxyVars, Awaited, Ended
<1> QED BY Zenon, <1>1, <1>2, <1>3 DEF ProxyNext

(* rproxy.rs: stats tells how many sessions are open and how many ended,   *)
(* for any interleaving of any number of tasks.                            *)
THEOREM RproxyStatsFollowTasks ==
    ASSUME MaxStreams \in Nat PROVE ProxySpec => []StatsFollowTasks
<1>1. CountOK => StatsFollowTasks BY Zenon DEF CountOK
<1> QED BY ChannelInit, ChannelStep, CountInit, CountStep, <1>1, PTL DEF ProxySpec

=============================================================================
