------------------------------ MODULE UdpGroup ------------------------------
(***************************************************************************)
(* hala-udp, src/group.rs: one buffer for the batched reads of a group of  *)
(* sockets.  recv_from leaves a box with the pointer to its buffer in      *)
(* batching_read_buf; the read future of each socket takes it out for the  *)
(* time of its poll, and puts it back or frees it.  A caller that gives up *)
(* (the timeout of QuicConn::connect_with) leaves the pointer behind.      *)
(*                                                                         *)
(* One caller at a time, as the doc demands.  send_to and the write        *)
(* futures are the same code with the buffer for writing.  The poller and  *)
(* the FutureBatcher are taken at their promise (modules Poller and        *)
(* FutureBatcher): a socket that is or becomes ready wakes the waker of    *)
(* its last poll, which queues its future.                                 *)
(***************************************************************************)
EXTENDS Integers, Sequences, FiniteSets, Functions

CONSTANTS Fds,      \* the sockets of the group
          Boxes,    \* the addresses of boxes
          Null,     \* the null pointer
          MaxData   \* how many datagrams a socket holds at most

ASSUME NullAssumption == Null \notin Boxes
ASSUME BoundAssumption == MaxData \in Nat \ {0}

VARIABLES
    buf,        \* batching_read_buf
    heap,       \* the boxes that are allocated
    target,     \* the box of the call that is in progress
    queue,      \* batching_reader: the ids of futures to be polled
    registered, \* the sockets whose waker is registered with the poller
    data,       \* the number of datagrams each socket holds
    at,         \* the next step of the caller
    cur,        \* the socket whose future is being polled, or was ready
    mine        \* the box its poll has taken

groupVars == <<buf, heap, target, queue, registered, data, at, cur, mine>>

(* wait: in Wait::poll; cntl: in the poll of a read future; push: wait has
   returned; parked: Pending.  At "panic" an assertion has failed. *)
Steps == {"idle", "wait", "cntl", "push", "parked"}

(* In particular, no assertion on the buffer fails. *)
GroupTypeOK ==
    /\ buf \in Boxes \cup {Null}
    /\ heap \in SUBSET Boxes
    /\ target \in Boxes \cup {Null}
    /\ queue \in Seq(Fds)
    /\ registered \in SUBSET Fds
    /\ data \in [Fds -> 0 .. MaxData]
    /\ at \in Steps
    /\ cur \in Fds
    /\ mine \in Boxes \cup {Null}

(* bind: init_push_batch_ops has pushed a read future for each socket, in the
   order of the map. *)
GroupInit ==
    /\ buf = Null
    /\ heap = {}
    /\ target = Null
    /\ queue \in Bijection(1 .. Cardinality(Fds), Fds)
    /\ registered = {}
    /\ data = [f \in Fds |-> 0]
    /\ at = "idle"
    /\ cur \in Fds
    /\ mine = Null

GroupGoto(from, to) ==
    /\ at = from
    /\ at' = to

-----------------------------------------------------------------------------
(* Mutant: the box of an earlier call stays in place. *)
RecvFromKeep ==
    /\ GroupGoto("idle", "wait")
    /\ \E b \in Boxes \ heap :
           /\ target' = b
           /\ buf' = IF buf = Null THEN b ELSE buf
           /\ heap' = heap \cup {buf'}
    /\ UNCHANGED <<queue, registered, data, cur, mine>>

(* Mutant: the box of an earlier call is overwritten. *)
RecvFromLeak ==
    /\ GroupGoto("idle", "wait")
    /\ \E b \in Boxes \ heap :
           /\ target' = b
           /\ buf' = b
           /\ heap' = heap \cup {b}
    /\ UNCHANGED <<queue, registered, data, cur, mine>>

(* recv_from: the box of an earlier call that gave up is freed. *)
RecvFrom ==
    /\ GroupGoto("idle", "wait")
    /\ \E b \in Boxes \ heap :
           /\ target' = b
           /\ buf' = b
           /\ heap' = (heap \cup {b}) \ {buf}
    /\ UNCHANGED <<queue, registered, data, cur, mine>>

(* The next future is polled: it takes the buffer out. *)
PollTake ==
    /\ queue # <<>>
    /\ GroupGoto("wait", IF buf = Null THEN "panic" ELSE "cntl")
    /\ cur' = Head(queue)
    /\ queue' = Tail(queue)
    /\ mine' = buf
    /\ buf' = Null
    /\ UNCHANGED <<heap, target, registered, data>>

(* fd_cntl(RecvFrom) has filled the buffer, or has failed: the box is freed and
   wait returns. *)
PollReady ==
    /\ GroupGoto("cntl", "push")
    /\ data' \in {data} \cup
                 (IF data[cur] > 0 THEN {[data EXCEPT ![cur] = @ - 1]} ELSE {})
    /\ heap' = heap \ {mine}
    /\ mine' = Null
    /\ UNCHANGED <<buf, target, queue, registered, cur>>

(* Mutant: the buffer is not put back. *)
PollBlockKeep ==
    /\ data[cur] = 0
    /\ GroupGoto("cntl", "wait")
    /\ mine' = Null
    /\ registered' = registered \cup {cur}
    /\ UNCHANGED <<buf, heap, target, queue, data, cur>>

(* WouldBlock: the buffer is put back and the next future is polled. *)
PollBlock ==
    /\ data[cur] = 0
    /\ GroupGoto("cntl", IF buf = Null THEN "wait" ELSE "panic")
    /\ buf' = mine
    /\ mine' = Null
    /\ registered' = registered \cup {cur}
    /\ UNCHANGED <<heap, target, queue, data, cur>>

Park ==
    /\ queue = <<>>
    /\ GroupGoto("wait", "parked")
    /\ UNCHANGED <<buf, heap, target, queue, registered, data, cur, mine>>

Repoll ==
    /\ queue # <<>>
    /\ GroupGoto("parked", "wait")
    /\ UNCHANGED <<buf, heap, target, queue, registered, data, cur, mine>>

(* Mutant: the socket is the next to be polled again. *)
PushFront ==
    /\ GroupGoto("push", "idle")
    /\ queue' = <<cur>> \o queue
    /\ target' = Null
    /\ UNCHANGED <<buf, heap, registered, data, cur, mine>>

(* recv_from pushes the read future anew, at the end of the queue, and returns. *)
Push ==
    /\ GroupGoto("push", "idle")
    /\ queue' = Append(queue, cur)
    /\ target' = Null
    /\ UNCHANGED <<buf, heap, registered, data, cur, mine>>

(* The caller drops the future of recv_from. *)
GiveUp ==
    /\ GroupGoto("parked", "idle")
    /\ target' = Null
    /\ UNCHANGED <<buf, heap, queue, registered, data, cur, mine>>

-----------------------------------------------------------------------------
(* The sockets and the poller *)

Arrive(f) ==
    /\ data[f] < MaxData
    /\ data' = [data EXCEPT ![f] = @ + 1]
    /\ UNCHANGED <<buf, heap, target, queue, registered, at, cur, mine>>

Wake(f) ==
    /\ f \in registered /\ data[f] > 0
    /\ registered' = registered \ {f}
    /\ queue' = Append(queue, f)
    /\ UNCHANGED <<buf, heap, target, data, at, cur, mine>>

(* A call of recv_from; send_to and push_batch_write take the same steps with
   batching_write_buf, batching_writer and a socket that is ready for sending. *)
Recv == RecvFrom \/ PollTake \/ PollReady \/ PollBlock \/ Park \/ Repoll \/ Push

GroupNext == Recv \/ GiveUp \/ \E f \in Fds : Arrive(f) \/ Wake(f)

GroupSpec == GroupInit /\ [][GroupNext]_groupVars

-----------------------------------------------------------------------------
(* A datagram is written to the buffer of the call in progress, never to one
   that an earlier call left behind. *)
NoStaleBuffer == at = "cntl" => mine = target

(* Every box is freed once: what is allocated is the one in batching_read_buf
   or the one a poll has taken, and these are not freed yet. *)
NoLeak == heap = {buf, mine} \ {Null}
=============================================================================
