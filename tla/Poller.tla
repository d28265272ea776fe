------------------------------- MODULE Poller -------------------------------
(***************************************************************************)
(* hala-io, src/mio: a socket is opened, registered with the poller, used  *)
(* and closed (the types of hala-tcp and hala-udp).  Tasks call its        *)
(* nonblocking operations (driver.rs, nonblocking_call) and one thread of  *)
(* MioContext repeats poll_once (poller.rs), which turns the               *)
(* edge-triggered events of mio into wake-ups.  One action is one access   *)
(* to shared state.                                                        *)
(*                                                                         *)
(* A channel is one direction of one socket: its waker is the entry of the *)
(* token in read_wakers or write_wakers.  The kernel is external: each     *)
(* change of a socket's readiness, or an error of the socket, is an edge,  *)
(* and polling reports the readiness found at that time.                   *)
(***************************************************************************)
EXTENDS Integers

CONSTANTS Tokens,      \* the sockets
          Tasks,       \* the tasks using them
          Uses,        \* the socket and the operation each task calls
          Nobody,      \* no waker
          MayInterrupt \* whether mio's poll can fail (a signal, EINTR)

Chans == Tokens \X {"read", "write"}

(* The direction whose waker each operation gives to nonblocking_call *)
Interest == [accept |-> "read", read |-> "read", recv_from |-> "read",
             write |-> "write", sendto |-> "write"]

ASSUME NobodyAssumption == Nobody \notin Tasks
ASSUME UsesAssumption == Uses \in [Tasks -> Tokens \X DOMAIN Interest]
ASSUME InterruptAssumption == MayInterrupt \in BOOLEAN

VARIABLES ready,       \* the channels on which an operation would not block
          failed,      \* the sockets with an error not yet reported
          shut,        \* the sockets shut down in both directions
          edges,       \* the sockets mio has an event for
          handle,      \* how far fd_open, register and fd_close have come
          wakers,      \* read_wakers and write_wakers
          pc,          \* the next step of each task
          woken,       \* the tasks in a call woken since they were last polled
          displaced,   \* history: those whose waker another task has removed
          ppc,         \* the next step of the poll thread
          events       \* hala_events, as the channels still to be woken

kernel == <<ready, failed, shut, edges>>
thread == <<ppc, events>>
vars == <<kernel, handle, wakers, pc, woken, displaced, thread>>

Token(t) == Uses[t][1]
Chan(t) == <<Token(t), Interest[Uses[t][2]]>>

(* add_waker, call, remove_waker: inside nonblocking_call; pending: it has
   returned WouldBlock to a future, which has returned Pending. *)
Steps == {"idle", "add_waker", "call", "remove_waker", "pending"}

TypeOK ==
    /\ ready \in SUBSET Chans
    /\ failed \in SUBSET Tokens
    /\ shut \in SUBSET Tokens
    /\ edges \in SUBSET Tokens
    /\ handle \in [Tokens -> {"none", "fresh", "leaked", "open", "deregistered", "closed"}]
    /\ wakers \in [Chans -> Tasks \cup {Nobody}]
    /\ pc \in [Tasks -> Steps]
    /\ woken \in SUBSET Tasks
    /\ displaced \in SUBSET Tasks
    /\ ppc \in {"poll", "wake", "dead"}
    /\ events \in SUBSET Chans

Init ==
    /\ ready = {}
    /\ failed = {}
    /\ shut = {}
    /\ edges = {}
    /\ handle = [k \in Tokens |-> "none"]
    /\ wakers = [c \in Chans |-> Nobody]
    /\ pc = [t \in Tasks |-> "idle"]
    /\ woken = {}
    /\ displaced = {}
    /\ ppc = "poll"
    /\ events = {}

Goto(t, from, to) ==
    /\ pc[t] = from
    /\ pc' = [pc EXCEPT ![t] = to]

-----------------------------------------------------------------------------
(* The kernel *)

(* The sockets for which a change of readiness is an event *)
Registered == {k \in Tokens : handle[k] = "open"}

(* Data, a connection or room for data arrives. *)
Arrive(c) ==
    /\ handle[c[1]] \in {"fresh", "open"}
    /\ ready' = ready \cup {c}
    /\ edges' = edges \cup ({c[1]} \cap Registered)
    /\ UNCHANGED <<failed, shut, handle, wakers, pc, woken, displaced, thread>>

(* The socket fails (a reset, an ICMP error): the next operation reports it. *)
Fail(k) ==
    /\ handle[k] \in {"fresh", "open"}
    /\ failed' = failed \cup {k}
    /\ edges' = edges \cup ({k} \cap Registered)
    /\ UNCHANGED <<ready, shut, handle, wakers, pc, woken, displaced, thread>>

(* TcpStream::shutdown(Both), which poll_close calls: from now on a read finds
   the end and a write fails, so neither blocks.  Both are events. *)
Shutdown(k) ==
    /\ handle[k] = "open"
    /\ \A t \in Tasks : Token(t) = k => Uses[t][2] \in {"read", "write"}
    /\ k \notin shut
    /\ shut' = shut \cup {k}
    /\ ready' = ready \cup {<<k, "read">>, <<k, "write">>}
    /\ edges' = edges \cup {k}
    /\ UNCHANGED <<failed, handle, wakers, pc, woken, displaced, thread>>

(* mio reports socket k: something is ready, or it failed. *)
Reported(k) == k \in failed \/ \E c \in ready : c[1] = k

-----------------------------------------------------------------------------
(* The start of a socket *)

(* fd_open: the socket is bound or connected, and what arrives now is nobody's
   event. *)
Open(k) ==
    /\ handle[k] = "none"
    /\ handle' = [handle EXCEPT ![k] = "fresh"]
    /\ UNCHANGED <<kernel, wakers, pc, woken, displaced, thread>>

(* Cmd::Register: the kernel reports what is ready at that time. *)
Register(k) ==
    /\ handle[k] = "fresh"
    /\ handle' = [handle EXCEPT ![k] = "open"]
    /\ edges' = IF Reported(k) THEN edges \cup {k} ELSE edges
    /\ UNCHANGED <<ready, failed, shut, wakers, pc, woken, displaced, thread>>

(* The registration fails.  fd_close does, too, because deregister does, and
   drop_as is not reached. *)
RegisterFails(k) ==
    /\ handle[k] = "fresh"
    /\ handle' = [handle EXCEPT ![k] = "leaked"]
    /\ UNCHANGED <<kernel, wakers, pc, woken, displaced, thread>>

-----------------------------------------------------------------------------
(* nonblocking_call *)

(* The operation is called, or the executor polls the pending future again. *)
Call(t) ==
    /\ handle[Token(t)] = "open"
    /\ pc[t] = "idle" \/ (pc[t] = "pending" /\ t \in woken)
    /\ pc' = [pc EXCEPT ![t] = "add_waker"]
    /\ woken' = woken \ {t}
    /\ UNCHANGED <<kernel, handle, wakers, displaced, thread>>

(* The tasks in a call: to wake another one has no effect. *)
InCall == {t \in Tasks : pc[t] # "idle"}

(* The waker of channel c becomes w, on behalf of task t. *)
SetWaker(t, c, w) ==
    /\ wakers' = [wakers EXCEPT ![c] = w]
    /\ displaced' = (displaced \ {t}) \cup (({wakers[c]} \ {t}) \cap InCall)

(* The call of task t is over, in this step. *)
Over(t, from) ==
    /\ Goto(t, from, "idle")
    /\ woken' = woken \ {t}

(* poller.add_waker(token, interests, waker) *)
AddWaker(t) ==
    /\ Goto(t, "add_waker", "call")
    /\ SetWaker(t, Chan(t), t)
    /\ UNCHANGED <<kernel, handle, woken, thread>>

(* f() fails: the error of the socket, or a write after the shutdown. *)
Fails(t) == Token(t) \in failed \/ (Token(t) \in shut /\ Chan(t)[2] = "write")

(* f() is Ok; it may or may not have used up what was ready, except for the end
   of a socket that is shut down.  Interrupted calls f again and is a stuttering
   step. *)
CallOk(t) ==
    /\ Chan(t) \in ready
    /\ ~ Fails(t)
    /\ Goto(t, "call", "remove_waker")
    /\ ready' \in {ready} \cup (IF Token(t) \in shut THEN {} ELSE {ready \ {Chan(t)}})
    /\ UNCHANGED <<failed, shut, edges, handle, wakers, woken, displaced, thread>>

(* f() is WouldBlock: the waker stays, the future is pending. *)
CallWouldBlock(t) ==
    /\ Chan(t) \notin ready
    /\ ~ Fails(t)
    /\ Goto(t, "call", "pending")
    /\ UNCHANGED <<kernel, handle, wakers, woken, displaced, thread>>

(* f() fails; the waker stays.  A send_to that has another address calls again,
   as a task may. *)
CallErr(t) ==
    /\ Fails(t)
    /\ Over(t, "call")
    /\ displaced' = displaced \ {t}
    /\ failed' = failed \ {Token(t)}
    /\ UNCHANGED <<ready, shut, edges, handle, wakers, thread>>

(* poller.remove_waker(token, interests), whoever's waker it has become *)
RemoveWaker(t) ==
    /\ Over(t, "remove_waker")
    /\ SetWaker(t, Chan(t), Nobody)
    /\ UNCHANGED <<kernel, handle, thread>>

(* The pending future is dropped; its waker stays. *)
Abandon(t) ==
    /\ Over(t, "pending")
    /\ displaced' = displaced \ {t}
    /\ UNCHANGED <<kernel, handle, wakers, thread>>

-----------------------------------------------------------------------------
(* fd_close; the futures using a socket borrow it, so none is left. *)

(* registry.deregister(source) *)
Deregister(k) ==
    /\ handle[k] = "open"
    /\ \A t \in Tasks : Token(t) = k => pc[t] = "idle"
    /\ handle' = [handle EXCEPT ![k] = "deregistered"]
    /\ edges' = edges \ {k}
    /\ UNCHANGED <<ready, failed, shut, wakers, pc, woken, displaced, thread>>

(* Mutant: the waker of the other direction is the one removed. *)
CloseWritable(k) ==
    /\ handle[k] = "deregistered"
    /\ handle' = [handle EXCEPT ![k] = "closed"]
    /\ wakers' = [wakers EXCEPT ![<<k, "write">>] = Nobody]
    /\ woken' = woken \cup ({wakers[<<k, "write">>]} \cap InCall)
    /\ UNCHANGED <<kernel, pc, displaced, thread>>

(* remove_waker(token, Interest::all()), which removes the read waker and not
   the write waker; it is woken, and drop_as frees the socket. *)
Close(k) ==
    /\ handle[k] = "deregistered"
    /\ handle' = [handle EXCEPT ![k] = "closed"]
    /\ wakers' = [wakers EXCEPT ![<<k, "read">>] = Nobody]
    /\ woken' = woken \cup ({wakers[<<k, "read">>]} \cap InCall)
    /\ UNCHANGED <<kernel, pc, displaced, thread>>

-----------------------------------------------------------------------------
(* poll_once, again and again on the thread of MioContext *)

(* Mutant: every event is taken to be one or the other, readable first. *)
InterestsExclusive(k) ==
    IF <<k, "read">> \in ready THEN {<<k, "read">>} ELSE {<<k, "write">>}

(* The interests of an event: an event that is not readable is writable,
   whatever it says, and one that is readable is writable if it says so. *)
Interests(k) ==
    IF <<k, "read">> \notin ready THEN {<<k, "write">>}
    ELSE IF <<k, "write">> \notin ready THEN {<<k, "read">>}
    ELSE {<<k, "read">>, <<k, "write">>}

(* mio_poller.lock().poll(&mut events, ...), and the loop over the events *)
PollEvents ==
    /\ ppc = "poll"
    /\ ppc' = "wake"
    /\ events' = UNION {Interests(k) : k \in {j \in edges : Reported(j)}}
    /\ edges' = {}
    /\ UNCHANGED <<ready, failed, shut, handle, wakers, pc, woken, displaced>>

(* poll fails and MioContext's thread unwraps the error. *)
PollFails ==
    /\ MayInterrupt
    /\ ppc = "poll"
    /\ ppc' = "dead"
    /\ UNCHANGED <<kernel, handle, wakers, pc, woken, displaced, events>>

(* Mutant: the waker is removed and dropped. *)
WakeNot(c) ==
    /\ ppc = "wake"
    /\ c \in events
    /\ events' = events \ {c}
    /\ wakers' = [wakers EXCEPT ![c] = Nobody]
    /\ UNCHANGED <<kernel, handle, pc, woken, displaced, ppc>>

(* read_wakers.remove(&token) or write_wakers.remove(&token), and wake(); the
   reader of a socket is woken before its writer. *)
Wake(c) ==
    /\ ppc = "wake"
    /\ c \in events
    /\ c[2] = "write" => <<c[1], "read">> \notin events
    /\ events' = events \ {c}
    /\ wakers' = [wakers EXCEPT ![c] = Nobody]
    /\ woken' = woken \cup ({wakers[c]} \cap InCall)
    /\ UNCHANGED <<kernel, handle, pc, displaced, ppc>>

PollDone ==
    /\ ppc = "wake"
    /\ events = {}
    /\ ppc' = "poll"
    /\ UNCHANGED <<kernel, handle, wakers, pc, woken, displaced, events>>

-----------------------------------------------------------------------------
(* What a task does once it is polled *)
Resume(t) ==
    AddWaker(t) \/ CallOk(t) \/ CallWouldBlock(t) \/ CallErr(t) \/ RemoveWaker(t)

PollThread == PollEvents \/ (\E c \in Chans : Wake(c)) \/ PollDone

Next ==
    \/ \E c \in Chans : Arrive(c)
    \/ \E k \in Tokens :
           Open(k) \/ Register(k) \/ RegisterFails(k) \/ Fail(k) \/ Shutdown(k) \/ Deregister(k)
           \/ Close(k)
    \/ \E t \in Tasks : Call(t) \/ Resume(t) \/ Abandon(t)
    \/ PollThread
    \/ PollFails

Spec == Init /\ [][Next]_vars

(* The poll thread keeps running, and the executor polls a woken task. *)
FairSpec ==
    /\ Spec
    /\ WF_vars(PollThread)
    /\ \A t \in Tasks : WF_vars(pc[t] = "pending" /\ Call(t))

-----------------------------------------------------------------------------
(* The task sleeps on its channel and nothing has woken it. *)
Parked(t) == pc[t] = "pending" /\ t \notin woken

(* Something happened that the task should hear of.  An error alone is passed
   on to the writer only. *)
Due(t) ==
    \/ Chan(t) \in ready
    \/ Token(t) \in failed /\ Chan(t)[2] = "write" /\ <<Token(t), "read">> \notin ready

(* No readiness is lost: a sleeping task has its waker in the map, unless
   another task of the same channel took its place, and when its channel
   becomes ready, mio has the event or poll_once is about to wake it.  That
   nonblocking_call stores the waker before it tries the operation ensures it,
   edge-triggered as the events are. *)
NoLostReadiness ==
    \A t \in Tasks : Parked(t) /\ t \notin displaced =>
        /\ wakers[Chan(t)] = t
        /\ Due(t) => Token(t) \in edges \/ Chan(t) \in events

(* A closed socket leaves no reader behind: fd_close removes and wakes the
   read waker, and a poll_once that runs meanwhile only finds it gone. *)
ClosedHasNoReader ==
    \A k \in Tokens : handle[k] = "closed" => wakers[<<k, "read">>] = Nobody

(* A task that sleeps on a ready channel is polled again, unless another task
   of the channel takes the place of its waker or what was ready, or the poll
   thread has died. *)
ReadyIsPolled ==
    \A t \in Tasks :
        (pc[t] = "pending" /\ Chan(t) \in ready)
            ~> \/ pc[t] # "pending" \/ Chan(t) \notin ready
               \/ t \in displaced \/ ppc = "dead"
=============================================================================
