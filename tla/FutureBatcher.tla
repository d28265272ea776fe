--------------------------- MODULE FutureBatcher ----------------------------
(***************************************************************************)
(* hala-future, src/batching.rs: one task polls a set of futures, only     *)
(* those that were pushed or woken since they were last polled.            *)
(*                                                                         *)
(* The futures are pushed by threads of their own, their wakers are called *)
(* by others, and one more thread closes the batcher: these are the agents *)
(* below.  One task polls (the code asserts that it is one).  The queue of *)
(* ready ids is an atomic FIFO queue, which module Queue implements.       *)
(***************************************************************************)
EXTENDS Integers, Sequences

CONSTANTS Futures,     \* the futures pushed, each with its id
          MaxPending,  \* how often a future may return Pending
          MaxWakes     \* how often the waker of one poll of each future is called at most

ASSUME BoundsAssumption == MaxPending \in Nat /\ MaxWakes \in [Futures -> Nat]

VARIABLES pending,     \* pending_futures
          queue,       \* wakeup_futures
          host,        \* raw_waker: is the waker of the polling task stored?
          counter,     \* await_counter
          closed,      \* closed
          apc,         \* the next step of each agent
          bpc,         \* the next step of the polling task
          cur,         \* the future id the poll loop has popped
          hostWoken,   \* the polling task was woken since it was last polled
          armed,       \* how many calls of wakers of each future are to come
          pends,       \* how often each future has returned Pending
          results      \* how often each future's result was returned

shared == <<pending, queue, host, counter, closed>>
poller == <<bpc, cur, hostWoken, pends, results>>
batcherVars == <<shared, poller, apc, armed>>

Closer == <<"close", "close">>
Agents == ({"push", "fire"} \X Futures) \cup {Closer}

(* enter ... last: inside poll, in the order of the code; parked: poll has
   returned Pending; none: it has returned Ready(None).  At "panic" an
   assertion on await_counter has failed. *)
PollSteps == {"enter", "closed", "add", "pop", "closed2", "remove", "poll", "insert",
              "drop_waker", "ready", "leave", "closed3", "parked", "none"}
AgentSteps == {"start", "queue", "take", "wake", "done"}

(* In particular, the assertions on await_counter hold. *)
BatcherTypeOK ==
    /\ pending \in SUBSET Futures
    /\ queue \in Seq(Futures)
    /\ host \in BOOLEAN
    /\ counter \in {0, 1}
    /\ closed \in BOOLEAN
    /\ apc \in [Agents -> AgentSteps]
    /\ bpc \in PollSteps
    /\ cur \in Futures
    /\ hostWoken \in BOOLEAN
    /\ armed \in [Futures -> Nat]
    /\ pends \in [Futures -> 0 .. MaxPending]
    /\ results \in [Futures -> Nat]

BatcherInit ==
    /\ pending = {}
    /\ queue = <<>>
    /\ host = FALSE
    /\ counter = 0
    /\ closed = FALSE
    /\ apc = [a \in Agents |-> "start"]
    /\ bpc = "enter"
    /\ cur \in Futures
    /\ hostWoken = FALSE
    /\ armed = [f \in Futures |-> 0]
    /\ pends = [f \in Futures |-> 0]
    /\ results = [f \in Futures |-> 0]

-----------------------------------------------------------------------------
(* The agents: push, the wakers of the futures, close *)

AgentGoto(a, from, to) ==
    /\ apc[a] = from
    /\ apc' = [apc EXCEPT ![a] = to]

(* push: a new id, and the future enters pending_futures *)
PushInsert(f) ==
    /\ AgentGoto(<<"push", f>>, "start", "queue")
    /\ pending' = pending \cup {f}
    /\ UNCHANGED <<queue, host, counter, closed, poller, armed>>

(* A waker of future f is called. *)
Fire(f) ==
    /\ armed[f] > 0
    /\ armed' = [armed EXCEPT ![f] = @ - 1]
    /\ \/ AgentGoto(<<"fire", f>>, "start", "queue")
       \/ AgentGoto(<<"fire", f>>, "done", "queue")
    /\ UNCHANGED <<shared, poller>>

(* wakeup_futures.push(id), by push and by the waker *)
Enqueue(k, f) ==
    /\ AgentGoto(<<k, f>>, "queue", "take")
    /\ queue' = Append(queue, f)
    /\ UNCHANGED <<pending, host, counter, closed, poller, armed>>

(* closed.compare_exchange(false, true) *)
Close ==
    /\ AgentGoto(Closer, "start", "take")
    /\ closed' = TRUE
    /\ UNCHANGED <<pending, queue, host, counter, poller, armed>>

(* raw_waker.wake(): the waker is taken out of the host, ... *)
TakeWaker(a) ==
    /\ AgentGoto(a, "take", IF host THEN "wake" ELSE "done")
    /\ host' = FALSE
    /\ UNCHANGED <<pending, queue, counter, closed, poller, armed>>

(* ... and woken *)
WakeHost(a) ==
    /\ AgentGoto(a, "wake", "done")
    /\ hostWoken' = TRUE
    /\ UNCHANGED <<shared, bpc, cur, pends, results, armed>>

-----------------------------------------------------------------------------
(* Wait::poll *)

BatcherGoto(from, to) ==
    /\ bpc = from
    /\ bpc' = to

(* assert_eq!(await_counter.fetch_add(1), 0) *)
Enter ==
    /\ BatcherGoto("enter", IF counter = 0 THEN "closed" ELSE "panic")
    /\ counter' = counter + 1
    /\ UNCHANGED <<pending, queue, host, closed, cur, hostWoken, pends, results, apc, armed>>

(* if closed, Ready(None), and await_counter keeps its value *)
CheckClosed ==
    /\ BatcherGoto("closed", IF closed THEN "none" ELSE "add")
    /\ UNCHANGED <<shared, cur, hostWoken, pends, results, apc, armed>>

(* Mutant: the waker of the polling task is not stored. *)
AddWakerNot ==
    /\ BatcherGoto("add", "pop")
    /\ UNCHANGED <<shared, cur, hostWoken, pends, results, apc, armed>>

AddWaker ==
    /\ BatcherGoto("add", "pop")
    /\ host' = TRUE
    /\ UNCHANGED <<pending, queue, counter, closed, cur, hostWoken, pends, results, apc,
                   armed>>

Pop ==
    /\ BatcherGoto("pop", IF queue = <<>> THEN "leave" ELSE "closed2")
    /\ IF queue = <<>>
       THEN UNCHANGED <<queue, cur>>
       ELSE cur' = Head(queue) /\ queue' = Tail(queue)
    /\ UNCHANGED <<pending, host, counter, closed, hostWoken, pends, results, apc, armed>>

CheckClosed2 ==
    /\ BatcherGoto("closed2", IF closed THEN "none" ELSE "remove")
    /\ UNCHANGED <<shared, cur, hostWoken, pends, results, apc, armed>>

(* A future that is not there any more was woken more than once: go on. *)
Remove ==
    /\ BatcherGoto("remove", IF cur \in pending THEN "poll" ELSE "pop")
    /\ pending' = pending \ {cur}
    /\ UNCHANGED <<queue, host, counter, closed, cur, hostWoken, pends, results, apc, armed>>

(* The future returns Pending and will call the waker of this poll, at any time
   from now on, once or several times. *)
PollPending ==
    /\ BatcherGoto("poll", "insert")
    /\ pends[cur] < MaxPending
    /\ pends' = [pends EXCEPT ![cur] = @ + 1]
    /\ \E n \in 1 .. MaxWakes[cur] : armed' = [armed EXCEPT ![cur] = @ + n]
    /\ UNCHANGED <<shared, cur, hostWoken, results, apc>>

(* Mutant: a future that returned Pending is not put back. *)
InsertNot ==
    /\ BatcherGoto("insert", "pop")
    /\ UNCHANGED <<shared, cur, hostWoken, pends, results, apc, armed>>

InsertPending ==
    /\ BatcherGoto("insert", "pop")
    /\ pending' = pending \cup {cur}
    /\ UNCHANGED <<queue, host, counter, closed, cur, hostWoken, pends, results, apc, armed>>

(* Mutant: a future that is ready goes back into the map as well. *)
PollReadyKeeps ==
    /\ BatcherGoto("poll", "drop_waker")
    /\ pending' = pending \cup {cur}
    /\ UNCHANGED <<queue, host, counter, closed, cur, hostWoken, pends, results, apc, armed>>

PollReady ==
    /\ BatcherGoto("poll", "drop_waker")
    /\ UNCHANGED <<shared, cur, hostWoken, pends, results, apc, armed>>

(* raw_waker.remove_waker(): dropped without being woken *)
RemoveWaker ==
    /\ BatcherGoto("drop_waker", "ready")
    /\ host' = FALSE
    /\ UNCHANGED <<pending, queue, counter, closed, cur, hostWoken, pends, results, apc,
                   armed>>

(* await_counter.fetch_sub(1) must return 1; the result goes to the caller, who
   calls wait again. *)
ReturnReady ==
    /\ BatcherGoto("ready", IF counter = 1 THEN "enter" ELSE "panic")
    /\ counter' = counter - 1
    /\ results' = [results EXCEPT ![cur] = @ + 1]
    /\ UNCHANGED <<pending, queue, host, closed, cur, hostWoken, pends, apc, armed>>

(* No id is left: await_counter.fetch_sub(1) must return 1. *)
Leave ==
    /\ BatcherGoto("leave", IF counter = 1 THEN "closed3" ELSE "panic")
    /\ counter' = counter - 1
    /\ UNCHANGED <<pending, queue, host, closed, cur, hostWoken, pends, results, apc, armed>>

(* Mutant: closed is not looked at again before Pending is returned. *)
CheckClosed3Not ==
    /\ BatcherGoto("closed3", "parked")
    /\ UNCHANGED <<shared, cur, hostWoken, pends, results, apc, armed>>

CheckClosed3 ==
    /\ BatcherGoto("closed3", IF closed THEN "none" ELSE "parked")
    /\ UNCHANGED <<shared, cur, hostWoken, pends, results, apc, armed>>

(* The executor polls the task again, because it was woken ... *)
BatcherRepoll ==
    /\ hostWoken
    /\ BatcherGoto("parked", "enter")
    /\ hostWoken' = FALSE
    /\ UNCHANGED <<shared, cur, pends, results, apc, armed>>

(* ... or for another reason; or the Wait is dropped and a new one polled. *)
BatcherSpuriousPoll ==
    /\ ~hostWoken
    /\ BatcherGoto("parked", "enter")
    /\ UNCHANGED <<shared, cur, hostWoken, pends, results, apc, armed>>

-----------------------------------------------------------------------------
AgentStep ==
    \/ \E f \in Futures : Fire(f) \/ \E k \in {"push", "fire"} : Enqueue(k, f)
    \/ \E a \in Agents : TakeWaker(a) \/ WakeHost(a)

PollStep ==
    \/ Enter \/ CheckClosed \/ AddWaker \/ Pop \/ CheckClosed2 \/ Remove
    \/ PollPending \/ InsertPending \/ PollReady \/ RemoveWaker \/ ReturnReady
    \/ Leave \/ CheckClosed3 \/ BatcherRepoll

BatcherNext ==
    \/ \E f \in Futures : PushInsert(f)
    \/ Close
    \/ AgentStep
    \/ PollStep
    \/ BatcherSpuriousPoll

BatcherSpec == BatcherInit /\ [][BatcherNext]_batcherVars

(* Threads keep running, the wakers of pending futures are called, and the
   executor polls a woken task. *)
BatcherFairSpec ==
    /\ BatcherSpec
    /\ WF_batcherVars(PollStep)
    /\ \A f \in Futures : WF_batcherVars(Fire(f))
    /\ \A f \in Futures : \A k \in {"push", "fire"} : WF_batcherVars(Enqueue(k, f))
    /\ \A a \in Agents : WF_batcherVars(TakeWaker(a) \/ WakeHost(a))

-----------------------------------------------------------------------------
(* No wake-up is lost: while the task sleeps and nothing has woken it, its waker
   is stored or on its way, and if an id is in the queue or the batcher is
   closed then the agent responsible has not yet finished waking the task.
   poll stores the waker before it looks at the queue, looks at `closed` last,
   and the agents change the state before they take the waker. *)
NoLostWake ==
    bpc = "parked" /\ ~hostWoken =>
        /\ host \/ \E a \in Agents : apc[a] = "wake"
        /\ queue # <<>> \/ closed => \E a \in Agents : apc[a] \in {"take", "wake"}

(* A future that was pushed and has not produced its result is in the map or in
   the hands of the poll loop, and its id is in the queue, or on its way there,
   or its waker has not been called yet. *)
InQueue(f) == \E i \in 1 .. Len(queue) : queue[i] = f
Polled(f) == cur = f /\ bpc \in {"poll", "insert", "drop_waker", "ready"}
NoFutureForgotten ==
    \A f \in Futures :
        apc[<<"push", f>>] # "start" /\ results[f] = 0 /\ bpc # "none" =>
            /\ f \in pending \/ Polled(f)
            /\ \/ InQueue(f) \/ armed[f] > 0
               \/ \E k \in {"push", "fire"} : apc[<<k, f>>] = "queue"
               \/ cur = f /\ bpc \in {"closed2", "remove", "poll", "drop_waker", "ready"}

(* A result is returned once, and a future that has returned it is polled no
   more, however often it is woken. *)
ResultOnce ==
    \A f \in Futures :
        /\ results[f] <= 1
        /\ results[f] = 1 => f \notin pending /\ (cur = f => bpc # "poll")

(* Every future pushed produces its result in the end, unless the batcher is closed. *)
EveryFutureReady ==
    <>[](\A f \in Futures : apc[<<"push", f>>] # "start" => results[f] = 1 \/ closed)

(* After close, the polling task gets None. *)
CloseIsSeen == closed ~> bpc = "none"
=============================================================================
