------------------------------ MODULE EventMap ------------------------------
(***************************************************************************)
(* hala-future, src/event_map.rs: tasks wait for events about a shared     *)
(* state, as with a condition variable.  wait is given the guard of the    *)
(* state; its first poll stores the task's waker and only then drops the   *)
(* guard.  There is one waker per event.                                   *)
(*                                                                         *)
(* The state is abstracted to one flag per event, "it has happened", and   *)
(* the clients to what they all do: wait only if the flag, read under the  *)
(* guard, is not set; set flags under the guard and notify afterwards.     *)
(* Every element of Waits is one call of wait.                             *)
(***************************************************************************)
CONSTANTS Waits,      \* the calls of wait
          Events,     \* the events
          Notifiers,  \* the tasks that notify
          Nobody      \* no wait: the guard is free, no waker is stored

ASSUME NobodyAssumption == Nobody \notin Waits

VARIABLES lock,       \* whose guard of the shared state is alive
          happened,   \* the shared state: the events that have happened
          wakers,     \* wakers: DashMap<E, WakerWithReason>
          reason,     \* the reason shared by a Wait and its waker
          woken,      \* the waits whose task was woken since the last poll
          pc,         \* the next step of each wait
          event,      \* the event of each wait
          npc,        \* the next step of each notifier
          todo,       \* the events a notifier has yet to look up
          hand,       \* the wait whose waker a notifier has removed
          why,        \* the reason a notifier gives
          displaced    \* history: the waits whose waker another client removed

wait == <<pc, event>>
notifier == <<npc, todo, hand, why>>
vars == <<lock, happened, wakers, reason, woken, wait, notifier, displaced>>

Reasons == {"None", "On", "Cancel", "Destroy"}
Results == {"Ok", "Cancelled", "Destroyed"}
WaitSteps == {"idle", "insert", "unlock", "load", "parked", "dropped", "end"} \cup Results
NotifySteps == {"idle", "keys", "lookup", "store", "wake"}

TypeOK ==
    /\ lock \in Waits \cup {Nobody}
    /\ happened \in SUBSET Events
    /\ wakers \in [Events -> Waits \cup {Nobody}]
    /\ reason \in [Waits -> Reasons]
    /\ woken \in SUBSET Waits
    /\ pc \in [Waits -> WaitSteps]
    /\ event \in [Waits -> Events]
    /\ npc \in [Notifiers -> NotifySteps]
    /\ todo \in [Notifiers -> SUBSET Events]
    /\ hand \in [Notifiers -> Waits \cup {Nobody}]
    /\ why \in [Notifiers -> Reasons]
    /\ displaced \in SUBSET Waits

Init ==
    /\ lock = Nobody
    /\ happened = {}
    /\ wakers = [e \in Events |-> Nobody]
    /\ reason = [w \in Waits |-> "None"]
    /\ woken = {}
    /\ pc = [w \in Waits |-> "idle"]
    /\ event \in [Waits -> Events]
    /\ npc = [n \in Notifiers |-> "idle"]
    /\ todo = [n \in Notifiers |-> {}]
    /\ hand = [n \in Notifiers |-> Nobody]
    /\ why = [n \in Notifiers |-> "None"]
    /\ displaced = {}

Goto(w, from, to) ==
    /\ pc[w] = from
    /\ pc' = [pc EXCEPT ![w] = to]

-----------------------------------------------------------------------------
(* wait, and the polls of the future it returns *)

(* Mutant: the guard is dropped before the waker is stored. *)
WaitUnlocked(w) ==
    /\ lock = Nobody
    /\ event[w] \notin happened
    /\ Goto(w, "idle", "insert")
    /\ UNCHANGED <<lock, happened, wakers, reason, woken, event, notifier, displaced>>

(* The client holds the guard, sees that the event has not happened, and waits. *)
Wait(w) ==
    /\ lock = Nobody
    /\ event[w] \notin happened
    /\ Goto(w, "idle", "insert")
    /\ lock' = w
    /\ UNCHANGED <<happened, wakers, reason, woken, event, notifier, displaced>>

(* wakers.insert(event, waker with reason): an entry that is there is replaced *)
Insert(w) ==
    /\ Goto(w, "insert", "unlock")
    /\ wakers' = [wakers EXCEPT ![event[w]] = w]
    /\ displaced' = displaced \cup ({wakers[event[w]]} \ {Nobody})
    /\ UNCHANGED <<lock, happened, reason, woken, event, notifier>>

(* G::Locker::unlock(guard) *)
Unlock(w) ==
    /\ Goto(w, "unlock", "load")
    /\ lock' = Nobody
    /\ UNCHANGED <<happened, wakers, reason, woken, event, notifier, displaced>>

(* The reason decides: Pending, or the result. *)
Load(w) ==
    /\ Goto(w, "load", CASE reason[w] = "None" -> "parked"
                         [] reason[w] = "Cancel" -> "Cancelled"
                         [] reason[w] = "Destroy" -> "Destroyed"
                         [] OTHER -> "Ok")
    /\ UNCHANGED <<lock, happened, wakers, reason, woken, event, notifier, displaced>>

(* The executor polls the task again. *)
Repoll(w) ==
    /\ w \in woken
    /\ Goto(w, "parked", "load")
    /\ woken' = woken \ {w}
    /\ UNCHANGED <<lock, happened, wakers, reason, event, notifier, displaced>>

SpuriousPoll(w) ==
    /\ w \notin woken
    /\ Goto(w, "parked", "load")
    /\ UNCHANGED <<lock, happened, wakers, reason, woken, event, notifier, displaced>>

(* The future is dropped while pending (read does so at its timeout): it has no
   Drop, and its entry stays. *)
Abandon(w) ==
    /\ Goto(w, "parked", "dropped")
    /\ UNCHANGED <<lock, happened, wakers, reason, woken, event, notifier, displaced>>

(* wait_cancel: the client removes the entry of the event, whosever it is. *)
WaitCancel(w) ==
    /\ Goto(w, "dropped", "end")
    /\ wakers' = [wakers EXCEPT ![event[w]] = Nobody]
    /\ displaced' = displaced \cup ({wakers[event[w]]} \ {Nobody})
    /\ UNCHANGED <<lock, happened, reason, woken, event, notifier>>

(* The client goes on, and handles the event under the guard. *)
Handle(w) ==
    /\ lock = Nobody
    /\ Goto(w, "Ok", "end")
    /\ happened' = happened \ {event[w]}
    /\ UNCHANGED <<lock, wakers, reason, woken, event, notifier, displaced>>

-----------------------------------------------------------------------------
(* notify_one, notify_all, notify_any *)

NotifyGoto(n, from, to) ==
    /\ npc[n] = from
    /\ npc' = [npc EXCEPT ![n] = to]

(* Under the guard, some events happen; they are then notified one by one. *)
NotifyAll(n, S, r) ==
    /\ lock = Nobody
    /\ NotifyGoto(n, "idle", "lookup")
    /\ happened' = happened \cup S
    /\ todo' = [todo EXCEPT ![n] = S]
    /\ why' = [why EXCEPT ![n] = r]
    /\ UNCHANGED <<lock, wakers, reason, woken, wait, hand, displaced>>

(* Under the guard, everything is over; notify_any collects the keys ... *)
NotifyAny(n) ==
    /\ lock = Nobody
    /\ NotifyGoto(n, "idle", "keys")
    /\ happened' = Events
    /\ UNCHANGED <<lock, wakers, reason, woken, wait, todo, hand, why, displaced>>

(* ... and notifies them. *)
CollectKeys(n) ==
    /\ NotifyGoto(n, "keys", "lookup")
    /\ todo' = [todo EXCEPT ![n] = {e \in Events : wakers[e] # Nobody}]
    /\ why' = [why EXCEPT ![n] = "Cancel"]
    /\ UNCHANGED <<lock, happened, wakers, reason, woken, wait, hand, displaced>>

(* Mutants: the entry is read and not removed; the entry is taken for granted. *)
NotifyRemoveKeeps(n, e) ==
    /\ e \in todo[n]
    /\ wakers[e] # Nobody
    /\ NotifyGoto(n, "lookup", "store")
    /\ hand' = [hand EXCEPT ![n] = wakers[e]]
    /\ todo' = [todo EXCEPT ![n] = @ \ {e}]
    /\ UNCHANGED <<lock, happened, wakers, reason, woken, wait, why, displaced>>
NotifyRemoveUnwrap(n, e) ==
    /\ e \in todo[n]
    /\ NotifyGoto(n, "lookup", "wake")
    /\ hand' = [hand EXCEPT ![n] = wakers[e]]
    /\ wakers' = [wakers EXCEPT ![e] = Nobody]
    /\ todo' = [todo EXCEPT ![n] = @ \ {e}]
    /\ UNCHANGED <<lock, happened, reason, woken, wait, why, displaced>>

(* notify_one: wakers.remove(event) finds a waker, ... *)
NotifyRemove(n, e) ==
    /\ e \in todo[n]
    /\ wakers[e] # Nobody
    /\ NotifyGoto(n, "lookup", "store")
    /\ hand' = [hand EXCEPT ![n] = wakers[e]]
    /\ wakers' = [wakers EXCEPT ![e] = Nobody]
    /\ todo' = [todo EXCEPT ![n] = @ \ {e}]
    /\ UNCHANGED <<lock, happened, reason, woken, wait, why, displaced>>

(* ... or none, and false is returned *)
NotifyNone(n, e) ==
    /\ e \in todo[n]
    /\ wakers[e] = Nobody
    /\ npc[n] = "lookup"
    /\ todo' = [todo EXCEPT ![n] = @ \ {e}]
    /\ UNCHANGED <<lock, happened, wakers, reason, woken, wait, npc, hand, why, displaced>>

(* WakerWithReason::wake: the reason is stored, ... *)
StoreReason(n) ==
    /\ NotifyGoto(n, "store", "wake")
    /\ reason' = [reason EXCEPT ![hand[n]] = why[n]]
    /\ UNCHANGED <<lock, happened, wakers, woken, wait, todo, hand, why, displaced>>

(* Mutant: the waker is dropped, not woken. *)
WakeNot(n) ==
    /\ NotifyGoto(n, "wake", "lookup")
    /\ hand' = [hand EXCEPT ![n] = Nobody]
    /\ UNCHANGED <<lock, happened, wakers, reason, woken, wait, todo, why, displaced>>

(* ... and then the task is woken *)
Wake(n) ==
    /\ NotifyGoto(n, "wake", "lookup")
    /\ woken' = woken \cup {hand[n]}
    /\ hand' = [hand EXCEPT ![n] = Nobody]
    /\ UNCHANGED <<lock, happened, wakers, reason, wait, todo, why, displaced>>

NotifyEnd(n) ==
    /\ todo[n] = {}
    /\ NotifyGoto(n, "lookup", "idle")
    /\ UNCHANGED <<lock, happened, wakers, reason, woken, wait, todo, hand, why, displaced>>

(* Drop for EventMap: no Wait borrows the map any more; the tasks of entries
   that were left behind are woken. *)
Destroy ==
    LET left == {w \in Waits : \E e \in Events : wakers[e] = w} IN
    /\ \A w \in Waits : pc[w] \in {"dropped", "end"} \cup Results
    /\ \A n \in Notifiers : npc[n] = "idle"
    /\ left # {}
    /\ reason' = [w \in Waits |-> IF w \in left THEN "Destroy" ELSE reason[w]]
    /\ woken' = woken \cup left
    /\ wakers' = [e \in Events |-> Nobody]
    /\ UNCHANGED <<lock, happened, wait, notifier, displaced>>

-----------------------------------------------------------------------------
WaitStep(w) == Insert(w) \/ Unlock(w) \/ Load(w) \/ Repoll(w) \/ Handle(w)

NotifyStep(n) ==
    \/ CollectKeys(n)
    \/ \E e \in Events : NotifyRemove(n, e) \/ NotifyNone(n, e)
    \/ StoreReason(n)
    \/ Wake(n)
    \/ NotifyEnd(n)

Next ==
    \/ \E w \in Waits : Wait(w) \/ WaitStep(w) \/ SpuriousPoll(w) \/ Abandon(w) \/ WaitCancel(w)
    \/ \E n \in Notifiers :
          \/ NotifyStep(n)
          \/ NotifyAny(n)
          \/ \E S \in SUBSET Events, r \in {"On", "Cancel"} : S # {} /\ NotifyAll(n, S, r)
    \/ Destroy

Spec == Init /\ [][Next]_vars

(* Tasks that can go on do, and the executor polls woken tasks. *)
FairSpec ==
    /\ Spec
    /\ \A w \in Waits : WF_vars(WaitStep(w))
    /\ \A n \in Notifiers : WF_vars(NotifyStep(n))

-----------------------------------------------------------------------------
(* The wait sleeps and nothing has woken it. *)
Asleep(w) == pc[w] \in {"unlock", "load", "parked"} /\ reason[w] = "None" /\ w \notin woken

(* A sleeping wait whose waker no other client of the same event has removed (by
   waiting for the same event, or by wait_cancel) is registered, or a notifier
   has its waker in hand; and if its event has happened, a notifier is still
   going to wake it.  Storing the waker before the guard is dropped ensures it. *)
NoLostEvent ==
    \A w \in Waits \ displaced : Asleep(w) =>
        \/ \E n \in Notifiers : hand[n] = w
        \/ /\ wakers[event[w]] = w
           /\ event[w] \in happened =>
                 \E n \in Notifiers : event[w] \in todo[n] \/ npc[n] = "keys"

(* A waker is in one place: stored for its event, or in one notifier's hand; so
   a wait is given one reason only, and before it is woken. *)
OneReason ==
    \A w \in Waits :
        /\ \A e \in Events : wakers[e] = w =>
              /\ e = event[w]
              /\ reason[w] = "None"
              /\ \A n \in Notifiers : hand[n] # w
        /\ \A m, n \in Notifiers : hand[m] = w /\ hand[n] = w => m = n
        /\ \A n \in Notifiers : hand[n] = w /\ npc[n] = "store" => reason[w] = "None"
        /\ \A n \in Notifiers : hand[n] = w /\ npc[n] = "wake" => reason[w] # "None"
        /\ w \in woken => reason[w] # "None"

(* The result of a wait is final: it was given by a notifier, and it does not
   change however often the future is polled or the event is notified. *)
ResultIsFinal ==
    [][\A w \in Waits : reason[w] # "None" => reason'[w] = reason[w]]_vars

(* A wait returns once its event has happened, unless another client of the same
   event has removed its waker. *)
EventReachesWait ==
    \A w \in Waits :
        pc[w] = "parked" /\ event[w] \in happened ~> pc[w] # "parked" \/ w \in displaced
=============================================================================
