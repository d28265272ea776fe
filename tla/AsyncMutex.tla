----------------------------- MODULE AsyncMutex -----------------------------
(***************************************************************************)
(* hala-sync, src/maker.rs: a futures-aware mutex built from two           *)
(* Lockables, the inner lock and the lock of the wakers.  Both are taken   *)
(* to be what module Mutex promises.  A task locks by polling a future:    *)
(* poll tries the inner lock, registers a waker and tries once more.       *)
(* Dropping the guard frees the inner lock, and only then takes the lock   *)
(* of the wakers and wakes them all.                                       *)
(*                                                                         *)
(* The waker keys are never reused and the only key ever cancelled is the  *)
(* one just inserted, so the map of wakers is a count for each task.       *)
(***************************************************************************)
EXTENDS Integers

CONSTANTS Tasks,       \* the tasks sharing the mutex
          Nobody,      \* no task
          MaxEntries   \* a task with that many wakers is not woken spuriously

ASSUME NobodyAssumption == Nobody \notin Tasks
ASSUME MaxEntriesAssumption == MaxEntries \in Nat

VARIABLES owner,       \* who holds inner_locker
          wlock,       \* who holds the lock of `wakers`
          wakers,      \* DefaultAsyncLockableMediator.wakers, entries per task
          woken,       \* the tasks woken since they were last polled
          pc           \* the next step of each task

vars == <<owner, wlock, wakers, woken, pc>>

(* poll, register, retry, cancel, unlock: inside poll; pending: poll has
   returned Pending; owner: the guard is alive; notify_lock, notify: inside
   the guard's drop. *)
Steps == {"idle", "poll", "register", "retry", "cancel", "unlock", "pending",
          "owner", "notify_lock", "notify"}

TypeOK ==
    /\ owner \in Tasks \cup {Nobody}
    /\ wlock \in Tasks \cup {Nobody}
    /\ wakers \in [Tasks -> Nat]
    /\ woken \in SUBSET Tasks
    /\ pc \in [Tasks -> Steps]

Init ==
    /\ owner = Nobody
    /\ wlock = Nobody
    /\ wakers = [t \in Tasks |-> 0]
    /\ woken = {}
    /\ pc = [t \in Tasks |-> "idle"]

Goto(t, from, to) ==
    /\ pc[t] = from
    /\ pc' = [pc EXCEPT ![t] = to]

-----------------------------------------------------------------------------
(* lock(), and the polls of the future it returns *)

Lock(t) ==
    /\ wakers[t] < MaxEntries
    /\ Goto(t, "idle", "poll")
    /\ UNCHANGED <<owner, wlock, wakers, woken>>

(* The executor polls a task again after it was woken. *)
Repoll(t) ==
    /\ t \in woken
    /\ Goto(t, "pending", "poll")
    /\ woken' = woken \ {t}
    /\ UNCHANGED <<owner, wlock, wakers>>

(* inner_locker.try_lock(): the owner becomes t, or nothing happens *)
TryLock(t, from, locked, failed) ==
    /\ Goto(t, from, IF owner = Nobody THEN locked ELSE failed)
    /\ owner' = IF owner = Nobody THEN t ELSE owner
    /\ UNCHANGED <<wlock, wakers, woken>>

Poll(t) == TryLock(t, "poll", "owner", "register")

(* wakers.lock() and, under it, wakers.wait_lockable(cx) *)
Register(t) ==
    /\ wlock = Nobody
    /\ Goto(t, "register", "retry")
    /\ wlock' = t
    /\ wakers' = [wakers EXCEPT ![t] = @ + 1]
    /\ UNCHANGED <<owner, woken>>

(* Mutant: the lock is not tried again once the waker is registered. *)
RetryNot(t) ==
    /\ Goto(t, "retry", "unlock")
    /\ UNCHANGED <<owner, wlock, wakers, woken>>

(* the second try_lock, under the lock of the wakers *)
Retry(t) == TryLock(t, "retry", "cancel", "unlock")

(* wakers.cancel(wait_key), and the guard of the wakers is dropped *)
Cancel(t) ==
    /\ Goto(t, "cancel", "owner")
    /\ wakers' = [wakers EXCEPT ![t] = @ - 1]
    /\ wlock' = Nobody
    /\ UNCHANGED <<owner, woken>>

(* poll returns Pending; the guard of the wakers is dropped *)
ReturnPending(t) ==
    /\ Goto(t, "unlock", "pending")
    /\ wlock' = Nobody
    /\ UNCHANGED <<owner, wakers, woken>>

(* The future is dropped while pending (a timeout, a select): it has no Drop,
   and its waker stays registered. *)
Abandon(t) ==
    /\ Goto(t, "pending", "idle")
    /\ UNCHANGED <<owner, wlock, wakers, woken>>

(* The task is polled for another reason (it waits for several futures). *)
SpuriousWake(t) ==
    /\ pc[t] = "pending"
    /\ t \notin woken
    /\ wakers[t] < MaxEntries
    /\ woken' = woken \cup {t}
    /\ UNCHANGED <<owner, wlock, wakers, pc>>

-----------------------------------------------------------------------------
(* unlock and Drop for AsyncLockableMakerGuard *)

(* drop(guard): the inner lock is free *)
Unlock(t) ==
    /\ Goto(t, "owner", "notify_lock")
    /\ owner' = Nobody
    /\ UNCHANGED <<wlock, wakers, woken>>

(* self.locker.wakers.lock() *)
NotifyLock(t) ==
    /\ wlock = Nobody
    /\ Goto(t, "notify_lock", "notify")
    /\ wlock' = t
    /\ UNCHANGED <<owner, wakers, woken>>

(* notify_all: one waker of the drained map is woken *)
Notify(t, u) ==
    /\ pc[t] = "notify"
    /\ wakers[u] > 0
    /\ wakers' = [wakers EXCEPT ![u] = @ - 1]
    /\ woken' = woken \cup {u}
    /\ UNCHANGED <<owner, wlock, pc>>

(* The map is empty; the guard of the wakers is dropped. *)
NotifyDone(t) ==
    /\ \A u \in Tasks : wakers[u] = 0
    /\ Goto(t, "notify", "idle")
    /\ wlock' = Nobody
    /\ UNCHANGED <<owner, wakers, woken>>

-----------------------------------------------------------------------------
(* What a task does by itself once it is polled or drops its guard. *)
Resume(t) ==
    \/ Poll(t) \/ Register(t) \/ Retry(t) \/ Cancel(t) \/ ReturnPending(t)
    \/ NotifyLock(t) \/ (\E u \in Tasks : Notify(t, u)) \/ NotifyDone(t)

Next ==
    \E t \in Tasks :
        Lock(t) \/ Repoll(t) \/ Abandon(t) \/ SpuriousWake(t) \/ Unlock(t) \/ Resume(t)

Spec == Init /\ [][Next]_vars

(* Threads keep running, the executor polls a woken task again, and tasks drop
   their guards. *)
FairSpec ==
    /\ Spec
    /\ \A t \in Tasks : WF_vars(Resume(t)) /\ WF_vars(Repoll(t)) /\ WF_vars(Unlock(t))

-----------------------------------------------------------------------------
(* The task has returned Pending, or is about to, and nothing has woken it. *)
Parked(t) == pc[t] \in {"unlock", "pending"} /\ t \notin woken

(* No wake-up is lost: whenever the lock is free while a task sleeps on it, the
   task's waker is registered and a guard's drop is about to wake it.  The
   second try_lock of poll, made under the lock of the wakers, ensures it. *)
NoLostWakeup ==
    \A t \in Tasks : Parked(t) =>
        /\ wakers[t] > 0
        /\ owner = Nobody => \E u \in Tasks : pc[u] \in {"notify_lock", "notify"}

(* The two locks are held exactly along the code's critical sections: the inner
   one by the task that owns the guard, the wakers' by the one task inside its
   part of poll or drop; and a waker to be cancelled is still registered. *)
LocksHeld ==
    \A t \in Tasks :
        /\ owner = t <=> pc[t] \in {"cancel", "owner"}
        /\ wlock = t <=> pc[t] \in {"retry", "cancel", "unlock", "notify"}
        /\ pc[t] \in {"retry", "cancel"} => wakers[t] > 0

(* The polls and drops of the futures and of the guard implement an abstract
   mutex whose lock may be given up: a task that has called lock waits until the
   lock is free and is then its one owner, however the two try_locks of its polls
   race with the drop of the guard. *)
A == INSTANCE Mutex WITH
    Threads <- Tasks, refused <- {},
    waiting <- {t \in Tasks : pc[t] \in {"poll", "register", "retry", "unlock", "pending"}}
RefinesAsyncMutex == A!AsyncSpec

(* poll and drop use the lock of the wakers as a Lockable may be used: a task
   locks it when it does not have it and unlocks what it has locked, so that
   none waits for itself, whatever the others do between its steps. *)
W == INSTANCE Mutex WITH
    Threads <- Tasks, refused <- {}, owner <- wlock,
    waiting <- {t \in Tasks : pc[t] \in {"register", "notify_lock"}}
UsesWakersLock == W!Spec

(* A task that waits for the lock is polled again, if guards are dropped. *)
PendingIsPolled ==
    \A t \in Tasks : pc[t] = "pending" ~> pc[t] # "pending"
=============================================================================
