------------------------------- MODULE Mutex --------------------------------
(***************************************************************************)
(* What a Lockable promises (hala-sync, src/api.rs): lock waits for the    *)
(* lock, try_lock takes it if it is free and fails only if it is not, and  *)
(* dropping the guard frees it.  An AsyncLockable promises the same of     *)
(* lock and of its guard, and that the future of lock may be dropped.      *)
(***************************************************************************)

CONSTANTS Threads,   \* the threads sharing the mutex
          Nobody     \* no thread owns the mutex

VARIABLES owner,     \* the thread that owns the mutex
          waiting,   \* the threads blocked in lock
          refused    \* the threads whose last try_lock failed

Init ==
    /\ owner = Nobody
    /\ waiting = {}
    /\ refused = {}

Lock(t) ==
    /\ owner # t
    /\ t \notin waiting
    /\ waiting' = waiting \cup {t}
    /\ refused' = refused \ {t}
    /\ UNCHANGED owner

Acquire(t) ==
    /\ owner = Nobody
    /\ t \in waiting
    /\ owner' = t
    /\ waiting' = waiting \ {t}
    /\ UNCHANGED refused

TryLock(t) ==
    /\ owner = Nobody
    /\ t \notin waiting
    /\ owner' = t
    /\ refused' = refused \ {t}
    /\ UNCHANGED waiting

TryLockFails(t) ==
    /\ owner \notin {t, Nobody}
    /\ t \notin waiting
    /\ refused' = refused \cup {t}
    /\ UNCHANGED <<owner, waiting>>

Unlock(t) ==
    /\ owner = t
    /\ owner' = Nobody
    /\ UNCHANGED <<waiting, refused>>

Next ==
    \E t \in Threads :
        Lock(t) \/ Acquire(t) \/ TryLock(t) \/ TryLockFails(t) \/ Unlock(t)

Spec == Init /\ [][Next]_<<owner, waiting, refused>>

(* A future that waits for the lock is dropped. *)
GiveUp(t) ==
    /\ t \in waiting
    /\ waiting' = waiting \ {t}
    /\ UNCHANGED <<owner, refused>>

AsyncNext == \E t \in Threads : Lock(t) \/ Acquire(t) \/ GiveUp(t) \/ Unlock(t)

AsyncSpec == Init /\ [][AsyncNext]_<<owner, waiting, refused>>
=============================================================================
