----------------------------- MODULE SpinMutex ------------------------------
(***************************************************************************)
(* hala-sync, src/spin.rs: the spinning mutex.  The lock is the flag; the  *)
(* word `guard` holds the address of the guard that owns the lock, and is  *)
(* only there to be checked: both updates of it panic when it does not     *)
(* hold what they expect.  A thread stands for the guard it creates, whose *)
(* address is its own while the guard lives.                               *)
(***************************************************************************)
CONSTANT Spinners     \* the threads sharing the mutex

(* No thread; also the null guard pointer. *)
NullGuard == CHOOSE n : n \notin Spinners

VARIABLES flag,      \* flag: AtomicBool
          guard,     \* guard: AtomicUsize
          at,        \* the next step of each thread
          refused    \* the threads whose last try_lock returned None

spinVars == <<flag, guard, at, refused>>

(* idle: no call, no guard; cas, spin: in lock's loop; set_guard: the flag is
   taken; owner: the guard is alive; clear_flag: inside drop.  A thread whose
   expect fails is at "panic", which is no step of a correct program. *)
SpinSteps == {"idle", "cas", "spin", "set_guard", "owner", "clear_flag"}

(* In particular, no expect of lock, try_lock or drop fails. *)
SpinTypeOK ==
    /\ flag \in BOOLEAN
    /\ guard \in Spinners \cup {NullGuard}
    /\ at \in [Spinners -> SpinSteps]
    /\ refused \in SUBSET Spinners

SpinInit ==
    /\ flag = FALSE
    /\ guard = NullGuard
    /\ at = [t \in Spinners |-> "idle"]
    /\ refused = {}

SpinGoto(t, from, to) ==
    /\ at[t] = from
    /\ at' = [at EXCEPT ![t] = to]

SpinLock(t) ==
    /\ SpinGoto(t, "idle", "cas")
    /\ refused' = refused \ {t}
    /\ UNCHANGED <<flag, guard>>

(* flag.compare_exchange_weak(false, true) succeeds *)
LockCas(t) ==
    /\ ~flag
    /\ SpinGoto(t, "cas", "set_guard")
    /\ flag' = TRUE
    /\ UNCHANGED <<guard, refused>>

(* ... or fails, which it may do for no reason *)
LockCasFails(t) ==
    /\ SpinGoto(t, "cas", "spin")
    /\ UNCHANGED <<flag, guard, refused>>

(* lockable: while self.flag.load() {} *)
Lockable(t) ==
    /\ ~flag
    /\ SpinGoto(t, "spin", "cas")
    /\ UNCHANGED <<flag, guard, refused>>

SpinTryLock(t) ==
    /\ ~flag
    /\ SpinGoto(t, "idle", "set_guard")
    /\ flag' = TRUE
    /\ refused' = refused \ {t}
    /\ UNCHANGED guard

TryLockFails(t) ==
    /\ flag
    /\ SpinGoto(t, "idle", "idle")
    /\ refused' = refused \cup {t}
    /\ UNCHANGED <<flag, guard>>

(* guard.compare_exchange(0, &guard).expect("Set guard ptr error") *)
SetGuard(t) ==
    /\ SpinGoto(t, "set_guard", IF guard = NullGuard THEN "owner" ELSE "panic")
    /\ guard' = IF guard = NullGuard THEN t ELSE guard
    /\ UNCHANGED <<flag, refused>>

(* drop: guard.compare_exchange(self.ptr, 0).expect("Unset guard ptr error") *)
UnsetGuard(t) ==
    /\ SpinGoto(t, "owner", IF guard = t THEN "clear_flag" ELSE "panic")
    /\ guard' = IF guard = t THEN NullGuard ELSE guard
    /\ UNCHANGED <<flag, refused>>

(* ... and then flag.store(false) *)
ClearFlag(t) ==
    /\ SpinGoto(t, "clear_flag", "idle")
    /\ flag' = FALSE
    /\ UNCHANGED <<guard, refused>>

(* The steps a thread takes by itself once it has called lock or try_lock, or
   begun to drop the guard. *)
SpinResume(t) ==
    LockCas(t) \/ LockCasFails(t) \/ Lockable(t) \/ SetGuard(t) \/ ClearFlag(t)

SpinNext ==
    \E t \in Spinners :
        \/ SpinLock(t)
        \/ SpinTryLock(t)
        \/ TryLockFails(t)
        \/ UnsetGuard(t)
        \/ SpinResume(t)

SpinSpec == SpinInit /\ [][SpinNext]_spinVars

-----------------------------------------------------------------------------
(* The threads between the successful compare_exchange and flag.store(false). *)
Owners == {t \in Spinners : at[t] \in {"set_guard", "owner", "clear_flag"}}

(* At most one thread owns the lock, the flag is set exactly while one does,
   and the guard pointer is that of the one guard alive, which is what the
   expects of lock, try_lock and drop check. *)
MutualExclusion ==
    /\ \A t, u \in Owners : t = u
    /\ flag <=> Owners # {}
    /\ \A t \in Spinners : guard = t <=> at[t] = "owner"

M == INSTANCE Mutex WITH
        Threads <- Spinners,
        Nobody <- NullGuard,
        owner <- IF Owners = {} THEN NullGuard ELSE CHOOSE t \in Spinners : t \in Owners,
        waiting <- {t \in Spinners : at[t] \in {"cas", "spin"}}

(* The flag and the guard pointer together implement the abstract mutex; in
   particular try_lock fails only while another thread owns the lock, which
   the second attempt of the asynchronous mutex relies on. *)
RefinesMutex == M!Spec
=============================================================================
