------------------------------ MODULE MCQueue -------------------------------
(* Three threads: a push that has reserved its offset, a pop that spins for it and
   one more of either kind. *)
EXTENDS Queue

CONSTANTS t1, t2, t3, a, b,
          Suspended   \* a thread that may be suspended for ever

(* A lock-free structure lets the other threads finish their calls when one
   thread is suspended at any point. *)
SuspendedSpec ==
    QueueSpec /\ \A t \in Threads \ {Suspended} : WF_queueVars(QueueResume(t))

(* "A lokfree FIFO queue": a call of a thread that keeps running returns even
   if another thread is suspended inside a call.  It does not hold under
   SuspendedSpec: a pop spins for a push that stopped before it stored. *)
LockFree ==
    \A t \in Threads \ {Suspended} : qpc[t] # "idle" ~> qpc[t] = "idle"
=============================================================================
