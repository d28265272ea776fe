-------------------------- MODULE MCFutureBatcher ---------------------------
(* Two futures, each Pending at most once before it is ready; the waker of one of
   them may be called twice for its Pending, also when it is ready already. *)
EXTENDS FutureBatcher, TLC

CONSTANTS f1, f2

MCMaxWakes == f1 :> 2 @@ f2 :> 1

(* The task that got None calls wait once more. *)
WaitAgain ==
    /\ BatcherGoto("none", "enter")
    /\ UNCHANGED <<shared, cur, hostWoken, pends, results, apc, armed>>

AgainSpec == BatcherInit /\ [][BatcherNext \/ WaitAgain]_batcherVars

(* poll asserts "Only one thread can call this batch poll"; there is only one
   here, and still the assertion fails under AgainSpec, as the early returns of
   None do not give await_counter back. *)
OnlyOnePolls == bpc # "panic"
=============================================================================
