----------------------------- MODULE MCEventMap -----------------------------
(* Two waits that use the same event or different ones, and two notifiers that
   race for a waker.  Every wait is one call, so the run ends. *)
EXTENDS EventMap

CONSTANTS w1, w2, e1, e2, n1, n2
=============================================================================
