----------------------------- MODULE MCTimeout ------------------------------
(* One call, one other user of the wheel and the driver's poll thread: the calls
   share the clock, the wheel and poll_once, which treat each token by itself.  A
   tick is two units of time, and a duration may be shorter than a tick, a whole
   tick, or neither. *)
EXTENDS Timeout

CONSTANTS a, other, poll_thread
=============================================================================
