----------------------------- MODULE MCConnPool -----------------------------
(* Two tasks that lock, wait, are woken and abandon their calls; a pool of one
   connection, which may close and be replaced; three streams allowed by the peer
   and up to two that are finished or closed unsent, so that the limit moves and
   ids are lost.  Liveness is checked along, so there is no symmetry. *)
EXTENDS ConnPool

CONSTANTS t1, t2, c1
=============================================================================
