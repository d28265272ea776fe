--------------------------- MODULE MCQuicConnect ----------------------------
(* Two addresses, two sockets of which one may be ready all the time, and two
   boxes: one in use and one that is allocated before the other is freed.  An
   attempt survives one timeout and needs two datagrams. *)
EXTENDS QuicConnect

CONSTANTS f1, f2, b1, b2
=============================================================================
