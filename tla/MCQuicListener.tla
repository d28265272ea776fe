--------------------------- MODULE MCQuicListener ---------------------------
(* Two clients in the handshake, one accept and two calls of close (the second
   does what the first left); a2 is there for a second accept. *)
EXTENDS QuicListener

CONSTANTS c1, c2, a1, a2, z1, z2
=============================================================================
