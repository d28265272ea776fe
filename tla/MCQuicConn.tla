----------------------------- MODULE MCQuicConn -----------------------------
EXTENDS QuicConn

(* A stream of this side, used in both directions. *)
UsedOwn == {Recv(4), Send(4), Closing(4)}

(* Streams of the peer of which one is read, and may be shut down or closed. *)
UsedOne == {Acceptor, Recv(5), Shutdown(5), Closing(5)}
=============================================================================
