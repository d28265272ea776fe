------------------------------ MODULE MCPoller ------------------------------
EXTENDS Poller, TLC

CONSTANTS s1, reader, writer, rival

(* A reader and a writer of one stream, and a second reader of it. *)
UsesOne == (reader :> <<s1, "read">>) @@ (writer :> <<s1, "write">>)
           @@ (rival :> <<s1, "read">>)
=============================================================================
