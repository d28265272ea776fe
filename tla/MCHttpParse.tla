---------------------------- MODULE MCHttpParse ----------------------------
(***************************************************************************)
(* Small instances of HttpParse: messages of at most two header lines.     *)
(***************************************************************************)
EXTENDS HttpParse

(* First lines as they should be, with spaces to skip, and the ones the    *)
(* code accepts besides: no space around a version or a code, and a header *)
(* on the line of a request.                                               *)
Version == <<"H", "1">>
Request(raw, method, more) ==
    [kind |-> "request", raw |-> raw, parts |-> <<method, <<"x">>, Version>>, more |-> more]
Response(raw, reason) ==
    [kind |-> "response", raw |-> raw, parts |-> <<Version, <<"2", "0">>, reason>>,
     more |-> <<>>]

MCRequests ==
    {Request(<<"x", "s", "x", "s", "H", "1">>, <<"x">>, <<>>),
     Request(<<"s", "x", "x", "s", "s", "x", "s", "H", "1">>, <<"x", "x">>, <<>>),
     Request(<<"x", "s", "x", "s", "H", "1", "s", "x", ":", "x">>, <<"x">>,
             <<<<<<"x">>, <<"x">>>>>>)}
MCResponses ==
    {Response(<<"H", "1", "s", "2", "0", "s", "x", "s", "x">>, <<"x", "s", "x">>),
     Response(<<"H", "1", "s", "2", "0", "s">>, <<>>),
     Response(<<"H", "1", "2", "0">>, <<>>)}

(* Malformed in each item, and words after the version that are no header. *)
MCBadRequests ==
    {[kind |-> "request", raw |-> raw] : raw \in
        {<<"s">>, <<"x", ":", "s", "x", "s", "H", "1">>, <<"x", "s", "H", "1">>,
         <<"x", "s", "x", "s", "x", "x">>, <<"x", "s", "x", "s", "H", "1", "x">>}}
MCBadResponses ==
    {[kind |-> "response", raw |-> raw] : raw \in
        {<<"x", "x", "s", "2", "0", "s", "x">>, <<"H", "1", "s", "x", "x">>}}

MCFirsts == MCRequests \cup MCBadRequests \cup MCResponses \cup MCBadResponses

(* name: value with every kind of optional space, an empty value, and a    *)
(* line without a colon.                                                   *)
Spaced == [raw |-> <<"x", "s", ":", "s", "x", "s", "x", "s">>,
           name |-> <<"x">>, value |-> <<"x", "s", "x">>]
Empty  == [raw |-> <<"x", "x", ":", "s">>, name |-> <<"x", "x">>, value |-> <<>>]
Junk   == [raw |-> <<"x">>]

MCLines     == {Spaced, Empty, Junk}
MCNewlines  == {<<"c", "n">>, <<"n">>}
MCBodies    == {<<>>, <<"x", "n", "n", ":">>, <<"c", "x">>, <<"n", "c", "n", "x">>}

(* A finished parse has nothing left to do. *)
MCNext == HttpNext \/ (pc = "done" /\ UNCHANGED httpVars)

MCSpec == HttpInit /\ [][MCNext]_httpVars
=============================================================================
