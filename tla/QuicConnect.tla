---------------------------- MODULE QuicConnect -----------------------------
(***************************************************************************)
(* hala-quic, src/conn.rs and src/state/connector.rs: QuicConn::connect,   *)
(* which tries the addresses of the server one after the other, and the    *)
(* client's receive loop that follows.  Both receive with the UdpGroup     *)
(* that connect has bound, so this module is the caller of module          *)
(* UdpGroup: recv_from is that module's steps.                             *)
(*                                                                         *)
(* quiche is external.  It has a packet to send or not, a timer that has   *)
(* expired or not, and closes the connection after MaxProbes timeouts; a   *)
(* datagram of the server brings the handshake a round further.  timeout   *)
(* is taken at its promise (module Timeout), with one peculiarity of its   *)
(* code: a duration of zero is no timeout at all.                          *)
(***************************************************************************)
EXTENDS UdpGroup

CONSTANTS Addresses,  \* how many addresses of the server there are
          Rounds,     \* how many datagrams complete a handshake
          MaxProbes,  \* how many timeouts quiche survives
          Junk        \* whether datagrams arrive that quiche ignores

ASSUME ConnectAssumption ==
    /\ Addresses \in Nat \ {0} /\ Rounds \in Nat \ {0} /\ MaxProbes \in Nat \ {0}
    /\ Junk \in BOOLEAN

VARIABLES
    step,     \* the next step of connect, or of the receive loop after it
    left,     \* the addresses not tried yet
    round,    \* quiche: the rounds of the handshake that are complete
    probes,   \* quiche: the timeouts of the attempt; MaxProbes closes it
    tosend,   \* quiche: whether there is a packet to send
    due,      \* quiche: whether its timer has expired
    timed,    \* whether recv_from is raced against a timer
    ok        \* whether recv_from returns a datagram

quiche == <<round, probes, tosend, due>>
client == <<step, left, quiche, timed, ok>>

(* next: the loop over the addresses; send, check, timer, select, recv,
   packet: the loop of connect_with; loop, looping, write: the receive loop; failed:
   connect has returned an error; stopped: the receive loop has ended. *)
ClientSteps == {"next", "send", "check", "timer", "select", "recv", "packet",
                "loop", "looping", "write", "failed", "stopped"}

ClientTypeOK ==
    /\ GroupTypeOK
    /\ step \in ClientSteps
    /\ left \in 0 .. Addresses /\ round \in 0 .. Rounds /\ probes \in 0 .. MaxProbes
    /\ {tosend, due, timed, ok} \subseteq BOOLEAN

Connected == step \in {"loop", "looping", "write", "stopped"}

ClientInit ==
    /\ GroupInit
    /\ step = "next" /\ left = Addresses
    /\ round = 0 /\ probes = 0 /\ tosend = FALSE /\ due = FALSE
    /\ timed = FALSE /\ ok = FALSE

-----------------------------------------------------------------------------
(* connect *)

(* QuicConnectorState::new for the next address, which may fail *)
NewAttempt ==
    /\ step = "next" /\ left > 0
    /\ step' \in {"send", "next"} /\ left' = left - 1
    /\ round' = 0 /\ probes' = 0 /\ tosend' = TRUE /\ due' = FALSE
    /\ UNCHANGED <<groupVars, timed, ok>>

(* Err(lastest_error) *)
ConnectFails ==
    /\ step = "next" /\ left = 0
    /\ step' = "failed"
    /\ UNCHANGED <<groupVars, left, quiche, timed, ok>>

(* One packet at most is sent, and the attempt ends if that fails. *)
SendPacket ==
    /\ step = "send"
    /\ \/ step' = "check" /\ tosend' \in (IF tosend THEN BOOLEAN ELSE {FALSE})
       \/ step' = "next" /\ tosend /\ UNCHANGED tosend
    /\ UNCHANGED <<groupVars, left, round, probes, due, timed, ok>>

(* Mutant: a connection that is closed is waited for. *)
CheckClosedNot ==
    /\ step = "check"
    /\ step' = "timer"
    /\ UNCHANGED <<groupVars, left, quiche, timed, ok>>

(* is_closed: the attempt has timed out *)
CheckClosed ==
    /\ step = "check"
    /\ step' = IF probes = MaxProbes THEN "next" ELSE "timer"
    /\ UNCHANGED <<groupVars, left, quiche, timed, ok>>

(* connector_state.timeout(): a timer of quiche that has expired leaves a duration
   of zero, and a closed connection has no timer *)
AskTimeout ==
    /\ step = "timer"
    /\ step' = "select"
    /\ timed' = (~ due /\ probes < MaxProbes)
    /\ UNCHANGED <<groupVars, left, quiche, ok>>

(* timeout(udp_socket.recv_from(..), send_timeout) polls recv_from. *)
StartRecv ==
    /\ step = "select"
    /\ RecvFrom
    /\ step' = "recv"
    /\ UNCHANGED <<left, quiche, timed, ok>>

(* TimedOut: recv_from is dropped where it is pending, or before it was polled,
   and on_timeout retransmits or closes the connection.  A Sleep may end up to a
   tick early (module Timeout): then on_timeout does nothing. *)
TimedOut ==
    /\ timed
    /\ \/ step = "select" /\ UNCHANGED groupVars
       \/ step = "recv" /\ GiveUp
    /\ step' = "send"
    /\ IF due
       THEN probes' = probes + 1 /\ tosend' = (probes' < MaxProbes) /\ due' = FALSE
       ELSE UNCHANGED <<probes, tosend, due>>
    /\ UNCHANGED <<left, round, timed, ok>>

(* connector_state.recv: an error or a reject ends the attempt; otherwise the
   handshake goes on, or is complete.  A datagram that brings it further may move
   the timer or leave it where it is, and only on_timeout counts a timeout. *)
RecvPacket ==
    /\ step = "packet"
    /\ \/ step' = "next" /\ UNCHANGED quiche
       \/ /\ round' = round + 1
          /\ step' = IF round' = Rounds THEN "loop" ELSE "send"
          /\ tosend' \in BOOLEAN /\ due' \in {FALSE, due}
          /\ UNCHANGED probes
       \/ /\ Junk
          /\ step' = "send"
          /\ UNCHANGED quiche
    /\ UNCHANGED <<groupVars, left, timed, ok>>

-----------------------------------------------------------------------------
(* The receive loop of the client *)

LoopRecv ==
    /\ step = "loop"
    /\ RecvFrom
    /\ step' = "looping"
    /\ UNCHANGED <<left, quiche, timed, ok>>

(* conn.state.write, whose error ends the loop *)
LoopWrite ==
    /\ step = "write"
    /\ step' \in {"loop", "stopped"}
    /\ UNCHANGED <<groupVars, left, quiche, timed, ok>>

-----------------------------------------------------------------------------
(* recv_from, for either of them *)

Receiving == step \in {"recv", "looping"}

RecvPoll ==
    /\ Receiving
    /\ PollTake \/ PollBlock \/ Park \/ Repoll
    /\ UNCHANGED client

RecvReady ==
    /\ Receiving
    /\ PollReady
    /\ ok' = (data' # data)
    /\ UNCHANGED <<step, left, quiche, timed>>

RecvReturn ==
    /\ Receiving
    /\ Push
    /\ step' = IF step = "recv" THEN IF ok THEN "packet" ELSE "next"
               ELSE IF ok THEN "write" ELSE "stopped"
    /\ UNCHANGED <<left, quiche, timed, ok>>

-----------------------------------------------------------------------------
(* quiche's timer expires, wherever the attempt is; a closed connection has none. *)
Expire ==
    /\ step \in {"send", "check", "timer", "select", "recv", "packet"}
    /\ ~ due /\ probes < MaxProbes
    /\ due' = TRUE
    /\ UNCHANGED <<groupVars, step, left, round, probes, tosend, timed, ok>>

Environment == (\E f \in Fds : Arrive(f) \/ Wake(f)) /\ UNCHANGED client

ClientStep ==
    \/ NewAttempt \/ ConnectFails \/ SendPacket \/ CheckClosed \/ AskTimeout \/ StartRecv
    \/ RecvPacket \/ LoopRecv \/ LoopWrite \/ RecvPoll \/ RecvReady \/ RecvReturn
    \/ TimedOut

ClientNext == ClientStep \/ Expire \/ Environment

ClientSpec == ClientInit /\ [][ClientNext]_<<groupVars, client>>

(* The client runs and the poller runs; time passes wherever the client is, so the
   timer expires however often timeout ends early; and a datagram that is there is
   not refused for ever.  No datagram need arrive. *)
ClientFairSpec ==
    /\ ClientSpec
    /\ WF_<<groupVars, client>>(ClientStep) /\ SF_<<groupVars, client>>(Expire)
    /\ \A f \in Fds :
           /\ WF_<<groupVars, client>>(Wake(f) /\ UNCHANGED client)
           /\ SF_<<groupVars, client>>(RecvReady /\ cur = f /\ data'[f] < data[f])

-----------------------------------------------------------------------------
(* connect returns, whether a server answers or not, as quiche's timeouts end
   every attempt.  The one way not to is that quiche's timer has expired for good:
   it was expired when connect_with asked for the time left, which was zero and so
   no timeout, and no datagram that would move it has come since.  A Sleep that
   ends early, a timer that expires while nobody waits for it and datagrams that
   quiche ignores all lead to one of the two. *)
ConnectEnds == <>[](Connected \/ step = "failed" \/ (due /\ ~ timed))

(* connect returns.  The doc of QuicConnectorState::timeout says that on_timeout
   should be called once the duration has elapsed.  It does not hold: a duration
   of zero is no timeout, and on_timeout is not called. *)
ConnectReturns == <>(Connected \/ step = "failed")

(* No socket starves: a socket that has a datagram is read, although others are
   ready all the time and reads are given up, as long as somebody receives. *)
EverySocketIsRead ==
    \A f \in Fds : data[f] = MaxData ~> data[f] < MaxData \/ step \in {"failed", "stopped"}
=============================================================================
