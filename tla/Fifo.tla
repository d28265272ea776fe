-------------------------------- MODULE Fifo --------------------------------
(***************************************************************************)
(* What hala-lockfree's Queue promises its callers: a FIFO queue whose     *)
(* push and pop each take effect at one instant between call and return.   *)
(***************************************************************************)
EXTENDS Sequences

CONSTANTS Threads,  \* the threads sharing the queue
          Values,   \* the values they push
          None      \* Option::None, returned by pop on an empty queue

VARIABLES queue,    \* the values in the queue, oldest first
          phase,    \* where each thread is in its current call
          taken,    \* the value a pop has taken and not yet returned
          ret       \* what the last pop of each thread returned

vars == <<queue, phase, taken, ret>>

Init ==
    /\ queue = <<>>
    /\ phase = [t \in Threads |-> "idle"]
    /\ taken = [t \in Threads |-> None]
    /\ ret = [t \in Threads |-> None]

(* A push takes effect: the value is the youngest in the queue. *)
Push(t, v) ==
    /\ phase[t] = "idle"
    /\ queue' = Append(queue, v)
    /\ phase' = [phase EXCEPT ![t] = "pushing"]
    /\ UNCHANGED <<taken, ret>>

PushReturn(t) ==
    /\ phase[t] = "pushing"
    /\ phase' = [phase EXCEPT ![t] = "idle"]
    /\ UNCHANGED <<queue, taken, ret>>

PopCall(t) ==
    /\ phase[t] = "idle"
    /\ phase' = [phase EXCEPT ![t] = "popping"]
    /\ UNCHANGED <<queue, taken, ret>>

(* A pop finds the queue empty, at one instant, and returns None. *)
PopEmpty(t) ==
    /\ phase[t] = "popping"
    /\ queue = <<>>
    /\ phase' = [phase EXCEPT ![t] = "idle"]
    /\ ret' = [ret EXCEPT ![t] = None]
    /\ UNCHANGED <<queue, taken>>

(* A pop takes effect: it owns the oldest value, which leaves the queue. *)
PopTake(t) ==
    /\ phase[t] = "popping"
    /\ queue # <<>>
    /\ queue' = Tail(queue)
    /\ taken' = [taken EXCEPT ![t] = Head(queue)]
    /\ phase' = [phase EXCEPT ![t] = "taken"]
    /\ UNCHANGED ret

PopReturn(t) ==
    /\ phase[t] = "taken"
    /\ ret' = [ret EXCEPT ![t] = taken[t]]
    /\ taken' = [taken EXCEPT ![t] = None]
    /\ phase' = [phase EXCEPT ![t] = "idle"]
    /\ UNCHANGED queue

Next ==
    \E t \in Threads :
        \/ \E v \in Values : Push(t, v)
        \/ PushReturn(t)
        \/ PopCall(t)
        \/ PopEmpty(t)
        \/ PopTake(t)
        \/ PopReturn(t)

Spec == Init /\ [][Next]_vars
=============================================================================
