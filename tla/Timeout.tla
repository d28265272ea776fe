------------------------------ MODULE Timeout -------------------------------
(***************************************************************************)
(* hala-io: timeout(fut, expired) (timeout.rs), the Sleep future it races  *)
(* fut against (sleep.rs), the MioTimer behind a Sleep (mio/timer.rs,      *)
(* mio/driver.rs) and the timers' share of poll_once (mio/poller.rs), over *)
(* the time wheel, step by step (TimeWheel).  sleep(expired) is timeout of *)
(* a fut that is never ready.                                              *)
(*                                                                         *)
(* Each call has a task, a timer and a token of its own; the timers that   *)
(* no call owns stand for the other users of the same wheel.  The tickers  *)
(* are the threads that run poll_once.                                     *)
(***************************************************************************)
EXTENDS TimeWheel

CONSTANTS Calls,       \* the calls of timeout, one task each: timers of the wheel
          LastStart,   \* the time after which no call is made
          LastOther,   \* the time after which no other user starts a timer
          Prompt       \* no thread is held up for more than a tick between
                       \* the test of a timer and the insertion of the waker

ASSUME CallsAssumption ==
    /\ Calls \subseteq Timers
    /\ LastStart \in Nat /\ LastOther \in Nat
    /\ Prompt \in BOOLEAN

VARIABLES wakers,      \* the tokens that have a waker in read_wakers
          fd,          \* Sleep.fd: none, open, closed
          duration,    \* MioTimer.duration
          start,       \* MioTimer.start_instant
          checked,     \* the time of the test of the timer being acted upon
          ready,       \* the calls whose fut is ready
          left,        \* what select! still has to poll
          result,      \* what timeout returns
          pc,          \* the next step of each call
          woken        \* the tasks woken since they were last polled

timer == <<fd, duration, start, checked>>
task == <<ready, left, result, pc>>
timeoutVars == <<wakers, timer, task, woken>>
vars == <<wheelVars, timeoutVars>>

Times == 0 .. MaxNow
Answers == {"some", "refused", "discarded"}

(* poll: inside select!; start, new_timer: inside the first poll of Sleep;
   check, add_waker: inside driver.timeout; drop: dropping the Sleep. *)
Steps == {"idle", "poll", "start", "new_timer", "check", "add_waker",
          "pending", "drop", "end"}

TypeOK ==
    /\ WheelTypeOK
    /\ wakers \in SUBSET Calls
    /\ fd \in [Calls -> {"none", "open", "closed"}]
    /\ duration \in [Calls -> Durations]
    /\ start \in [Calls -> Times]
    /\ checked \in [Calls -> Times]
    /\ ready \in SUBSET Calls
    /\ left \in [Calls -> SUBSET {"fut", "sleep"}]
    /\ result \in [Calls -> {"none", "ok", "timed_out"}]
    /\ pc \in [Calls -> Steps]
    /\ woken \in SUBSET Calls

Init ==
    /\ WheelInit
    /\ wakers = {}
    /\ fd = [c \in Calls |-> "none"]
    /\ duration \in [Calls -> Durations]
    /\ start = [c \in Calls |-> 0]
    /\ checked = [c \in Calls |-> 0]
    /\ ready = {}
    /\ left = [c \in Calls |-> {}]
    /\ result = [c \in Calls |-> "none"]
    /\ pc = [c \in Calls |-> "idle"]
    /\ woken = {}

Goto(c, from, to) ==
    /\ pc[c] = from
    /\ pc' = [pc EXCEPT ![c] = to]

-----------------------------------------------------------------------------
(* timeout: select! polls fut and the Sleep, in any order. *)

(* The executor polls the task, for the first time or because it was woken. *)
Poll(c) ==
    /\ \/ pc[c] = "idle" /\ now <= LastStart
       \/ pc[c] = "pending" /\ c \in woken
    /\ pc' = [pc EXCEPT ![c] = "poll"]
    /\ left' = [left EXCEPT ![c] = {"fut", "sleep"}]
    /\ woken' = woken \ {c}
    /\ UNCHANGED <<wheelVars, wakers, timer, ready, result>>

(* fut is polled: when it is ready, timeout returns its result. *)
PollFut(c) ==
    /\ "fut" \in left[c]
    /\ Goto(c, "poll", IF c \in ready THEN "drop" ELSE "poll")
    /\ result' = [result EXCEPT ![c] = IF c \in ready THEN "ok" ELSE @]
    /\ left' = [left EXCEPT ![c] = @ \ {"fut"}]
    /\ UNCHANGED <<wheelVars, wakers, timer, ready, woken>>

(* Mutant: the first poll of the Sleep is pending, and leaves the timer to the next. *)
PollSleepLater(c) ==
    /\ "sleep" \in left[c]
    /\ Goto(c, "poll", IF fd[c] = "none" THEN "poll" ELSE "check")
    /\ left' = [left EXCEPT ![c] = @ \ {"sleep"}]
    /\ UNCHANGED <<wheelVars, wakers, timer, ready, result, woken>>

(* The Sleep is polled: the first time it opens its timer and registers it. *)
PollSleep(c) ==
    /\ "sleep" \in left[c]
    /\ Goto(c, "poll", IF fd[c] = "none" THEN "start" ELSE "check")
    /\ left' = [left EXCEPT ![c] = @ \ {"sleep"}]
    /\ UNCHANGED <<wheelVars, wakers, timer, ready, result, woken>>

(* Both are pending. *)
ReturnPending(c) ==
    /\ left[c] = {}
    /\ Goto(c, "poll", "pending")
    /\ UNCHANGED <<wheelVars, wakers, timer, ready, left, result, woken>>

(* fut becomes ready and wakes the task. *)
FutReady(c) ==
    /\ pc[c] # "end"
    /\ c \notin ready
    /\ ready' = ready \cup {c}
    /\ woken' = woken \cup {c}
    /\ UNCHANGED <<wheelVars, wakers, timer, left, result, pc>>

-----------------------------------------------------------------------------
(* MioTimer *)

(* fd_open, and register: start_instant = Instant::now() *)
Start(c) ==
    /\ Goto(c, "start", "new_timer")
    /\ start' = [start EXCEPT ![c] = now]
    /\ fd' = [fd EXCEPT ![c] = "open"]
    /\ UNCHANGED <<wheelVars, wakers, duration, checked, ready, left,
                   result, woken>>

(* timewheel.new_timer(token, duration): the wheel reads the clock by itself. *)
RegisterTimer(c) ==
    /\ Goto(c, "new_timer", "check")
    /\ NewTimer(c, duration[c])
    /\ UNCHANGED <<wakers, timer, ready, left, result, woken>>

(* The other users of the wheel. *)
OtherTimer(m) ==
    /\ now <= LastOther
    /\ \E d \in Durations : NewTimer(m, d)
    /\ UNCHANGED timeoutVars

(* A new_timer call goes on. *)
NewTimerResume(m) == CallResume(m) /\ UNCHANGED timeoutVars

Elapsed(c) == now - start[c]

(* Mutant: the remaining time is not compared with the tick. *)
IsExpiredExactly(c) == Elapsed(c) >= duration[c]

(* elapsed >= duration, or less than a tick is left *)
IsExpired(c) == Elapsed(c) >= duration[c] \/ duration[c] - Elapsed(c) < Tick

(* driver.timeout, once new_timer has returned, whatever its answer: the timer is
   tested.  If it has expired, timeout returns. *)
Check(c) ==
    /\ step[c] \in Answers
    /\ Goto(c, "check", IF IsExpired(c) THEN "drop" ELSE "add_waker")
    /\ result' = [result EXCEPT ![c] = IF IsExpired(c) THEN "timed_out" ELSE @]
    /\ checked' = [checked EXCEPT ![c] = now]
    /\ UNCHANGED <<wheelVars, wakers, fd, duration, start, ready, left,
                   woken>>

(* ... and if not, poller.add_waker(token, Interest::Readable, waker). *)
AddWaker(c) ==
    /\ Goto(c, "add_waker", "poll")
    /\ wakers' = wakers \cup {c}
    /\ checked' = [checked EXCEPT ![c] = 0]
    /\ UNCHANGED <<wheelVars, fd, duration, start, ready, left, result,
                   woken>>

(* Drop for Sleep: an open timer is closed; deregister removes its waker and
   wakes it.  Its token stays in the wheel. *)
Drop(c) ==
    /\ Goto(c, "drop", "end")
    /\ fd' = [fd EXCEPT ![c] = IF @ = "open" THEN "closed" ELSE @]
    /\ wakers' = wakers \ {c}
    /\ woken' = IF c \in wakers THEN woken \cup {c} ELSE woken
    /\ UNCHANGED <<wheelVars, duration, start, checked, ready, left,
                   result>>

-----------------------------------------------------------------------------
(* poll_once *)

(* hashed_timewheel.next_tick() *)
NextTick(w) == TickStep(w) /\ UNCHANGED timeoutVars

(* For a token next_tick returned: read_wakers.remove(&token), and wake() *)
Wake(w, m) ==
    /\ TickUse(w, m)
    /\ wakers' = wakers \ {m}
    /\ woken' = IF m \in wakers THEN woken \cup {m} ELSE woken
    /\ UNCHANGED <<timer, task>>

PollOnce(w) == NextTick(w) \/ \E m \in Timers : Wake(w, m)

(* Time passes.  Prompt: no task stays at add_waker for more than a tick.  The
   calls made by LastStart start their timers by then. *)
Advance ==
    /\ Clock
    /\ now = LastStart => \A c \in Calls : fd[c] = "none" => pc[c] \in {"idle", "end"}
    /\ Prompt => \A c \in Calls : pc[c] = "add_waker" => now < checked[c] + Tick
    /\ UNCHANGED timeoutVars

-----------------------------------------------------------------------------
(* What a task does once it is polled *)
Resume(c) ==
    PollFut(c) \/ PollSleep(c) \/ ReturnPending(c) \/ Start(c) \/ RegisterTimer(c)
    \/ NewTimerResume(c) \/ Check(c) \/ AddWaker(c) \/ Drop(c)

Next ==
    \/ \E c \in Calls : Poll(c) \/ Resume(c) \/ FutReady(c)
    \/ /\ \E c \in Calls : pc[c] # "end"
       /\ \/ \E m \in Timers \ Calls : OtherTimer(m) \/ NewTimerResume(m)
          \/ \E w \in Tickers : PollOnce(w)
          \/ Advance

Spec == Init /\ [][Next]_vars

(* Time passes, the poll thread and the tasks' threads keep running, and the
   executor polls a woken task.  Nothing makes fut ready. *)
FairSpec ==
    /\ Spec
    /\ WF_vars(Advance)
    /\ \A w \in Tickers : WF_vars(PollOnce(w))
    /\ \A m \in Timers \ Calls : WF_vars(NewTimerResume(m))
    /\ \A c \in Calls :
           WF_vars(Resume(c)) /\ WF_vars(pc[c] = "pending" /\ Poll(c))

-----------------------------------------------------------------------------
(* The timer has been given to the wheel, and the wheel has answered. *)
Started(c) == step[c] \in Answers

(* A late timer of the same tick has emptied the slot. *)
Emptied(c) ==
    \E m \in Timers \ {c} : step[m] = "discarded" /\ expire[m] = expire[c]

(* A timer is never taken out of the wheel, nor refused by it, before it has
   expired: however the clock readings of start and new_timer, the division into
   ticks, and the steps of new_timer and next_tick fall, the poll that follows
   finds is_expired true and does not wait for a timer that is gone. *)
GoneIsExpired ==
    \A c \in Calls : Started(c) /\ ~Held(c) => Elapsed(c) >= duration[c]

(* No expiry is lost: a call that sleeps has its waker in the map, and its timer
   in the wheel or on poll_once's list, whatever the answer of new_timer was and
   wherever next_tick was in the meantime.  It holds when no thread is suspended
   for more than a tick between is_expired and add_waker (Prompt), and as long as no late
   new_timer of the same tick has emptied the slot. *)
NoLostExpiry ==
    \A c \in Calls : pc[c] = "pending" /\ c \notin woken =>
        c \in wakers /\ (Held(c) \/ Emptied(c))

(* Every call of timeout returns, ready or not: the expiry ends it.  Two cases are
   left out.  Prompt, which the run sets, assumes that no thread is held up for more
   than a tick between is_expired and add_waker; without it the timer may fire before
   the waker is there and the call sleeps for ever.  And a late timer of the same
   tick may have emptied the slot (Emptied), which AnyTimeoutReturns is about. *)
TimeoutReturns ==
    \A c \in Calls : pc[c] = "pending" ~> pc[c] = "end" \/ Emptied(c)

(* The same, whoever shares the slot.  It does not hold: new_timer takes a whole
   slot out of the map, after next_tick has moved `ticks` and before it has
   emptied the slot, and the timers filed with it never fire. *)
AnyTimeoutReturns == \A c \in Calls : pc[c] = "pending" ~> pc[c] = "end"

(* sleep.rs: "suspend `expired` interval".  A call that times out has waited
   for its whole duration.  It does not hold: up to a tick is cut off. *)
SuspendsInterval ==
    \A c \in Calls :
        result[c] = "timed_out" => checked[c] - start[c] >= duration[c]
=============================================================================
