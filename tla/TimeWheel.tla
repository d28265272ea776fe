----------------------------- MODULE TimeWheel ------------------------------
(***************************************************************************)
(* hala-lockfree, src/timewheel.rs: the hashed time wheel.                 *)
(*                                                                         *)
(* Every timer is one call of new_timer by a thread of its own, which      *)
(* covers the threads that make several calls one after the other; the     *)
(* tickers are the threads that call next_tick again and again.  One       *)
(* action is one access to shared state.  Time is finer than a tick: Tick  *)
(* units of time are one tick_duration.  An entry of the map `timers` is   *)
(* never empty, so an empty set stands for an absent entry.                *)
(***************************************************************************)
EXTENDS Integers

CONSTANTS Timers,      \* the timers, one new_timer call each
          Tickers,     \* the threads calling next_tick
          Tick,        \* tick_duration
          Durations,   \* the durations asked for
          MaxNow       \* the time at which the clock of the model stops

ASSUME TimeAssumption ==
    /\ Tick \in Nat \ {0}
    /\ Durations \subseteq Nat \ {0}
    /\ MaxNow \in Nat

VARIABLES now,       \* Instant::now() - start_instant
          ticks,     \* ticks: AtomicU64, the tick the wheel has reached
          timers,    \* timers: DashMap<u64, Vec<T>>
          timer_count, \* timer_count: AtomicU64
          step,      \* the next step of each new_timer call
          expire,    \* the tick at which each timer expires
          seen,      \* the value of ticks a fetch_update has loaded
          tstep,     \* the next step of each ticker
          tcur,      \* `current` of each ticker; the next slot to empty
          tnew,      \* `ticks` of each ticker
          tvec       \* timeout_timers of each ticker

wheel == <<ticks, timers, timer_count>>
callers == <<step, expire, seen>>
tickers == <<tstep, tcur, tnew, tvec>>
wheelVars == <<now, wheel, callers, tickers>>

Slots == {t \div Tick : t \in 0 .. MaxNow}
             \cup {(t + d) \div Tick : t \in 0 .. MaxNow, d \in Durations}

(* idle: not called yet; check, insert, recheck, discard: up to line 71;
   update, update_discard, update_cas: the second fetch_update; count; and the
   answers: some, and two kinds of None, refused before and discarded after the
   insertion. *)
CallSteps == {"idle", "check", "insert", "recheck", "discard", "update",
              "update_discard", "update_cas", "count",
              "some", "refused", "discarded"}
TickSteps == {"load", "clock", "cas", "remove"}

WheelTypeOK ==
    /\ now \in Nat
    /\ ticks \in Nat
    /\ timers \in [Slots -> SUBSET Timers]
    /\ timer_count \in Nat
    /\ step \in [Timers -> CallSteps]
    /\ expire \in [Timers -> Slots]
    /\ seen \in [Timers -> Nat]
    /\ tstep \in [Tickers -> TickSteps]
    /\ tcur \in [Tickers -> Nat]
    /\ tnew \in [Tickers -> Nat]
    /\ tvec \in [Tickers -> SUBSET Timers]

WheelInit ==
    /\ now = 0
    /\ ticks = 0
    /\ timers = [k \in Slots |-> {}]
    /\ timer_count = 0
    /\ step = [m \in Timers |-> "idle"]
    /\ expire = [m \in Timers |-> 0]
    /\ seen = [m \in Timers |-> 0]
    /\ tstep = [w \in Tickers |-> "load"]
    /\ tcur = [w \in Tickers |-> 0]
    /\ tnew = [w \in Tickers |-> 0]
    /\ tvec = [w \in Tickers |-> {}]

(* The clock is monotonic, as Instant is. *)
Clock ==
    /\ now < MaxNow
    /\ now' = now + 1
    /\ UNCHANGED <<wheel, callers, tickers>>

CallGoto(m, from, to) ==
    /\ step[m] = from
    /\ step' = [step EXCEPT ![m] = to]

-----------------------------------------------------------------------------
(* new_timer *)

(* Instant::now(); ticks = (instant_duration + duration) / tick_duration *)
NewTimer(m, d) ==
    /\ CallGoto(m, "idle", "check")
    /\ expire' = [expire EXCEPT ![m] = (now + d) \div Tick]
    /\ UNCHANGED <<now, wheel, seen, tickers>>

(* The first fetch_update stores the value it has read: a read, in effect. *)
CheckLate(m) ==
    /\ CallGoto(m, "check", IF ticks > expire[m] THEN "refused" ELSE "insert")
    /\ UNCHANGED <<now, wheel, expire, seen, tickers>>

(* self.timers.entry(ticks).or_default().push(timer) *)
Insert(m) ==
    /\ CallGoto(m, "insert", "recheck")
    /\ timers' = [timers EXCEPT ![expire[m]] = @ \cup {m}]
    /\ UNCHANGED <<now, ticks, timer_count, expire, seen, tickers>>

(* Mutant: the wheel is not looked at again after the timer is in it. *)
RecheckNot(m) ==
    /\ CallGoto(m, "recheck", "count")
    /\ UNCHANGED <<now, wheel, expire, seen, tickers>>

(* self.ticks.load() > ticks *)
Recheck(m) ==
    /\ CallGoto(m, "recheck", IF ticks > expire[m] THEN "discard" ELSE "update")
    /\ UNCHANGED <<now, wheel, expire, seen, tickers>>

(* self.timers.remove(&ticks), a whole slot: None is returned if it was there. *)
Remove(m, from, to) ==
    /\ CallGoto(m, from, IF timers[expire[m]] # {} THEN "discarded" ELSE to)
    /\ timers' = [timers EXCEPT ![expire[m]] = {}]
    /\ UNCHANGED <<now, ticks, timer_count, expire, seen, tickers>>

Discard(m) == Remove(m, "discard", "update")

(* The second fetch_update: load, closure, compare_exchange, until it succeeds. *)
UpdateLoad(m) ==
    /\ CallGoto(m, "update", IF ticks > expire[m] THEN "update_discard" ELSE "update_cas")
    /\ seen' = [seen EXCEPT ![m] = ticks]
    /\ UNCHANGED <<now, wheel, expire, tickers>>

UpdateDiscard(m) == Remove(m, "update_discard", "update_cas")

UpdateCas(m) ==
    /\ CallGoto(m, "update_cas", IF ticks = seen[m] THEN "count" ELSE "update")
    /\ seen' = [seen EXCEPT ![m] = 0]
    /\ UNCHANGED <<now, wheel, expire, tickers>>

(* self.timer_count.fetch_add(1); Some(ticks) *)
Count(m) ==
    /\ CallGoto(m, "count", "some")
    /\ timer_count' = timer_count + 1
    /\ UNCHANGED <<now, ticks, timers, expire, seen, tickers>>

CallResume(m) ==
    \/ CheckLate(m) \/ Insert(m) \/ Recheck(m) \/ Discard(m)
    \/ UpdateLoad(m) \/ UpdateDiscard(m) \/ UpdateCas(m) \/ Count(m)

-----------------------------------------------------------------------------
(* next_tick *)

TickGoto(w, from, to) ==
    /\ tstep[w] = from
    /\ tstep' = [tstep EXCEPT ![w] = to]

(* let current = self.ticks.load(); a caller has done with what the call before
   returned *)
TickLoad(w) ==
    /\ TickGoto(w, "load", "clock")
    /\ tvec[w] = {}
    /\ tcur' = [tcur EXCEPT ![w] = ticks]
    /\ UNCHANGED <<now, wheel, callers, tnew, tvec>>

(* The clock is read; None is returned if the wheel has reached that tick. *)
TickClock(w) ==
    /\ TickGoto(w, "clock", IF tcur[w] = now \div Tick THEN "load" ELSE "cas")
    /\ tnew' = [tnew EXCEPT ![w] = now \div Tick]
    /\ UNCHANGED <<now, wheel, callers, tcur, tvec>>

(* self.ticks.compare_exchange(current, ticks): on failure, once more *)
TickCas(w) ==
    /\ TickGoto(w, "cas", IF ticks = tcur[w] THEN "remove" ELSE "load")
    /\ ticks' = IF ticks = tcur[w] THEN tnew[w] ELSE ticks
    /\ UNCHANGED <<now, timers, timer_count, callers, tcur, tnew, tvec>>

(* While there is `more`, the next slot is taken out of the map; at the end the
   timers found are returned. *)
TakeSlots(w, more) ==
    /\ TickGoto(w, "remove", IF more THEN "remove" ELSE "load")
    /\ IF more
       THEN /\ timers' = [timers EXCEPT ![tcur[w]] = {}]
            /\ tvec' = [tvec EXCEPT ![w] = @ \cup timers[tcur[w]]]
            /\ tcur' = [tcur EXCEPT ![w] = @ + 1]
       ELSE tcur' = [tcur EXCEPT ![w] = 0] /\ UNCHANGED <<timers, tvec>>
    /\ tnew' = [tnew EXCEPT ![w] = IF more THEN @ ELSE 0]
    /\ UNCHANGED <<now, ticks, timer_count, callers>>

(* Mutant: the slot of the tick just begun is emptied too. *)
TickRemoveInclusive(w) == TakeSlots(w, tcur[w] <= tnew[w])

(* for i in current..ticks: self.timers.remove(&i), one slot at a time *)
TickRemove(w) == TakeSlots(w, tcur[w] < tnew[w])

TickStep(w) == TickLoad(w) \/ TickClock(w) \/ TickCas(w) \/ TickRemove(w)

(* The caller of next_tick goes through the timers it returned. *)
TickUse(w, m) ==
    /\ tstep[w] = "load"
    /\ m \in tvec[w]
    /\ tvec' = [tvec EXCEPT ![w] = @ \ {m}]
    /\ UNCHANGED <<now, wheel, callers, tstep, tcur, tnew>>

WheelNext ==
    \/ Clock
    \/ \E m \in Timers : CallResume(m) \/ \E d \in Durations : NewTimer(m, d)
    \/ \E w \in Tickers : TickStep(w) \/ \E m \in Timers : TickUse(w, m)

WheelSpec == WheelInit /\ [][WheelNext]_wheelVars

-----------------------------------------------------------------------------
(* Timer m is in its slot, and the slot is still to be emptied. *)
Due(m) ==
    /\ m \in timers[expire[m]]
    /\ \/ ticks <= expire[m]
       \/ \E w \in Tickers : /\ tstep[w] = "remove"
                             /\ tcur[w] <= expire[m] /\ expire[m] < tnew[w]

(* ... or it is in the hands of a caller of next_tick. *)
Held(m) == Due(m) \/ \E w \in Tickers : m \in tvec[w]

(* No timer for which new_timer has returned Some is left in a slot that the wheel
   has passed: whatever next_tick did between the insertion and the answer, a
   timer that is in the map is found by a next_tick. *)
NoStrandedTimer ==
    \A m \in Timers : step[m] = "some" /\ m \in timers[expire[m]] => Due(m)

(* The assertion of next_tick, current <= ticks, never fails: whichever ticker moved
   the wheel to the tick that was loaded, it had read the clock before, and the tick
   of a later reading is no smaller. *)
TickerNeverPanics ==
    \A w \in Tickers : tstep[w] = "clock" => tcur[w] <= now \div Tick

(* next_tick returns no timer before its time: the tick in which it expires is over. *)
NeverEarly ==
    \A w \in Tickers : \A m \in tvec[w] : expire[m] < now \div Tick
=============================================================================
