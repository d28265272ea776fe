---------------------------- MODULE TimeoutProofs ---------------------------
(***************************************************************************)
(* Proofs about time in hala-io.  The wheel, for any number of new_timer   *)
(* calls and of threads calling next_tick, and every tick and duration: it *)
(* loses no timer.  timeout over the wheel, step by step with it, for any  *)
(* number of calls and of other users: a call whose timer is gone has      *)
(* expired, a timer is not stranded, and, where the driver keeps up with   *)
(* the clock, no expiry is lost.                                           *)
(***************************************************************************)
EXTENDS Timeout, TLAPS

-----------------------------------------------------------------------------
(* The time wheel *)

(* new_timer is past its second look at the wheel. *)
Answered == {"update", "update_discard", "update_cas", "count", "some"}

(* A timer that is in its slot once new_timer has looked at the wheel again is
   due: the look found that the wheel had not passed the slot, and whoever moves
   the wheel past it empties it.  A timer that the look found late was taken out
   with its slot, by new_timer or by next_tick. *)
SlotsOK ==
    /\ now \in 0 .. MaxNow
    /\ ticks \in Int
    /\ timers \in [Slots -> SUBSET Timers]
    /\ step \in [Timers -> CallSteps]
    /\ expire \in [Timers -> Slots]
    /\ tstep \in [Tickers -> TickSteps]
    /\ tcur \in [Tickers -> Int]
    /\ tnew \in [Tickers -> Int]
    /\ \A m \in Timers : step[m] \in Answered /\ m \in timers[expire[m]] => Due(m)

(* Every slot is an integer, and every expiry has a slot. *)
LEMMA SlotsType ==
    /\ Slots \subseteq Int /\ 0 \in Slots
    /\ \A t \in 0 .. MaxNow : t \div Tick \in Int
    /\ \A t \in 0 .. MaxNow, d \in Durations : (t + d) \div Tick \in Slots
<1>1. \A t \in 0 .. MaxNow, d \in Durations : t + d \in Int BY TimeAssumption
<1>2. \A t \in Int : t \div Tick \in Int BY TimeAssumption
<1>3. 0 \div Tick = 0 /\ 0 \in 0 .. MaxNow BY TimeAssumption
<1> QED BY <1>1, <1>2, <1>3 DEF Slots

(* Initially no timer is in the wheel. *)
LEMMA SlotsInit == WheelInit => SlotsOK
BY SlotsType, TimeAssumption DEF WheelInit, SlotsOK, CallSteps, TickSteps, Answered

(* What is due stays due, as long as it is in its slot. *)
LEMMA DueStep ==
    ASSUME SlotsOK, NEW m \in Timers, Due(m), WheelNext, expire'[m] = expire[m],
           m \in timers'[expire[m]]
    PROVE  Due(m)'
<1>s. expire[m] \in Slots /\ expire[m] \in Int BY Zenon, SlotsType DEF SlotsOK
<1>1. CASE UNCHANGED <<ticks, tickers>>
  BY Zenon, <1>1 DEF Due, tickers
<1>2. CASE \E w \in Tickers, n \in Timers : TickUse(w, n)
  BY Zenon, <1>2 DEF TickUse, Due, wheel, callers
<1>3. ASSUME NEW w \in Tickers, TickLoad(w) PROVE Due(m)'
  BY Zenon, <1>3 DEF SlotsOK, TickLoad, TickGoto, Due, wheel, callers
<1>4. ASSUME NEW w \in Tickers, TickClock(w) PROVE Due(m)'
  BY Zenon, <1>4 DEF SlotsOK, TickClock, TickGoto, Due, wheel, callers
<1>5. ASSUME NEW w \in Tickers, TickCas(w) PROVE Due(m)'
  <2>1. CASE ticks = tcur[w] /\ ticks <= expire[m]
    <3>1. tstep'[w] = "remove" /\ tcur'[w] = ticks /\ tnew'[w] = tnew[w] /\ ticks' = tnew[w]
      BY Zenon, <1>5, <2>1 DEF SlotsOK, TickCas, TickGoto
    <3> QED BY <1>5, <2>1, <3>1, <1>s DEF SlotsOK, Due
  <2>2. CASE ~(ticks = tcur[w] /\ ticks <= expire[m])
    BY Zenon, <1>5, <2>2, <1>s DEF SlotsOK, TickCas, TickGoto, Due
  <2> QED BY Zenon, <2>1, <2>2
<1>6. ASSUME NEW w \in Tickers, TickRemove(w) PROVE Due(m)'
  <2>1. UNCHANGED <<ticks, expire>> BY Zenon, <1>6 DEF TickRemove, TakeSlots, callers
  <2>2. CASE ticks <= expire[m] BY Zenon, <1>6, <2>1, <2>2 DEF Due
  <2>3. ASSUME NEW v \in Tickers, tstep[v] = "remove",
               tcur[v] <= expire[m], expire[m] < tnew[v]
        PROVE  Due(m)'
    <3>1. CASE v # w
      BY Zenon, <1>6, <2>1, <2>3, <3>1 DEF SlotsOK, TickRemove, TakeSlots, TickGoto, Due
    <3>2. CASE v = w
      <4>1. tcur[w] < tnew[w] BY <2>3, <3>2, <1>s DEF SlotsOK
      <4>2. /\ tstep'[w] = "remove" /\ tnew'[w] = tnew[w] /\ tcur'[w] = tcur[w] + 1
            /\ timers' = [timers EXCEPT ![tcur[w]] = {}]
        BY Zenon, <1>6, <4>1, <2>3, <3>2 DEF SlotsOK, TickRemove, TakeSlots, TickGoto
      <4>3. tcur[w] # expire[m] BY Zenon, <4>2, <1>s DEF SlotsOK
      <4>4. tcur'[w] <= expire[m] BY <4>2, <4>3, <2>3, <3>2, <1>s DEF SlotsOK
      <4> QED BY Zenon, <4>2, <4>4, <2>1, <2>3, <3>2 DEF Due
    <3> QED BY Zenon, <3>1, <3>2
  <2> QED BY Zenon, <2>2, <2>3 DEF Due
<1> QED
  <2>1. Clock \/ (\E n \in Timers : CallResume(n) \/ \E d \in Durations : NewTimer(n, d))
        => UNCHANGED <<ticks, tickers>>
    BY Zenon DEF Clock, CallResume, NewTimer, CheckLate, Insert, Recheck, Discard, Remove,
           UpdateLoad, UpdateDiscard, UpdateCas, Count, wheel
  <2> QED BY Zenon, <2>1, <1>1, <1>2, <1>3, <1>4, <1>5, <1>6 DEF WheelNext, TickStep

(* The steps of a new_timer call, but for its first: they leave its expiry alone. *)
LEMMA CallFacts ==
    ASSUME SlotsOK, NEW m \in Timers, CallResume(m)
    PROVE  /\ UNCHANGED <<now, ticks, expire, tickers>>
           /\ step' \in [Timers -> CallSteps]
           /\ \A n \in Timers \ {m} : step'[n] = step[n]
           /\ timers' \in [Slots -> SUBSET Timers]
           /\ \A n \in Timers \ {m}, k \in Slots : n \in timers'[k] => n \in timers[k]
           /\ \/ UNCHANGED timers
              \/ step'[m] \notin Answered
              \/ m \notin timers'[expire[m]]
           /\ step'[m] \in Answered /\ m \in timers'[expire[m]] =>
                  step[m] \in Answered \/ ticks <= expire[m]
<1>s. expire[m] \in Slots /\ expire[m] \in Int BY Zenon, SlotsType DEF SlotsOK
<1>1. CASE CheckLate(m)
  BY Zenon, <1>1 DEF CheckLate, CallGoto, SlotsOK, CallSteps, Answered, wheel
<1>2. CASE Insert(m)
  BY Zenon, <1>2, <1>s DEF Insert, CallGoto, SlotsOK, CallSteps, Answered
<1>3. CASE Recheck(m)
  BY <1>3, <1>s DEF Recheck, CallGoto, SlotsOK, CallSteps, Answered, wheel
<1>4. CASE Discard(m)
  BY Zenon, <1>4, <1>s DEF Discard, Remove, CallGoto, SlotsOK, CallSteps, Answered
<1>5. CASE UpdateLoad(m)
  BY Zenon, <1>5 DEF UpdateLoad, CallGoto, SlotsOK, CallSteps, Answered, wheel
<1>6. CASE UpdateDiscard(m)
  BY Zenon, <1>6, <1>s DEF UpdateDiscard, Remove, CallGoto, SlotsOK, CallSteps, Answered
<1>7. CASE UpdateCas(m)
  BY Zenon, <1>7 DEF UpdateCas, CallGoto, SlotsOK, CallSteps, Answered, wheel
<1>8. CASE Count(m)
  BY Zenon, <1>8 DEF Count, CallGoto, SlotsOK, CallSteps, Answered
<1> QED BY Zenon, <1>1, <1>2, <1>3, <1>4, <1>5, <1>6, <1>7, <1>8 DEF CallResume

(* The steps of a ticker: they leave the calls alone and only empty slots. *)
LEMMA TickFacts ==
    ASSUME SlotsOK, NEW w \in Tickers, TickStep(w) \/ \E m \in Timers : TickUse(w, m)
    PROVE  /\ UNCHANGED <<now, step, expire>>
           /\ ticks' \in Int
           /\ timers' \in [Slots -> SUBSET Timers]
           /\ \A m \in Timers, k \in Slots : m \in timers'[k] => m \in timers[k]
           /\ tstep' \in [Tickers -> TickSteps]
           /\ tcur' \in [Tickers -> Int] /\ tnew' \in [Tickers -> Int]
<1>1. CASE TickLoad(w)
  BY Zenon, <1>1 DEF TickLoad, TickGoto, SlotsOK, TickSteps, wheel, callers
<1>2. CASE TickClock(w)
  <2>1. now \div Tick \in Int BY Zenon, SlotsType DEF SlotsOK
  <2> QED BY Zenon, <1>2, <2>1 DEF TickClock, TickGoto, SlotsOK, TickSteps, wheel, callers
<1>3. CASE TickCas(w)
  BY Zenon, <1>3 DEF TickCas, TickGoto, SlotsOK, TickSteps, callers
<1>4. CASE TickRemove(w)
  <2>1. CASE tcur[w] < tnew[w]
    BY <1>4, <2>1 DEF TickRemove, TakeSlots, TickGoto, SlotsOK, TickSteps, callers
  <2>2. CASE ~(tcur[w] < tnew[w])
    BY <1>4, <2>2 DEF TickRemove, TakeSlots, TickGoto, SlotsOK, TickSteps, callers
  <2> QED BY Zenon, <2>1, <2>2
<1>5. CASE \E m \in Timers : TickUse(w, m)
  BY Zenon, <1>5 DEF TickUse, SlotsOK, wheel, callers
<1> QED BY Zenon, <1>1, <1>2, <1>3, <1>4, <1>5 DEF TickStep

(* Every step keeps the timers that are answered for due. *)
LEMMA SlotsStep == SlotsOK /\ [WheelNext]_wheelVars => SlotsOK'
<1> SUFFICES ASSUME SlotsOK, [WheelNext]_wheelVars PROVE SlotsOK'
  BY Zenon
<1>i. \A m \in Timers : expire[m] \in Slots BY Zenon DEF SlotsOK
<1>d. ASSUME WheelNext, NEW m \in Timers, step[m] \in Answered, expire'[m] = expire[m],
             m \in timers[expire[m]], m \in timers'[expire[m]]
      PROVE  Due(m)'
  BY Zenon, <1>d, DueStep DEF SlotsOK
<1>1. CASE Clock
  <2>1. now' \in 0 .. MaxNow BY <1>1, TimeAssumption DEF Clock, SlotsOK
  <2>2. UNCHANGED <<ticks, timers, step, expire, tstep, tcur, tnew>>
    BY Zenon, <1>1 DEF Clock, wheel, callers, tickers
  <2> QED BY Zenon, <2>1, <2>2 DEF SlotsOK, Due
<1>2. ASSUME NEW n \in Timers, NEW d \in Durations, NewTimer(n, d) PROVE SlotsOK'
  <2>1. /\ UNCHANGED <<now, ticks, timers, tstep, tcur, tnew>>
        /\ step' \in [Timers -> CallSteps] /\ step'[n] \notin Answered
        /\ \A m \in Timers \ {n} : step'[m] = step[m] /\ expire'[m] = expire[m]
        /\ expire' \in [Timers -> Slots]
    BY Zenon, <1>2, SlotsType
       DEF NewTimer, CallGoto, SlotsOK, CallSteps, Answered, wheel, tickers
  <2> QED BY Zenon, <2>1 DEF SlotsOK, Due
<1>3. ASSUME NEW n \in Timers, CallResume(n) PROVE SlotsOK'
  <2>1. ASSUME NEW m \in Timers, step'[m] \in Answered, m \in timers'[expire'[m]]
        PROVE  Due(m)'
    <3>1. CASE m # n
      BY Zenon, <1>3, <2>1, <3>1, <1>d, <1>i, CallFacts DEF WheelNext
    <3>2. CASE m = n /\ step[m] \in Answered
      BY Zenon, <1>3, <2>1, <3>2, <1>d, <1>i, CallFacts DEF WheelNext
    <3>3. CASE m = n /\ step[m] \notin Answered
      <4>1. ticks' <= expire'[m] BY Zenon, <1>3, <2>1, <3>3, CallFacts
      <4> QED BY Zenon, <2>1, <4>1 DEF Due
    <3> QED BY Zenon, <3>1, <3>2, <3>3
  <2> QED BY Zenon, <1>3, <2>1, CallFacts DEF SlotsOK, tickers
<1>4. ASSUME NEW w \in Tickers, TickStep(w) \/ \E m \in Timers : TickUse(w, m)
      PROVE  SlotsOK'
  <2>1. ASSUME NEW m \in Timers, step'[m] \in Answered, m \in timers'[expire'[m]]
        PROVE  Due(m)'
    BY Zenon, <1>4, <2>1, <1>d, <1>i, TickFacts DEF WheelNext
  <2> QED BY Zenon, <1>4, <2>1, TickFacts DEF SlotsOK
<1>5. CASE UNCHANGED wheelVars
  BY Zenon, <1>5 DEF wheelVars, wheel, callers, tickers, SlotsOK, Due
<1> QED BY Zenon, <1>1, <1>2, <1>3, <1>4, <1>5 DEF WheelNext

(* timewheel.rs: no timer for which new_timer has returned Some is left behind in a
   slot that the wheel has passed, whatever next_tick did between the insertion and
   the answer. *)
THEOREM WheelNoStrandedTimer == WheelSpec => []NoStrandedTimer
<1>1. SlotsOK => NoStrandedTimer BY Zenon DEF SlotsOK, NoStrandedTimer, Answered
<1> QED BY SlotsInit, SlotsStep, <1>1, PTL DEF WheelSpec

-----------------------------------------------------------------------------
(* next_tick and the clock *)

(* The tick of a later reading of the clock is no smaller. *)
LEMMA DivMonotonic ==
    ASSUME NEW a \in Nat, NEW b \in Nat, a <= b PROVE a \div Tick <= b \div Tick
BY TimeAssumption

(* Every tick up to the clock's has a slot. *)
LEMMA TicksAreSlots ==
    ASSUME NEW t \in 0 .. MaxNow, NEW k \in Nat, k <= t \div Tick PROVE k \in Slots
<1>1. /\ Tick \in Nat \ {0} /\ t \in Nat /\ MaxNow \in Nat /\ t <= MaxNow
      /\ t \div Tick \in Nat
  BY TimeAssumption
<1>2. (t \div Tick) * Tick <= t BY <1>1
<1>3. k * Tick \in Nat /\ k * Tick <= (t \div Tick) * Tick BY <1>1
<1>4. k * Tick \in 0 .. MaxNow BY <1>1, <1>2, <1>3
<1>5. (k * Tick) \div Tick = k BY <1>1
<1> QED BY <1>4, <1>5 DEF Slots

(* The wheel is never ahead of the clock, and no ticker is about to move it there;
   a timer is in the slot of its expiry, and what a ticker has taken out of the
   wheel has expired. *)
ClockOK ==
    /\ SlotsOK
    /\ ticks \in Nat /\ ticks <= now \div Tick
    /\ \A w \in Tickers : /\ tcur[w] \in Nat /\ tnew[w] \in Nat
                          /\ tnew[w] <= now \div Tick
    /\ TickerNeverPanics
    /\ \A k \in Slots : \A m \in timers[k] : expire[m] = k /\ step[m] # "idle"
    /\ tvec \in [Tickers -> SUBSET Timers]
    /\ \A w \in Tickers : \A m \in tvec[w] : step[m] # "idle"
    /\ NeverEarly

(* Initially the wheel and the clock are at 0. *)
LEMMA ClockInit == WheelInit => ClockOK
<1>1. 0 \div Tick = 0 BY TimeAssumption
<1> QED BY <1>1, SlotsInit
      DEF WheelInit, ClockOK, TickerNeverPanics, NeverEarly

(* Every step keeps the wheel behind the clock. *)
LEMMA ClockStep == ClockOK /\ [WheelNext]_wheelVars => ClockOK'
<1> SUFFICES ASSUME ClockOK, [WheelNext]_wheelVars PROVE ClockOK'
  BY Zenon
<1>s. SlotsOK /\ SlotsOK' BY Zenon, SlotsStep DEF ClockOK
<1>n. now \in 0 .. MaxNow /\ now \div Tick \in Nat
  BY <1>s, TimeAssumption DEF SlotsOK
<1>1. CASE Clock
  <2>1. /\ UNCHANGED <<ticks, timers, step, expire, tstep, tcur, tnew, tvec>>
        /\ now' \in 0 .. MaxNow /\ now <= now'
    BY <1>1, <1>n, <1>s DEF Clock, wheel, callers, tickers, SlotsOK
  <2>2. now \div Tick <= now' \div Tick /\ now' \div Tick \in Int
    <3>1. now \in Nat /\ now' \in Nat BY <2>1, <1>n, TimeAssumption
    <3>2. now' \div Tick \in Int BY <3>1, TimeAssumption
    <3> QED BY Zenon, <2>1, <3>1, <3>2, DivMonotonic
  <2>3. \A m \in Timers : expire[m] \in Int BY Zenon, <1>s, SlotsType DEF SlotsOK
  <2>4. TickerNeverPanics' BY <2>1, <2>2, <1>n DEF ClockOK, TickerNeverPanics
  <2>5. NeverEarly' BY <2>1, <2>2, <2>3, <1>n DEF ClockOK, NeverEarly
  <2> QED BY <2>1, <2>2, <2>4, <2>5, <1>n, <1>s DEF ClockOK
<1>2. ASSUME NEW n \in Timers, NEW d \in Durations, NewTimer(n, d) PROVE ClockOK'
  <2>1. /\ UNCHANGED <<now, ticks, timers, tstep, tcur, tnew, tvec>>
        /\ step[n] = "idle" /\ step'[n] # "idle"
        /\ \A m \in Timers \ {n} : step'[m] = step[m] /\ expire'[m] = expire[m]
    BY Zenon, <1>2, <1>s DEF NewTimer, CallGoto, SlotsOK, wheel, tickers
  <2>2. \A k \in Slots : timers[k] \subseteq Timers BY Zenon, <1>s DEF SlotsOK
  <2> QED BY <2>1, <2>2, <1>s DEF ClockOK, TickerNeverPanics, NeverEarly
<1>3. ASSUME NEW n \in Timers, CallResume(n) PROVE ClockOK'
  <2>1. /\ UNCHANGED <<now, ticks, expire, tstep, tcur, tnew, tvec>>
        /\ \A m \in Timers : step[m] # "idle" => step'[m] # "idle"
        /\ \A k \in Slots : \A m \in timers'[k] :
              m \in timers[k] \/ (m = n /\ k = expire[n] /\ step'[n] # "idle")
    <3>1. CASE Insert(n)
      BY <1>3, <3>1, <1>s, CallFacts DEF Insert, CallGoto, SlotsOK, tickers
    <3>2. CASE ~Insert(n)
      <4>1. step[n] # "idle" /\ step'[n] # "idle"
        BY Zenon, <1>3, <1>s DEF CallResume, CallGoto, SlotsOK, CheckLate, Insert, Recheck,
           Discard, Remove, UpdateLoad, UpdateDiscard, UpdateCas, Count
      <4>2. timers' = timers \/ timers' = [timers EXCEPT ![expire[n]] = {}]
        BY Zenon, <1>3, <3>2 DEF CallResume, CheckLate, Recheck, Discard, Remove,
           UpdateLoad, UpdateDiscard, UpdateCas, Count, wheel
      <4> QED BY <1>3, <4>1, <4>2, <1>s, CallFacts DEF SlotsOK, tickers
    <3> QED BY Zenon, <3>1, <3>2
  <2>2. \A k \in Slots : timers[k] \subseteq Timers BY Zenon, <1>s DEF SlotsOK
  <2> QED BY ZenonT(60), <2>1, <2>2, <1>s DEF ClockOK, TickerNeverPanics, NeverEarly
<1>4. ASSUME NEW w \in Tickers, TickStep(w) \/ \E m \in Timers : TickUse(w, m)
      PROVE  ClockOK'
  <2>f. /\ UNCHANGED <<now, step, expire>>
        /\ \A k \in Slots : \A m \in timers'[k] : m \in timers[k]
    BY Zenon, <1>4, <1>s, TickFacts DEF SlotsOK
  <2>t. tcur[w] \in Nat /\ tnew[w] \in Nat /\ tnew[w] <= now \div Tick BY Zenon DEF ClockOK
  <2>k. /\ tstep \in [Tickers -> TickSteps] /\ tcur \in [Tickers -> Int]
        /\ tnew \in [Tickers -> Int] /\ tvec \in [Tickers -> SUBSET Timers]
    BY Zenon, <1>s DEF SlotsOK, ClockOK
  <2>1. CASE TickLoad(w)
    <3>1. UNCHANGED <<ticks, tnew, tvec>> BY Zenon, <2>1 DEF TickLoad, wheel
    <3>2. \A v \in Tickers : tcur'[v] = IF v = w THEN ticks ELSE tcur[v]
      BY Zenon, <2>1, <2>k DEF TickLoad
    <3>3. \A v \in Tickers : v # w => tstep'[v] = tstep[v]
      BY Zenon, <2>1, <2>k DEF TickLoad, TickGoto
    <3>4. TickerNeverPanics' BY Zenon, <3>2, <3>3, <2>f DEF ClockOK, TickerNeverPanics
    <3> QED BY ZenonT(60), <3>1, <3>2, <3>4, <2>f, <1>s DEF ClockOK, NeverEarly
  <2>2. CASE TickClock(w)
    <3>1. UNCHANGED <<ticks, tcur, tvec>> BY Zenon, <2>2 DEF TickClock, wheel
    <3>2. \A v \in Tickers : tnew'[v] = IF v = w THEN now \div Tick ELSE tnew[v]
      BY Zenon, <2>2, <2>k DEF TickClock
    <3>3. \A v \in Tickers : tstep'[v] = "clock" => tstep[v] = "clock"
      BY Zenon, <2>2, <2>k DEF TickClock, TickGoto
    <3>4. TickerNeverPanics' BY Zenon, <3>1, <3>3, <2>f DEF ClockOK, TickerNeverPanics
    <3> QED BY <3>1, <3>2, <3>4, <2>f, <1>n, <1>s DEF ClockOK, NeverEarly
  <2>3. CASE TickCas(w)
    <3>1. UNCHANGED <<tcur, tnew, tvec>> /\ ticks' \in {ticks, tnew[w]}
      BY Zenon, <2>3 DEF TickCas
    <3>2. \A v \in Tickers : tstep'[v] = "clock" => tstep[v] = "clock"
      BY Zenon, <2>3, <2>k DEF TickCas, TickGoto
    <3>3. TickerNeverPanics' BY Zenon, <3>1, <3>2, <2>f DEF ClockOK, TickerNeverPanics
    <3> QED BY Zenon, <3>1, <3>3, <2>f, <2>t, <1>s DEF ClockOK, NeverEarly
  <2>4. CASE TickRemove(w)
    <3>1. ticks' = ticks BY Zenon, <2>4 DEF TickRemove, TakeSlots
    <3>2. \A v \in Tickers : tstep'[v] = "clock" => tstep[v] = "clock" /\ v # w
      BY Zenon, <2>4, <2>k DEF TickRemove, TakeSlots, TickGoto
    <3>3. \A v \in Tickers \ {w} :
             tcur'[v] = tcur[v] /\ tnew'[v] = tnew[v] /\ tvec'[v] = tvec[v]
      BY Zenon, <2>4, <2>k DEF TickRemove, TakeSlots
    <3>4. tcur'[w] \in Nat /\ tnew'[w] \in Nat /\ tnew'[w] <= now \div Tick
      BY <2>4, <2>k, <2>t, <1>n DEF TickRemove, TakeSlots
    <3>5. /\ tvec' \in [Tickers -> SUBSET Timers]
          /\ \A m \in tvec'[w] : \/ m \in tvec[w]
                                 \/ expire[m] < now \div Tick /\ step[m] # "idle"
      <4>1. CASE tcur[w] < tnew[w]
        <5>1. tcur[w] \in Slots
          BY <4>1, <2>t, <1>n, TicksAreSlots
        <5>2. /\ timers[tcur[w]] \subseteq Timers
              /\ \A m \in timers[tcur[w]] : expire[m] = tcur[w] /\ step[m] # "idle"
          BY Zenon, <5>1, <1>s DEF ClockOK, SlotsOK
        <5>3. tvec' = [tvec EXCEPT ![w] = @ \cup timers[tcur[w]]]
          BY Zenon, <2>4, <4>1 DEF TickRemove, TakeSlots
        <5>4. tcur[w] < now \div Tick BY <4>1, <2>t, <1>n
        <5> QED BY Zenon, <5>2, <5>3, <5>4, <2>k
      <4>2. CASE ~(tcur[w] < tnew[w])
        BY Zenon, <2>4, <4>2, <2>k DEF TickRemove, TakeSlots
      <4> QED BY Zenon, <4>1, <4>2
    <3>6. TickerNeverPanics' BY Zenon, <3>2, <3>3, <2>f DEF ClockOK, TickerNeverPanics
    <3>7. NeverEarly' BY Zenon, <3>3, <3>5, <2>f DEF ClockOK, NeverEarly
    <3>8. \A v \in Tickers : \A m \in tvec'[v] : step'[m] # "idle"
      BY Zenon, <3>3, <3>5, <2>f DEF ClockOK
    <3> QED BY <3>1, <3>3, <3>4, <3>5, <3>6, <3>7, <3>8, <2>f, <1>s DEF ClockOK
  <2>5. CASE \E m \in Timers : TickUse(w, m)
    <3>1. /\ UNCHANGED <<ticks, tstep, tcur, tnew>>
          /\ tvec' \in [Tickers -> SUBSET Timers]
          /\ \A v \in Tickers : tvec'[v] \subseteq tvec[v]
      BY Zenon, <2>5, <2>k DEF TickUse, wheel
    <3> QED BY Zenon, <3>1, <2>f, <1>s DEF ClockOK, TickerNeverPanics, NeverEarly
  <2> QED BY Zenon, <1>4, <2>1, <2>2, <2>3, <2>4, <2>5 DEF TickStep
<1>5. CASE UNCHANGED wheelVars
  BY Zenon, <1>5, <1>s
     DEF wheelVars, wheel, callers, tickers, ClockOK, TickerNeverPanics, NeverEarly
<1> QED BY Zenon, <1>1, <1>2, <1>3, <1>4, <1>5 DEF WheelNext

(* timewheel.rs: the assertion of next_tick never fails, however many threads move
   the wheel and whenever they read the clock. *)
THEOREM WheelTickerNeverPanics == WheelSpec => []TickerNeverPanics
<1>1. ClockOK => TickerNeverPanics BY Zenon DEF ClockOK
<1> QED BY ClockInit, ClockStep, <1>1, PTL DEF WheelSpec

(* timewheel.rs: next_tick returns no timer before the tick of its expiry is over. *)
THEOREM WheelNeverEarly == WheelSpec => []NeverEarly
<1>1. ClockOK => NeverEarly BY Zenon DEF ClockOK
<1> QED BY ClockInit, ClockStep, <1>1, PTL DEF WheelSpec

-----------------------------------------------------------------------------
(* timeout over the wheel *)

(* The tick of the timer's expiry is over. *)
Past(m) == expire[m] < now \div Tick

(* A timer that new_timer has found late is past, and one that was inserted is in
   its slot, in the hands of a caller of next_tick, or past. *)
GoneOK ==
    \A m \in Timers :
        /\ step[m] \in {"refused", "discarded", "discard", "update_discard"} => Past(m)
        /\ step[m] \in {"recheck", "update", "update_cas", "count", "some"} =>
               \/ m \in timers[expire[m]] \/ (\E w \in Tickers : m \in tvec[w])
               \/ Past(m)

(* The wheel reads the clock after the timer does. *)
StartKept(c) ==
    /\ start[c] \in Nat /\ start[c] <= now /\ duration[c] \in Durations
    /\ step[c] # "idle" => (start[c] + duration[c]) \div Tick <= expire[c]
    /\ fd[c] = "none" => step[c] = "idle"
    /\ pc[c] = "start" => fd[c] = "none"
    /\ pc[c] = "new_timer" => fd[c] = "open"

StartOK == \A c \in Calls : StartKept(c)

(* The call has polled its Sleep and waits, or is about to. *)
Asleep(c) == pc[c] = "pending" \/ (pc[c] = "poll" /\ "sleep" \notin left[c])

(* A call that is about to insert its waker has a timer that is not past, *)
CheckKept(c) ==
    pc[c] = "add_waker" =>
        /\ checked[c] \in Nat /\ now <= checked[c] + Tick
        /\ checked[c] + Tick <= start[c] + duration[c]

(* ... and one that sleeps is woken, or will be. *)
WakeKept(c) ==
    /\ pc[c] = "add_waker" \/ Asleep(c) => Started(c)
    /\ Asleep(c) => c \in woken \/ (c \in wakers /\ (Held(c) \/ Emptied(c)))

SleepOK == \A c \in Calls : CheckKept(c) /\ WakeKept(c)

(* is_expired finds more than a tick left, *)
LEMMA Remaining ==
    ASSUME NEW s \in Nat, NEW d \in Nat, NEW n \in Nat, ~(n - s >= d \/ d - (n - s) < Tick)
    PROVE  n + Tick <= s + d
BY TimeAssumption

(* ... and within that tick the timer does not pass. *)
LEMMA NotYetPast ==
    ASSUME NEW s \in Nat, NEW d \in Nat, NEW n \in Nat, NEW k \in Nat,
           n <= k + Tick, k + Tick <= s + d
    PROVE  ~(s + d < n)
BY TimeAssumption

(* What a step of the wheel leaves alone: the expiry of a timer, and an answer. *)
LEMMA AnswerStep ==
    ASSUME ClockOK, WheelNext, NEW m \in Timers, step[m] # "idle"
    PROVE  /\ expire'[m] = expire[m] /\ step'[m] # "idle"
           /\ step[m] \in Answers => step'[m] = step[m]
           /\ Past(m) => Past(m)'
<1>s. SlotsOK /\ SlotsOK' BY Zenon, SlotsStep DEF ClockOK
<1>n. now \in 0 .. MaxNow /\ now' \in 0 .. MaxNow BY Zenon, <1>s DEF SlotsOK
<1>i. /\ now \in Nat /\ now \div Tick \in Int /\ now' \in Nat /\ now' \div Tick \in Int
      /\ expire[m] \in Int
  <2>1. expire[m] \in Int BY Zenon, <1>s, SlotsType DEF SlotsOK
  <2>2. now \div Tick \in Int /\ now' \div Tick \in Int BY Zenon, <1>n, SlotsType
  <2>3. now \in Nat /\ now' \in Nat BY <1>n, TimeAssumption
  <2> QED BY Zenon, <2>1, <2>2, <2>3
<1>1. CASE Clock
  <2>1. UNCHANGED <<step, expire>> BY Zenon, <1>1 DEF Clock, callers
  <2>2. now <= now' BY <1>1, <1>i DEF Clock
  <2>3. now \div Tick <= now' \div Tick BY Zenon, <2>2, <1>i, DivMonotonic
  <2> QED BY <2>1, <2>3, <1>i DEF Past
<1>2. ASSUME NEW n \in Timers, NEW d \in Durations, NewTimer(n, d)
      PROVE  n # m /\ now' = now /\ expire'[m] = expire[m] /\ step'[m] = step[m]
  BY Zenon, <1>2, <1>s DEF NewTimer, CallGoto, SlotsOK
<1>3. ASSUME NEW n \in Timers, CallResume(n)
      PROVE  /\ now' = now /\ expire'[m] = expire[m]
             /\ step'[m] # "idle"
             /\ step[m] \in Answers => step'[m] = step[m]
  <2>1. now' = now /\ expire'[m] = expire[m] BY Zenon, <1>3, <1>s, CallFacts
  <2>2. CASE m # n BY <1>3, <1>s, <2>1, <2>2, CallFacts
  <2>3. CASE m = n
    BY Zenon, <1>3, <2>1, <2>3, <1>s
       DEF CallResume, CallGoto, SlotsOK, CheckLate, Insert, Recheck, Discard, Remove,
           UpdateLoad, UpdateDiscard, UpdateCas, Count, Answers
  <2> QED BY Zenon, <2>2, <2>3
<1>4. ASSUME NEW w \in Tickers, TickStep(w) \/ \E n \in Timers : TickUse(w, n)
      PROVE  UNCHANGED <<now, step, expire>>
  BY Zenon, <1>4, <1>s, TickFacts
<1> QED BY Zenon, <1>1, <1>2, <1>3, <1>4 DEF WheelNext, Past

(* A timer leaves its slot into the hands of a ticker, or with a late timer. *)
LEMMA SlotStep ==
    ASSUME ClockOK, WheelNext, NEW m \in Timers, step[m] # "idle", m \in timers[expire[m]]
    PROVE  \/ m \in timers'[expire[m]]
           \/ \E w \in Tickers : m \in tvec'[w]
           \/ \E n \in Timers : /\ step'[n] = "discarded" /\ expire'[n] = expire[m]
                                /\ expire[n] = expire[m]
                                /\ step[n] \in {"discard", "update_discard"}
<1>s. SlotsOK BY Zenon DEF ClockOK
<1>i. expire[m] \in Slots BY Zenon, <1>s DEF SlotsOK
<1>1. CASE Clock \/ \E n \in Timers, d \in Durations : NewTimer(n, d)
  BY Zenon, <1>1 DEF Clock, NewTimer, wheel
<1>2. ASSUME NEW n \in Timers, CallResume(n), m \notin timers'[expire[m]]
      PROVE  /\ step'[n] = "discarded" /\ expire'[n] = expire[m] /\ expire[n] = expire[m]
             /\ step[n] \in {"discard", "update_discard"}
  <2>1. CASE Insert(n) BY Zenon, <1>2, <2>1, <1>s, <1>i DEF Insert, SlotsOK
  <2>2. CASE CheckLate(n) \/ Recheck(n) \/ UpdateLoad(n) \/ UpdateCas(n) \/ Count(n)
    BY Zenon, <1>2, <2>2 DEF CheckLate, Recheck, UpdateLoad, UpdateCas, Count, wheel
  <2>3. CASE Discard(n) \/ UpdateDiscard(n)
    BY <1>2, <2>3, <1>s, <1>i DEF Discard, UpdateDiscard, Remove, CallGoto, SlotsOK
  <2> QED BY Zenon, <1>2, <2>1, <2>2, <2>3 DEF CallResume
<1>3. ASSUME NEW w \in Tickers, TickStep(w) \/ \E n \in Timers : TickUse(w, n),
             m \notin timers'[expire[m]]
      PROVE  m \in tvec'[w]
  <2>1. TickRemove(w)
    BY Zenon, <1>3 DEF TickStep, TickLoad, TickClock, TickCas, TickUse, wheel
  <2>2. timers' = [timers EXCEPT ![tcur[w]] = {}]
        /\ tvec' = [tvec EXCEPT ![w] = @ \cup timers[tcur[w]]]
    BY Zenon, <1>3, <2>1 DEF TickRemove, TakeSlots
  <2> QED BY <1>3, <2>2, <1>s, <1>i DEF SlotsOK, ClockOK
<1> QED BY Zenon, <1>1, <1>2, <1>3 DEF WheelNext

(* A ticker lets go of a timer only when it uses it. *)
LEMMA VecStep ==
    ASSUME ClockOK, WheelNext, NEW w \in Tickers, NEW m \in tvec[w], ~TickUse(w, m)
    PROVE  m \in tvec'[w]
<1>t. tvec \in [Tickers -> SUBSET Timers] BY Zenon DEF ClockOK
<1>1. CASE UNCHANGED tvec BY Zenon, <1>1
<1>2. ASSUME NEW v \in Tickers, TickRemove(v) PROVE m \in tvec'[w]
  BY Zenon, <1>2, <1>t DEF TickRemove, TakeSlots
<1>3. ASSUME NEW v \in Tickers, NEW n \in Timers, TickUse(v, n) PROVE m \in tvec'[w]
  BY Zenon, <1>3, <1>t DEF TickUse
<1> QED
  <2>1. Clock \/ (\E n \in Timers : CallResume(n) \/ \E d \in Durations : NewTimer(n, d))
        => UNCHANGED tvec
    BY Zenon DEF Clock, CallResume, NewTimer, CheckLate, Insert, Recheck, Discard, Remove,
           UpdateLoad, UpdateDiscard, UpdateCas, Count, tickers
  <2>2. \A v \in Tickers : TickLoad(v) \/ TickClock(v) \/ TickCas(v) => UNCHANGED tvec
    BY Zenon DEF TickLoad, TickClock, TickCas
  <2> QED BY Zenon, <2>1, <2>2, <1>1, <1>2, <1>3 DEF WheelNext, TickStep

(* A timer that waits for its expiry goes on waiting until a ticker uses it. *)
LEMMA HeldStep ==
    ASSUME ClockOK, WheelNext, NEW m \in Timers, step[m] \in Answers, Held(m) \/ Emptied(m),
           \A w \in Tickers : ~TickUse(w, m)
    PROVE  Held(m)' \/ Emptied(m)'
<1>a. step[m] # "idle" /\ SlotsOK BY Zenon DEF Answers, ClockOK
<1>b. expire'[m] = expire[m] /\ step'[m] = step[m] BY Zenon, <1>a, AnswerStep
<1>1. CASE Emptied(m)
  <2>1. PICK n \in Timers \ {m} : step[n] = "discarded" /\ expire[n] = expire[m]
    BY Zenon, <1>1 DEF Emptied
  <2>2. step'[n] = "discarded" /\ expire'[n] = expire[n]
    BY Zenon, <2>1, AnswerStep DEF Answers
  <2> QED BY Zenon, <2>1, <2>2, <1>b DEF Emptied
<1>2. CASE \E w \in Tickers : m \in tvec[w]
  BY Zenon, <1>2, VecStep DEF Held
<1>3. CASE Due(m)
  <2>1. m \in timers[expire[m]] BY Zenon, <1>3 DEF Due
  <2>2. CASE m \in timers'[expire[m]]
    BY Zenon, <2>2, <1>3, <1>a, <1>b, DueStep DEF Held
  <2>3. CASE \E w \in Tickers : m \in tvec'[w] BY Zenon, <2>3 DEF Held
  <2>4. ASSUME NEW n \in Timers, step'[n] = "discarded", expire'[n] = expire[m],
               step[n] \in {"discard", "update_discard"}
        PROVE  Emptied(m)'
    <3>1. n # m BY Zenon, <2>4 DEF Answers
    <3> QED BY Zenon, <2>4, <3>1, <1>b DEF Emptied
  <2> QED BY Zenon, <2>1, <2>2, <2>3, <2>4, <1>a, SlotStep
<1> QED BY Zenon, <1>1, <1>2, <1>3 DEF Held

(* Late at a look, then past *)
LEMMA LateIsPast ==
    ASSUME ClockOK, NEW m \in Timers, ticks > expire[m] PROVE Past(m)
<1>1. SlotsOK BY Zenon DEF ClockOK
<1>2. now \div Tick \in Int /\ expire[m] \in Int
  BY Zenon, <1>1, SlotsType, TimeAssumption DEF SlotsOK
<1> QED BY <1>2 DEF ClockOK, Past

(* A timer is taken out of the wheel, or refused, only when it is past. *)
LEMMA GoneStep == ClockOK /\ GoneOK /\ [WheelNext]_wheelVars => GoneOK'
<1> SUFFICES ASSUME ClockOK, GoneOK, WheelNext PROVE GoneOK'
  BY Zenon DEF wheelVars, wheel, callers, tickers, GoneOK, Past
<1>s. SlotsOK /\ SlotsOK' BY Zenon, SlotsStep DEF ClockOK
<1> DEFINE In == {"recheck", "update", "update_cas", "count", "some"}
           Out == {"refused", "discarded", "discard", "update_discard"}
           Kept(m) == m \in timers[expire[m]] \/ (\E w \in Tickers : m \in tvec[w])
           \/ Past(m)
<1>1. ASSUME NEW m \in Timers, step[m] # "idle", Kept(m) PROVE Kept(m)'
  <2>a. expire'[m] = expire[m] /\ (Past(m) => Past(m)') BY Zenon, <1>1, AnswerStep
  <2>1. CASE Past(m) BY Zenon, <2>a, <2>1
  <2>2. ASSUME NEW w \in Tickers, m \in tvec[w], ~Past(m)
        PROVE  m \in tvec'[w]
    <3>1. Past(m) BY Zenon, <2>2 DEF ClockOK, NeverEarly, Past
    <3> QED BY Zenon, <3>1, <2>2
  <2>3. CASE m \in timers[expire[m]]
    <3>1. ASSUME NEW n \in Timers, expire[n] = expire[m],
                 step[n] \in {"discard", "update_discard"}
          PROVE  Past(m)'
      <4>1. Past(n) BY Zenon, <3>1 DEF GoneOK
      <4> QED BY Zenon, <4>1, <3>1, <2>a DEF Past
    <3> QED BY Zenon, <1>1, <2>3, <2>a, <3>1, SlotStep
  <2> QED BY Zenon, <1>1, <2>1, <2>2, <2>3
<1>2. ASSUME NEW m \in Timers, step[m] # "idle", step'[m] = step[m]
      PROVE  (step'[m] \in Out => Past(m)') /\ (step'[m] \in In => Kept(m)')
  BY Zenon, <1>1, <1>2, AnswerStep DEF GoneOK
<1>3. ASSUME NEW m \in Timers, CallResume(m)
      PROVE  (step'[m] \in Out => Past(m)') /\ (step'[m] \in In => Kept(m)')
  <2>n. step[m] # "idle"
    BY Zenon, <1>3 DEF CallResume, CallGoto, CheckLate, Insert, Recheck, Discard, Remove,
       UpdateLoad, UpdateDiscard, UpdateCas, Count
  <2>p. Past(m) => Past(m)' BY Zenon, <2>n, AnswerStep
  <2>l. ticks > expire[m] => Past(m)' BY Zenon, <2>p, LateIsPast
  <2>k. Kept(m) => Kept(m)' BY Zenon, <2>n, <1>1
  <2> HIDE DEF Kept
  <2>1. CASE CheckLate(m)
    BY Zenon, <2>1, <2>l, <1>s DEF CheckLate, CallGoto, SlotsOK
  <2>2. CASE Insert(m)
    <3>1. step'[m] = "recheck" /\ m \in timers'[expire'[m]]
      BY Zenon, <2>2, <1>s DEF Insert, CallGoto, SlotsOK
    <3> QED BY Zenon, <3>1 DEF Kept
  <2>3. CASE Recheck(m)
    BY Zenon, <2>3, <2>l, <2>k, <1>s DEF Recheck, CallGoto, SlotsOK, GoneOK, Kept
  <2>4. CASE Discard(m)
    <3>1. Past(m) /\ step'[m] \in {"discarded", "update"}
      BY Zenon, <2>4, <1>s DEF Discard, Remove, CallGoto, SlotsOK, GoneOK
    <3> QED BY Zenon, <3>1, <2>p DEF Kept
  <2>5. CASE UpdateLoad(m)
    BY Zenon, <2>5, <2>l, <2>k, <1>s DEF UpdateLoad, CallGoto, SlotsOK, GoneOK, Kept
  <2>6. CASE UpdateDiscard(m)
    <3>1. Past(m) /\ step'[m] \in {"discarded", "update_cas"}
      BY Zenon, <2>6, <1>s DEF UpdateDiscard, Remove, CallGoto, SlotsOK, GoneOK
    <3> QED BY Zenon, <3>1, <2>p DEF Kept
  <2>7. CASE UpdateCas(m)
    BY Zenon, <2>7, <2>k, <1>s DEF UpdateCas, CallGoto, SlotsOK, GoneOK, Kept
  <2>8. CASE Count(m)
    BY Zenon, <2>8, <2>k, <1>s DEF Count, CallGoto, SlotsOK, GoneOK, Kept
  <2> QED BY Zenon, <1>3, <2>1, <2>2, <2>3, <2>4, <2>5, <2>6, <2>7, <2>8 DEF CallResume
<1>4. ASSUME NEW m \in Timers, ~CallResume(m), step[m] # "idle" PROVE step'[m] = step[m]
  <2>1. CASE Clock BY Zenon, <2>1 DEF Clock, callers
  <2>2. ASSUME NEW n \in Timers, NEW d \in Durations, NewTimer(n, d)
        PROVE  step'[m] = step[m]
    BY Zenon, <1>4, <2>2, <1>s DEF NewTimer, CallGoto, SlotsOK
  <2>3. ASSUME NEW n \in Timers, CallResume(n) PROVE step'[m] = step[m]
    BY Zenon, <1>4, <2>3, <1>s, CallFacts
  <2>4. ASSUME NEW w \in Tickers, TickStep(w) \/ \E n \in Timers : TickUse(w, n)
        PROVE  step'[m] = step[m]
    BY Zenon, <2>4, <1>s, TickFacts
  <2> QED BY Zenon, <2>1, <2>2, <2>3, <2>4 DEF WheelNext
<1>5. ASSUME NEW m \in Timers, ~CallResume(m), step[m] = "idle"
      PROVE  step'[m] \in {"idle", "check"}
  <2>1. CASE Clock BY Zenon, <1>5, <2>1 DEF Clock, callers
  <2>2. ASSUME NEW n \in Timers, NEW d \in Durations, NewTimer(n, d)
        PROVE  step'[m] \in {"idle", "check"}
    BY Zenon, <1>5, <2>2, <1>s DEF NewTimer, CallGoto, SlotsOK
  <2>3. ASSUME NEW n \in Timers, CallResume(n) PROVE step'[m] = step[m]
    BY Zenon, <1>5, <2>3, <1>s, CallFacts
  <2>4. ASSUME NEW w \in Tickers, TickStep(w) \/ \E n \in Timers : TickUse(w, n)
        PROVE  step'[m] = step[m]
    BY Zenon, <2>4, <1>s, TickFacts
  <2> QED BY Zenon, <1>5, <2>1, <2>2, <2>3, <2>4 DEF WheelNext
<1>6. ASSUME NEW m \in Timers
      PROVE  (step'[m] \in Out => Past(m)') /\ (step'[m] \in In => Kept(m)')
  <2> HIDE DEF Kept
  <2> QED BY Zenon, <1>2, <1>3, <1>4, <1>5
<1> QED BY Zenon, <1>6 DEF GoneOK

-----------------------------------------------------------------------------
(* timeout *)

(* The types the proof needs *)
CallsOK ==
    /\ wakers \in SUBSET Calls
    /\ fd \in [Calls -> {"none", "open", "closed"}]
    /\ duration \in [Calls -> Durations]
    /\ start \in [Calls -> Nat]
    /\ checked \in [Calls -> Nat]
    /\ left \in [Calls -> SUBSET {"fut", "sleep"}]
    /\ pc \in [Calls -> Steps]
    /\ woken \in SUBSET Calls

(* The inductive invariant, without the waker *)
IInv == ClockOK /\ GoneOK /\ CallsOK /\ StartOK

(* Every step of the calls, the other users and poll_once is a step of the wheel,
   or leaves it alone. *)
LEMMA WheelMoves == CallsOK /\ [Next]_vars => [WheelNext]_wheelVars
<1> SUFFICES ASSUME CallsOK, Next PROVE [WheelNext]_wheelVars
  BY Zenon DEF vars
<1>0. Calls \subseteq Timers BY Zenon, CallsAssumption
<1>1. ASSUME NEW c \in Calls, Poll(c) \/ FutReady(c) \/ PollFut(c) \/ PollSleep(c)
             \/ ReturnPending(c) \/ Start(c) \/ Check(c) \/ AddWaker(c) \/ Drop(c)
      PROVE  UNCHANGED wheelVars
  BY Zenon, <1>1
     DEF Poll, FutReady, PollFut, PollSleep, ReturnPending, Start, Check, AddWaker, Drop
<1>2. ASSUME NEW c \in Calls, RegisterTimer(c) PROVE WheelNext
  BY Zenon, <1>0, <1>2 DEF RegisterTimer, WheelNext, CallsOK
<1>3. ASSUME NEW m \in Timers, OtherTimer(m) \/ NewTimerResume(m) PROVE WheelNext
  BY Zenon, <1>3 DEF OtherTimer, NewTimerResume, WheelNext
<1>4. ASSUME NEW w \in Tickers, PollOnce(w) PROVE WheelNext
  BY Zenon, <1>4 DEF PollOnce, NextTick, Wake, WheelNext
<1>5. CASE Advance BY Zenon, <1>5 DEF Advance, WheelNext
<1> QED BY Zenon, <1>0, <1>1, <1>2, <1>3, <1>4, <1>5 DEF Next, Resume

(* Initially no call was made, and the wheel is empty. *)
LEMMA InitIInv == Init => IInv
<1> SUFFICES ASSUME Init PROVE IInv
  BY Zenon
<1>1. ClockOK BY Zenon, ClockInit DEF Init
<1>2. GoneOK BY Zenon DEF Init, WheelInit, GoneOK
<1>3. CallsOK BY Zenon DEF Init, CallsOK, Steps
<1>4. StartOK
  <2>1. now = 0 /\ \A c \in Calls : step[c] = "idle" /\ start[c] = 0 /\ fd[c] = "none"
                                     /\ pc[c] = "idle"
    BY Zenon, CallsAssumption DEF Init, WheelInit
  <2> QED BY <2>1, <1>3 DEF StartOK, StartKept, CallsOK
<1> QED BY Zenon, <1>1, <1>2, <1>3, <1>4 DEF IInv

(* Every step keeps the types. *)
LEMMA CallsStep == CallsOK /\ SlotsOK /\ [Next]_vars => CallsOK'
<1> SUFFICES ASSUME CallsOK, SlotsOK, [Next]_vars PROVE CallsOK'
  BY Zenon
<1>n. now \in Nat BY TimeAssumption DEF SlotsOK
<1> USE DEF CallsOK
<1>1. ASSUME NEW c \in Calls, Poll(c) PROVE CallsOK'
  BY Zenon, <1>1, <1>n DEF Poll, Steps, timer
<1>2. ASSUME NEW c \in Calls, PollFut(c) PROVE CallsOK'
  BY Zenon, <1>2, <1>n DEF PollFut, Steps, Goto, timer
<1>3. ASSUME NEW c \in Calls, PollSleep(c) PROVE CallsOK'
  BY Zenon, <1>3, <1>n DEF PollSleep, Steps, Goto, timer
<1>4. ASSUME NEW c \in Calls, ReturnPending(c) PROVE CallsOK'
  BY Zenon, <1>4, <1>n DEF ReturnPending, Steps, Goto, timer
<1>5. ASSUME NEW c \in Calls, FutReady(c) PROVE CallsOK'
  BY Zenon, <1>5, <1>n DEF FutReady, Steps, timer
<1>6. ASSUME NEW c \in Calls, Start(c) PROVE CallsOK'
  BY Zenon, <1>6, <1>n DEF Start, Steps, Goto
<1>7. ASSUME NEW c \in Calls, Check(c) PROVE CallsOK'
  BY Zenon, <1>7, <1>n DEF Check, Steps, Goto
<1>8. ASSUME NEW c \in Calls, AddWaker(c) PROVE CallsOK'
  BY Zenon, <1>8, <1>n DEF AddWaker, Steps, Goto
<1>9. ASSUME NEW c \in Calls, Drop(c) PROVE CallsOK'
  BY Zenon, <1>9, <1>n DEF Drop, Steps, Goto
<1>10. ASSUME NEW c \in Calls, RegisterTimer(c) PROVE CallsOK'
  BY Zenon, <1>10 DEF RegisterTimer, Goto, Steps, timer
<1>11. ASSUME NEW m, OtherTimer(m) \/ NewTimerResume(m) PROVE CallsOK'
  BY Zenon, <1>11 DEF OtherTimer, NewTimerResume, timeoutVars, timer, task
<1>12. ASSUME NEW w, PollOnce(w) PROVE CallsOK'
  BY Zenon, <1>12 DEF PollOnce, NextTick, Wake, timeoutVars, timer, task
<1>13. CASE Advance \/ UNCHANGED vars
  BY Zenon, <1>13 DEF Advance, vars, timeoutVars, timer, task
<1> HIDE DEF CallsOK
<1> QED BY Zenon, <1>1, <1>2, <1>3, <1>4, <1>5, <1>6, <1>7, <1>8, <1>9, <1>10, <1>11, <1>12, <1>13
      DEF Next, Resume

(* start is read before the wheel reads the clock, and never again. *)
LEMMA StartStep == ClockOK /\ CallsOK /\ StartOK /\ [Next]_vars => StartOK'
<1> SUFFICES ASSUME ClockOK, CallsOK, StartOK, [Next]_vars, NEW c \in Calls
             PROVE  StartKept(c)'
  BY Zenon DEF StartOK
<1>s. SlotsOK BY Zenon DEF ClockOK
<1>n. now \in Nat BY <1>s, TimeAssumption DEF SlotsOK
<1>c. c \in Timers BY Zenon, CallsAssumption
<1>h. /\ start[c] \in Nat /\ start[c] <= now /\ duration[c] \in Durations
      /\ step[c] # "idle" => (start[c] + duration[c]) \div Tick <= expire[c]
      /\ fd[c] = "none" => step[c] = "idle"
      /\ pc[c] = "start" => fd[c] = "none"
      /\ pc[c] = "new_timer" => fd[c] = "open"
  BY Zenon DEF StartOK, StartKept
<1>1. ASSUME NEW b \in Calls, Poll(b) \/ PollFut(b) \/ PollSleep(b) \/ ReturnPending(b)
             \/ FutReady(b) \/ Check(b) \/ AddWaker(b) \/ Drop(b)
      PROVE  StartKept(c)'
  <2>1. /\ UNCHANGED <<now, step, expire, start, duration>>
        /\ fd'[c] = "none" => fd[c] = "none"
    BY Zenon, <1>1
       DEF Poll, PollFut, PollSleep, ReturnPending, FutReady, Check, AddWaker, Drop, 
                wheelVars, callers, timer, CallsOK
  <2>2. (pc'[c] = "start" => fd'[c] = "none") /\ (pc'[c] = "new_timer" => fd'[c] = "open")
    <3>1. CASE PollSleep(b) BY ZenonT(60), <1>h, <3>1 DEF PollSleep, Goto, timer, CallsOK
    <3>2. CASE ~PollSleep(b)
      BY <1>1, <1>h, <3>2 DEF Poll, PollFut, ReturnPending, FutReady, Check, AddWaker, Drop,
                        Goto, timer, CallsOK
    <3> QED BY Zenon, <3>1, <3>2
  <2> QED BY Zenon, <2>1, <2>2, <1>h DEF StartKept
<1>2. ASSUME NEW b \in Calls, Start(b) PROVE StartKept(c)'
  <2>0. UNCHANGED <<now, step, expire, duration>> BY ZenonT(60), <1>2 DEF Start, wheelVars, callers
  <2>1. CASE b = c
    <3>1. pc[c] = "start" /\ pc'[c] = "new_timer" /\ start'[c] = now /\ fd'[c] = "open"
      BY Zenon, <1>2, <2>1 DEF Start, Goto, CallsOK
    <3>2. step[c] = "idle" BY Zenon, <3>1, <1>h
    <3> QED BY <2>0, <3>1, <3>2, <1>h, <1>n DEF StartKept
  <2>2. CASE b # c
    <3>1. pc'[c] = pc[c] /\ start'[c] = start[c] /\ fd'[c] = fd[c]
      BY Zenon, <1>2, <2>2 DEF Start, Goto, CallsOK
    <3> QED BY Zenon, <2>0, <3>1, <1>h DEF StartKept
  <2> QED BY Zenon, <2>1, <2>2
<1>3. ASSUME NEW b \in Calls, RegisterTimer(b) PROVE StartKept(c)'
  <2>0. /\ UNCHANGED <<now, duration, start, fd>> /\ NewTimer(b, duration[b])
        /\ pc'[c] \in {pc[c], "check"}
        /\ pc[b] = "new_timer"
    BY Zenon, <1>3 DEF RegisterTimer, Goto, NewTimer, timer, CallsOK
  <2>1. CASE b = c
    <3>1. expire'[c] = (now + duration[c]) \div Tick
      BY Zenon, <2>0, <2>1, <1>s, <1>c DEF NewTimer, SlotsOK
    <3>2. duration[c] \in Nat BY Zenon, <1>h, TimeAssumption
    <3>3. (start[c] + duration[c]) \div Tick <= (now + duration[c]) \div Tick
      <4>1. start[c] + duration[c] \in Nat /\ now + duration[c] \in Nat
            /\ start[c] + duration[c] <= now + duration[c]
        BY <3>2, <1>h, <1>n
      <4> QED BY Zenon, <4>1, DivMonotonic
    <3> QED BY Zenon, <2>0, <2>1, <3>1, <3>3, <1>3, <1>h DEF StartKept
  <2>2. CASE b # c
    <3>1. step'[c] = step[c] /\ expire'[c] = expire[c]
      BY Zenon, <2>0, <2>2, <1>s, <1>c DEF NewTimer, CallGoto, SlotsOK
    <3> QED BY Zenon, <2>0, <3>1, <1>h DEF StartKept
  <2> QED BY Zenon, <2>1, <2>2
<1>4. ASSUME WheelNext, UNCHANGED <<start, duration, fd, pc>>, now <= now', now' \in Nat,
             step[c] = "idle" => step'[c] = "idle"
      PROVE  StartKept(c)'
  <2>1. step'[c] # "idle" => step[c] # "idle" /\ expire'[c] = expire[c]
    BY Zenon, <1>4, <1>c, AnswerStep
  <2>2. step[c] # "idle" => step'[c] # "idle"
    BY ZenonT(60), <1>4, <1>c, AnswerStep
  <2>3. start[c] <= now'
    <3>1. start[c] \in Nat /\ start[c] <= now BY Zenon, <1>h DEF StartKept
    <3> QED BY <1>4, <1>n, <3>1
  <2> QED BY Zenon, <1>4, <1>h, <2>1, <2>2, <2>3 DEF StartKept
<1>5. ASSUME NEW m \in Timers, NewTimerResume(m) PROVE StartKept(c)'
  <2>1. UNCHANGED <<start, duration, fd, pc>> /\ CallResume(m)
    BY Zenon, <1>5 DEF NewTimerResume, timeoutVars, timer, task
  <2>2. now' = now BY Zenon, <2>1, <1>s, CallFacts
  <2>3. step[c] = "idle" => step'[c] = "idle"
    <3>1. CASE c = m
      BY Zenon, <2>1, <3>1 DEF CallResume, CallGoto, CheckLate, Insert, Recheck, Discard, Remove,
                        UpdateLoad, UpdateDiscard, UpdateCas, Count
    <3>2. CASE c # m BY <2>1, <3>2, <1>s, <1>c, CallFacts
    <3> QED BY Zenon, <3>1, <3>2
  <2>4. WheelNext BY Zenon, <2>1 DEF WheelNext
  <2>5. now <= now' /\ now' \in Nat BY <2>2, <1>n
  <2> QED BY Zenon, <2>1, <2>3, <2>4, <2>5, <1>4
<1>6. ASSUME NEW m \in Timers \ Calls, OtherTimer(m) PROVE StartKept(c)'
  <2>1. UNCHANGED <<start, duration, fd, pc>>
    BY Zenon, <1>6
       DEF OtherTimer, timeoutVars, timer, task
  <2>2. PICK d \in Durations : NewTimer(m, d) BY Zenon, <1>6 DEF OtherTimer
  <2>3. now' = now /\ step'[c] = step[c]
    BY Zenon, <2>2, <1>c, <1>s DEF NewTimer, CallGoto, SlotsOK
  <2>4. WheelNext BY Zenon, <2>2 DEF WheelNext
  <2>5. now <= now' /\ now' \in Nat BY <2>3, <1>n
  <2> QED BY Zenon, <2>1, <2>3, <2>4, <2>5, <1>4
<1>7. ASSUME NEW w \in Tickers, PollOnce(w) PROVE StartKept(c)'
  <2>1. UNCHANGED <<start, duration, fd, pc>>
    BY Zenon, <1>7 DEF PollOnce, NextTick, Wake, timeoutVars, timer, task
  <2>2. TickStep(w) \/ \E m \in Timers : TickUse(w, m)
    BY Zenon, <1>7
       DEF PollOnce, NextTick, Wake
  <2>3. UNCHANGED <<now, step>> BY Zenon, <2>2, <1>s, TickFacts
  <2>4. WheelNext BY Zenon, <2>2 DEF WheelNext
  <2>5. now <= now' /\ now' \in Nat BY <2>3, <1>n
  <2> QED BY Zenon, <2>1, <2>3, <2>4, <2>5, <1>4
<1>8. ASSUME Advance PROVE StartKept(c)'
  <2>1. UNCHANGED <<start, duration, fd, pc>> /\ Clock
    BY Zenon, <1>8 DEF Advance, timeoutVars, timer, task
  <2>2. now' = now + 1 /\ step' = step BY Zenon, <2>1 DEF Clock, callers
  <2>3. WheelNext BY Zenon, <2>1 DEF WheelNext
  <2>5. now <= now' /\ now' \in Nat BY <2>2, <1>n
  <2> QED BY Zenon, <2>1, <2>2, <2>3, <2>5, <1>4
<1>9. ASSUME UNCHANGED vars PROVE StartKept(c)'
  BY Zenon, <1>9, <1>h DEF StartKept, vars, wheelVars, callers, timeoutVars, timer, task
<1>10. ASSUME NEW b \in Calls, Poll(b) \/ Resume(b) \/ FutReady(b) PROVE StartKept(c)'
  <2>1. b \in Timers BY Zenon, CallsAssumption
  <2> QED BY Zenon, <2>1, <1>1, <1>2, <1>3, <1>5, <1>10 DEF Resume
<1>11. ASSUME Next PROVE StartKept(c)'
  <2>1. CASE \E b \in Calls : Poll(b) \/ Resume(b) \/ FutReady(b) BY Zenon, <2>1, <1>10
  <2>2. CASE \E m \in Timers \ Calls : OtherTimer(m) \/ NewTimerResume(m)
    BY Zenon, <2>2, <1>5, <1>6
  <2>3. CASE \E w \in Tickers : PollOnce(w) BY Zenon, <2>3, <1>7
  <2> QED BY Zenon, <1>8, <1>11, <2>1, <2>2, <2>3 DEF Next
<1> QED BY Zenon, <1>9, <1>11

(* The invariant holds in every reachable state. *)
LEMMA Invariance == Spec => []IInv
<1>1. IInv /\ [Next]_vars => IInv'
  BY Zenon, WheelMoves, ClockStep, GoneStep, CallsStep, StartStep DEF IInv, ClockOK
<1> QED BY InitIInv, <1>1, PTL DEF Spec

(* timeout uses the wheel as its users may. *)
LEMMA UsesWheel == Spec => WheelSpec
<1>1. Init => WheelInit BY Zenon DEF Init
<1>2. IInv /\ [Next]_vars => [WheelNext]_wheelVars BY Zenon, WheelMoves DEF IInv
<1> QED BY Invariance, <1>1, <1>2, PTL DEF Spec, WheelSpec

(* A call whose timer is gone *)
LEMMA PastIsExpired ==
    ASSUME IInv, NEW c \in Calls, step[c] # "idle", Past(c)
    PROVE  /\ start[c] + duration[c] < now
           /\ start[c] \in Nat /\ duration[c] \in Nat /\ now \in Nat
<1>1. start[c] \in Nat /\ (start[c] + duration[c]) \div Tick <= expire[c]
  BY Zenon DEF IInv, StartOK, StartKept
<1>2. duration[c] \in Nat BY Zenon, TimeAssumption DEF IInv, StartOK, StartKept
<1>3. now \in Nat /\ expire[c] \in Int
  <2>1. SlotsOK /\ c \in Timers BY Zenon, CallsAssumption DEF IInv, ClockOK
  <2>2. now \in 0 .. MaxNow BY Zenon, <2>1 DEF SlotsOK
  <2>3. expire[c] \in Slots BY Zenon, <2>1 DEF SlotsOK
  <2>4. expire[c] \in Int BY Zenon, <2>3, SlotsType
  <2> QED BY <2>2, <2>4, TimeAssumption
<1>4. start[c] + duration[c] \in Nat BY <1>1, <1>2
<1>5. (start[c] + duration[c]) \div Tick \in Int /\ now \div Tick \in Int
  BY <1>3, <1>4, TimeAssumption
<1>6. (start[c] + duration[c]) \div Tick < now \div Tick
  BY <1>1, <1>3, <1>5 DEF Past
<1>7. ~(now <= start[c] + duration[c]) BY <1>3, <1>4, <1>5, <1>6, DivMonotonic
<1> QED BY <1>1, <1>2, <1>3, <1>4, <1>7

(* ... is past. *)
LEMMA GoneIsPast ==
    ASSUME IInv, NEW c \in Calls, Started(c), ~Held(c) PROVE Past(c)
<1>1. c \in Timers BY Zenon, CallsAssumption
<1>2. CASE step[c] \in {"refused", "discarded"} BY Zenon, <1>1, <1>2 DEF IInv, GoneOK
<1>3. CASE step[c] = "some"
  <2>1. c \notin timers[expire[c]]
    BY Zenon, <1>1, <1>3 DEF IInv, ClockOK, SlotsOK, Answered, Held
  <2> QED BY Zenon, <1>1, <1>3, <2>1 DEF IInv, GoneOK, Held
<1> QED BY Zenon, <1>2, <1>3 DEF Started, Answers

(* timeout.rs, mio/timer.rs and timewheel.rs: a timer that the wheel has refused or let
   go of has expired, whatever the clock read at each step, so the poll that follows
   finds is_expired true. *)
THEOREM TimeoutGoneIsExpired == Spec => []GoneIsExpired
<1>1. IInv => GoneIsExpired
  <2> SUFFICES ASSUME IInv, NEW c \in Calls, Started(c), ~Held(c)
               PROVE  now - start[c] >= duration[c]
    BY Zenon DEF GoneIsExpired, Elapsed
  <2>1. Past(c) /\ step[c] # "idle" BY Zenon, GoneIsPast DEF Started, Answers
  <2>2. /\ start[c] + duration[c] < now
        /\ start[c] \in Nat /\ duration[c] \in Nat /\ now \in Nat
    BY Zenon, <2>1, PastIsExpired
  <2> QED BY <2>2
<1> QED BY Invariance, <1>1, PTL

(* timeout leaves no timer behind in a slot that the wheel has passed: a call with
   its driver is a user of the wheel. *)
THEOREM TimeoutNoStrandedTimer == Spec => []NoStrandedTimer
BY UsesWheel, WheelNoStrandedTimer, PTL

-----------------------------------------------------------------------------
(* The steps that only time and the wheel take *)
LEMMA SleepWheel ==
    ASSUME IInv, SleepOK, WheelNext, UNCHANGED <<start, duration, checked, left>>,
           \A c \in Calls : pc'[c] \in {pc[c], "check"},
           \A c \in Calls : pc[c] = "add_waker" => now' <= checked[c] + Tick,
           \/ /\ UNCHANGED <<wakers, woken>>
              /\ \A w \in Tickers, m \in Timers : ~TickUse(w, m)
           \/ \E w \in Tickers, m \in Timers : Wake(w, m)
    PROVE  SleepOK'
<1> SUFFICES ASSUME NEW c \in Calls
             PROVE  CheckKept(c)' /\ WakeKept(c)'
  BY Zenon DEF SleepOK
<1>h. CheckKept(c) /\ WakeKept(c)
  BY Zenon DEF SleepOK
<1>c. c \in Timers /\ ClockOK BY Zenon, CallsAssumption DEF IInv
<1>1. CheckKept(c)'
  BY Zenon, <1>h DEF CheckKept
<1>2. Started(c) => Started(c)'
  BY Zenon, <1>c, AnswerStep DEF Started, Answers
<1>3. ASSUME Asleep(c) PROVE c \in woken' \/ (c \in wakers' /\ (Held(c)' \/ Emptied(c)'))
  <2>0. step[c] \in Answers BY Zenon, <1>3, <1>h DEF WakeKept, Started
  <2>1. ASSUME NEW w \in Tickers, NEW m \in Timers, Wake(w, m)
        PROVE  c \in woken' \/ (c \in wakers' /\ (Held(c)' \/ Emptied(c)'))
    <3>1. /\ wakers' = wakers \ {m}
          /\ woken' = IF m \in wakers THEN woken \cup {m} ELSE woken
          /\ tvec' = [tvec EXCEPT ![w] = @ \ {m}]
      BY Zenon, <2>1 DEF Wake, TickUse
    <3>2. CASE c \in woken BY Zenon, <3>1, <3>2
    <3>3. CASE c \in wakers /\ m = c BY Zenon, <3>1, <3>3
    <3>4. CASE c \in wakers /\ m # c /\ (Held(c) \/ Emptied(c))
      <4>1. \A v \in Tickers : ~TickUse(v, c)
        <5> SUFFICES ASSUME NEW v \in Tickers, TickUse(v, c) PROVE FALSE BY Zenon
        <5>1. /\ tvec' = [tvec EXCEPT ![v] = @ \ {c}] /\ c \in tvec[v]
              /\ m \in tvec[w] /\ tvec \in [Tickers -> SUBSET Timers]
          BY Zenon, <2>1, <1>c DEF TickUse, Wake, ClockOK
        <5>2. CASE v = w BY <3>1, <3>4, <5>1, <5>2
        <5>3. CASE v # w BY Zenon, <3>1, <5>1, <5>3
        <5> QED BY Zenon, <5>2, <5>3
      <4>2. Held(c)' \/ Emptied(c)' BY Zenon, <4>1, <2>0, <3>4, <1>c, HeldStep
      <4> QED BY Zenon, <3>1, <3>4, <4>2
    <3> QED BY Zenon, <1>3, <1>h, <3>2, <3>3, <3>4 DEF WakeKept
  <2>2. CASE UNCHANGED <<wakers, woken>> /\ \A w \in Tickers, m \in Timers : ~TickUse(w, m)
    BY Zenon, <1>3, <1>h, <2>0, <2>2, <1>c, HeldStep DEF WakeKept
  <2> QED BY Zenon, <2>1, <2>2
<1>4. pc'[c] \in {pc[c], "check"} /\ left' = left
  BY Zenon
<1>5. (pc'[c] = "add_waker" => pc[c] = "add_waker") /\ (Asleep(c)' => Asleep(c))
  BY Zenon, <1>4 DEF Asleep
<1> QED BY Zenon, <1>1, <1>2, <1>3, <1>5, <1>h DEF WakeKept

(* The steps of the calls that leave the wheel alone *)
LEMMA SleepCall ==
    ASSUME IInv, SleepOK, NEW b \in Calls,
           Poll(b) \/ PollFut(b) \/ PollSleep(b) \/ ReturnPending(b) \/ FutReady(b)
           \/ Start(b) \/ Check(b) \/ AddWaker(b) \/ Drop(b)
    PROVE  SleepOK'
<1> SUFFICES ASSUME NEW c \in Calls
             PROVE  CheckKept(c)' /\ WakeKept(c)'
  BY Zenon DEF SleepOK
<1>w. UNCHANGED wheelVars
  BY Zenon DEF Poll, PollFut, PollSleep, ReturnPending, FutReady, Start, Check, AddWaker, Drop
<1>u. /\ now' = now /\ (Started(c) <=> Started(c)') /\ (Held(c) <=> Held(c)')
      /\ (Emptied(c) <=> Emptied(c)')
  BY Zenon, <1>w DEF wheelVars, wheel, callers, tickers, Started, Held, Due, Emptied
<1>t. CallsOK BY Zenon DEF IInv
<1>h. CheckKept(c) /\ WakeKept(c)
  BY Zenon DEF SleepOK
<1>1. CASE b # c
  <2>1. /\ pc'[c] = pc[c] /\ left'[c] = left[c] /\ checked'[c] = checked[c]
        /\ start'[c] = start[c] /\ duration' = duration
        /\ (c \in woken => c \in woken') /\ (c \in wakers => c \in wakers')
    BY ZenonT(60), <1>1, <1>t
       DEF CallsOK, Goto, timer, Poll, PollFut, PollSleep, ReturnPending, FutReady, 
                      Start, Check, AddWaker, Drop
  <2> QED BY Zenon, <2>1, <1>u, <1>h DEF Asleep, CheckKept, WakeKept
<1>2. CASE Poll(c)
  BY Zenon, <1>2, <1>t DEF Poll, CallsOK, Asleep, CheckKept, WakeKept
<1>3. CASE PollFut(c)
  <2>1. /\ UNCHANGED <<wakers, woken>>
        /\ pc[c] = "poll" /\ pc'[c] \in {"drop", "poll"}
        /\ left'[c] = left[c] \ {"fut"}
    BY Zenon, <1>3, <1>t DEF PollFut, Goto, CallsOK
  <2> QED BY Zenon, <2>1, <1>u, <1>h DEF Asleep, CheckKept, WakeKept
<1>4. CASE PollSleep(c) \/ Start(c) \/ Drop(c)
  BY <1>4, <1>t DEF PollSleep, Start, Drop, Goto, CallsOK, Asleep, CheckKept, WakeKept
<1>5. CASE ReturnPending(c)
  <2>1. /\ UNCHANGED <<wakers, woken>>
        /\ pc[c] = "poll" /\ left[c] = {} /\ pc'[c] = "pending"
    BY Zenon, <1>5, <1>t DEF ReturnPending, Goto, CallsOK
  <2> QED BY Zenon, <2>1, <1>u, <1>h DEF Asleep, CheckKept, WakeKept
<1>6. CASE FutReady(c)
  <2>1. UNCHANGED <<wakers, checked, start, duration, left, pc>> /\ c \in woken'
    BY Zenon, <1>6 DEF FutReady, timer
  <2> QED BY Zenon, <2>1, <1>u, <1>h DEF Asleep, CheckKept, WakeKept
<1>7. CASE Check(c)
  <2>0. now \in Nat BY TimeAssumption DEF IInv, ClockOK, SlotsOK
  <2>1. /\ UNCHANGED <<start, duration>> /\ checked'[c] = now
        /\ pc'[c] = IF IsExpired(c) THEN "drop" ELSE "add_waker"
        /\ Started(c)
    BY Zenon, <1>7, <1>t DEF Check, Goto, CallsOK, Started
  <2>2. start[c] \in Nat /\ duration[c] \in Nat
    BY Zenon, TimeAssumption DEF IInv, StartOK, StartKept
  <2>3. ~IsExpired(c) => now + Tick <= start[c] + duration[c]
    BY Zenon, <2>0, <2>2, Remaining DEF IsExpired, Elapsed
  <2>4. now <= now + Tick BY <2>0, TimeAssumption
  <2> QED BY Zenon, <2>0, <2>1, <2>3, <2>4, <1>u DEF Asleep, CheckKept, WakeKept
<1>8. CASE AddWaker(c)
  <2>1. pc[c] = "add_waker" /\ pc'[c] = "poll" /\ c \in wakers'
    BY Zenon, <1>8, <1>t DEF AddWaker, Goto, CallsOK
  <2>2. Started(c) /\ step[c] # "idle" BY Zenon, <2>1, <1>h DEF Started, Answers, WakeKept
  <2>3. Held(c)
    <3> SUFFICES ASSUME ~Held(c) PROVE FALSE
      BY Zenon
    <3>1. start[c] + duration[c] < now /\ start[c] \in Nat /\ duration[c] \in Nat
          /\ now \in Nat
      BY Zenon, <2>2, GoneIsPast, PastIsExpired
    <3>2. checked[c] \in Nat /\ now <= checked[c] + Tick
          /\ checked[c] + Tick <= start[c] + duration[c]
      BY Zenon, <2>1, <1>h DEF CheckKept
    <3> QED BY Zenon, <3>1, <3>2, NotYetPast
  <2> QED BY Zenon, <2>1, <2>2, <2>3, <1>u DEF Asleep, CheckKept, WakeKept
<1> QED BY Zenon, <1>1, <1>2, <1>3, <1>4, <1>5, <1>6, <1>7, <1>8

(* Every step keeps it so, when no thread is held up for more than a tick. *)
LEMMA SleepStep ==
    ASSUME Prompt, IInv, SleepOK, [Next]_vars PROVE SleepOK'
<1>s. SlotsOK BY Zenon DEF IInv, ClockOK
<1>n. \A c \in Calls : pc[c] = "add_waker" => now <= checked[c] + Tick
  BY Zenon DEF SleepOK, CheckKept
<1>c. Calls \subseteq Timers BY Zenon, CallsAssumption
<1>1. ASSUME NEW b \in Calls, Poll(b) \/ PollFut(b) \/ PollSleep(b) \/ ReturnPending(b)
             \/ FutReady(b) \/ Start(b) \/ Check(b) \/ AddWaker(b) \/ Drop(b)
      PROVE  SleepOK'
  BY Zenon, <1>1, SleepCall
<1>2. ASSUME WheelNext, UNCHANGED tvec \/ \E w \in Tickers : TickStep(w), now' = now,
             UNCHANGED <<start, duration, checked, left, wakers, woken>>,
             \A c \in Calls : pc'[c] \in {pc[c], "check"}
      PROVE  SleepOK'
  <2>1. ASSUME NEW w \in Tickers, NEW m \in Timers, TickUse(w, m) PROVE FALSE
    <3>1. m \in tvec[w] /\ m \notin tvec'[w] /\ UNCHANGED <<timers, tstep, tcur, tnew,
                                                            ticks>>
      BY Zenon, <2>1 DEF TickUse, wheel, IInv, ClockOK
    <3>2. PICK v \in Tickers : TickStep(v) BY Zenon, <1>2, <3>1
    <3>3. TickRemove(v) BY Zenon, <3>1, <3>2 DEF TickStep, TickLoad, TickClock, TickCas
    <3>4. UNCHANGED tvec \/ tvec' = [tvec EXCEPT ![v] = @ \cup timers[tcur[v]]]
      BY Zenon, <3>3 DEF TickRemove, TakeSlots
    <3> QED BY <3>1, <3>4 DEF IInv, ClockOK
  <2> QED BY ZenonT(60), <1>2, <1>n, <2>1, SleepWheel
<1>3. ASSUME NEW b \in Calls, RegisterTimer(b) PROVE SleepOK'
  <2>0. /\ UNCHANGED <<start, duration, checked, left, wakers, woken>>
        /\ \A c \in Calls : pc'[c] \in {pc[c], "check"}
        /\ NewTimer(b, duration[b]) /\ duration[b] \in Durations
    BY Zenon, <1>3 DEF RegisterTimer, Goto, timer, IInv, CallsOK
  <2>1. WheelNext /\ UNCHANGED tvec /\ now' = now
    BY Zenon, <2>0, <1>c DEF WheelNext, NewTimer, tickers
  <2> QED BY Zenon, <2>0, <2>1, <1>2
<1>4. ASSUME NEW m \in Timers, OtherTimer(m) \/ NewTimerResume(m) PROVE SleepOK'
  <2>1. UNCHANGED <<start, duration, checked, left, wakers, woken, pc>>
    BY Zenon, <1>4 DEF OtherTimer, NewTimerResume, timeoutVars, timer, task
  <2>2. WheelNext BY Zenon, <1>4 DEF OtherTimer, NewTimerResume, WheelNext
  <2>3. UNCHANGED tvec /\ now' = now
    <3>1. CASE OtherTimer(m) BY Zenon, <3>1 DEF OtherTimer, NewTimer, tickers
    <3>2. CASE NewTimerResume(m) BY Zenon, <3>2, <1>s, CallFacts DEF NewTimerResume, tickers
    <3> QED BY Zenon, <1>4, <3>1, <3>2
  <2> QED BY Zenon, <2>1, <2>2, <2>3, <1>2
<1>5. ASSUME NEW w \in Tickers, NextTick(w) PROVE SleepOK'
  <2>1. UNCHANGED <<start, duration, checked, left, wakers, woken, pc>>
    BY Zenon, <1>5 DEF NextTick, timeoutVars, timer, task
  <2>2. TickStep(w) /\ WheelNext BY Zenon, <1>5 DEF NextTick, WheelNext
  <2>3. now' = now BY Zenon, <2>2, <1>s, TickFacts
  <2> QED BY Zenon, <2>1, <2>2, <2>3, <1>2
<1>6. ASSUME NEW w \in Tickers, NEW m \in Timers, Wake(w, m) PROVE SleepOK'
  <2>1. UNCHANGED <<start, duration, checked, left, pc>> BY Zenon, <1>6 DEF Wake, timer, task
  <2>2. WheelNext /\ now' = now BY Zenon, <1>6 DEF Wake, WheelNext, TickUse
  <2> QED BY Zenon, <1>6, <2>1, <2>2, <1>n, SleepWheel
<1>7. CASE Advance
  <2>1. /\ UNCHANGED <<start, duration, checked, left, wakers, woken, pc, tvec>>
        /\ WheelNext /\ now' = now + 1
        /\ \A c \in Calls : pc[c] = "add_waker" => now < checked[c] + Tick
    BY ZenonT(60), <1>7 DEF Advance, Clock, WheelNext, tickers, timeoutVars, timer, task
  <2>n. now \in Nat /\ Tick \in Nat
    BY TimeAssumption, <1>s DEF SlotsOK
  <2>2. \A w \in Tickers, m \in Timers : ~TickUse(w, m)
    <3>1. now' # now BY <2>1, <2>n
    <3> QED BY Zenon, <3>1 DEF TickUse, callers
  <2>3. ASSUME NEW c \in Calls, pc[c] = "add_waker" PROVE now' <= checked[c] + Tick
    <3>1. checked[c] \in Nat /\ now < checked[c] + Tick
      BY Zenon, <2>1, <2>3 DEF SleepOK, CheckKept
    <3> QED BY <2>1, <2>n, <3>1
  <2> QED BY Zenon, <2>1, <2>2, <2>3, SleepWheel
<1>8. CASE UNCHANGED vars
  BY ZenonT(60), <1>8 DEF vars, wheelVars, wheel, callers, tickers, timeoutVars, timer, task,
              SleepOK, CheckKept, WakeKept, Asleep, Started, Held, Due, Emptied
<1>9. ASSUME NEW b \in Calls, Poll(b) \/ Resume(b) \/ FutReady(b) PROVE SleepOK'
  <2>1. b \in Timers BY Zenon, <1>c
  <2> QED BY Zenon, <1>9, <2>1, <1>1, <1>3, <1>4 DEF Resume
<1>10. CASE Next
  <2>1. CASE \E b \in Calls : Poll(b) \/ Resume(b) \/ FutReady(b) BY Zenon, <2>1, <1>9
  <2>2. CASE \E m \in Timers \ Calls : OtherTimer(m) \/ NewTimerResume(m)
    BY Zenon, <2>2, <1>4
  <2>3. CASE \E w \in Tickers : PollOnce(w) BY Zenon, <2>3, <1>5, <1>6 DEF PollOnce
  <2> QED BY Zenon, <1>7, <1>10, <2>1, <2>2, <2>3 DEF Next
<1> QED BY Zenon, <1>8, <1>10

(* timeout.rs and mio/driver.rs: no expiry is lost.  A call that sleeps has its waker in
   the map and its timer in the wheel or on the list of poll_once, or a late timer
   has emptied its slot.  Prompt is needed: a thread that is suspended for longer
   between is_expired and add_waker inserts the waker after the wake-up. *)
THEOREM TimeoutNoLostExpiry ==
    ASSUME Prompt PROVE Spec => []NoLostExpiry
<1>1. Init => SleepOK BY Zenon DEF Init, SleepOK, CheckKept, WakeKept, Asleep
<1>2. IInv /\ SleepOK /\ [Next]_vars => SleepOK' BY Zenon, SleepStep
<1>3. SleepOK => NoLostExpiry BY Zenon DEF SleepOK, WakeKept, Asleep, NoLostExpiry
<1> QED BY Invariance, <1>1, <1>2, <1>3, PTL DEF Spec

=============================================================================
