---------------------------- MODULE FutureProofs ----------------------------
(***************************************************************************)
(* Proofs about the two halves of hala-future.  The event map, for every   *)
(* set of waits, events and notifiers: no event is lost on a wait whose    *)
(* waker is in place, and a wait is given one reason.  The batcher, for    *)
(* every set of futures and any number of wake-ups: no wake-up is lost, no *)
(* future is forgotten, and a result is given once.                        *)
(***************************************************************************)
EXTENDS EventMap, FutureBatcher, TLAPS

-----------------------------------------------------------------------------
(* EventMap *)

(* The guard is alive exactly from the call of wait until the waker is stored,
   and until then the event has not happened. *)
GuardHeld ==
    \A w \in Waits :
        /\ lock = w <=> pc[w] \in {"insert", "unlock"}
        /\ pc[w] = "insert" => event[w] \notin happened

(* Nobody knows of a wait before it has stored its waker. *)
Fresh ==
    \A w \in Waits : pc[w] \in {"idle", "insert"} =>
        /\ reason[w] = "None"
        /\ \A e \in Events : wakers[e] # w
        /\ \A n \in Notifiers : hand[n] # w

(* What a notifier has in hand, and what it has to do, at each of its steps. *)
NotifierOK ==
    \A n \in Notifiers :
        /\ hand[n] # Nobody <=> npc[n] \in {"store", "wake"}
        /\ npc[n] \in {"idle", "keys"} => todo[n] = {}
        /\ npc[n] \in {"lookup", "store", "wake"} => why[n] \in {"On", "Cancel"}

IInv == TypeOK /\ GuardHeld /\ Fresh /\ NotifierOK /\ OneReason /\ NoLostEvent

(* The initial state satisfies the invariant. *)
LEMMA InitIInv == Init => IInv
  BY NobodyAssumption
     DEF Init, IInv, TypeOK, GuardHeld, Fresh, NotifierOK, OneReason, NoLostEvent, Asleep,
         WaitSteps, NotifySteps, Reasons

(* Every step preserves the type of the state; a notifier that stores a reason has
   a wait in hand. *)
LEMMA NextType == TypeOK /\ NotifierOK /\ [Next]_vars => TypeOK'
<1> SUFFICES ASSUME TypeOK, NotifierOK, [Next]_vars PROVE TypeOK'
  BY Zenon
<1> USE NobodyAssumption
        DEF TypeOK, WaitSteps, NotifySteps, Reasons, Results, Goto, NotifyGoto, wait,
            notifier, NotifierOK
<1>1. CASE UNCHANGED vars
  BY Zenon, <1>1 DEF vars, wait, notifier
<1>2. ASSUME NEW w \in Waits, Wait(w) PROVE TypeOK'
  BY Zenon, <1>2 DEF Wait
<1>3. ASSUME NEW w \in Waits, Insert(w) PROVE TypeOK'
  BY <1>3 DEF Insert
<1>4. ASSUME NEW w \in Waits, Unlock(w) PROVE TypeOK'
  BY Zenon, <1>4 DEF Unlock
<1>5. ASSUME NEW w \in Waits, Load(w) PROVE TypeOK'
  BY Zenon, <1>5 DEF Load
<1>6. ASSUME NEW w \in Waits, Repoll(w) PROVE TypeOK'
  BY Zenon, <1>6 DEF Repoll
<1>7. ASSUME NEW w \in Waits, Handle(w) PROVE TypeOK'
  BY Zenon, <1>7 DEF Handle
<1>8. ASSUME NEW w \in Waits, SpuriousPoll(w) PROVE TypeOK'
  BY Zenon, <1>8 DEF SpuriousPoll
<1>9. ASSUME NEW w \in Waits, Abandon(w) PROVE TypeOK'
  BY Zenon, <1>9 DEF Abandon
<1>10. ASSUME NEW w \in Waits, WaitCancel(w) PROVE TypeOK'
  BY <1>10 DEF WaitCancel
<1>11. ASSUME NEW n \in Notifiers, CollectKeys(n) PROVE TypeOK'
  BY Zenon, <1>11 DEF CollectKeys
<1>12. ASSUME NEW n \in Notifiers, StoreReason(n) PROVE TypeOK'
  BY Zenon, <1>12 DEF StoreReason
<1>13. ASSUME NEW n \in Notifiers, Wake(n) PROVE TypeOK'
  BY ZenonT(60), <1>13 DEF Wake
<1>14. ASSUME NEW n \in Notifiers, NotifyEnd(n) PROVE TypeOK'
  BY Zenon, <1>14 DEF NotifyEnd
<1>15. ASSUME NEW n \in Notifiers, NotifyAny(n) PROVE TypeOK'
  BY Zenon, <1>15 DEF NotifyAny
<1>16. ASSUME NEW n \in Notifiers, NEW e \in Events, NotifyRemove(n, e) PROVE TypeOK'
  BY ZenonT(60), <1>16 DEF NotifyRemove
<1>17. ASSUME NEW n \in Notifiers, NEW e \in Events, NotifyNone(n, e) PROVE TypeOK'
  BY Zenon, <1>17 DEF NotifyNone
<1>18. ASSUME NEW n \in Notifiers, NEW S \in SUBSET Events, NEW r \in {"On", "Cancel"},
             NotifyAll(n, S, r)
      PROVE  TypeOK'
  BY Zenon, <1>18 DEF NotifyAll
<1>19. ASSUME Destroy PROVE TypeOK'
  BY Zenon, <1>19 DEF Destroy
<1> HIDE DEF TypeOK, WaitSteps, NotifySteps, Reasons, Results, Goto, NotifyGoto, wait,
         notifier, NotifierOK
<1> QED
  BY Zenon, <1>1, <1>2, <1>3, <1>4, <1>5, <1>6, <1>7, <1>8, <1>9, <1>10, <1>11, <1>12, <1>13,
     <1>14, <1>15, <1>16, <1>17, <1>18, <1>19
     DEF Next, WaitStep, NotifyStep

(* Every step preserves the placement of the guard. *)
LEMMA NextGuard == TypeOK /\ GuardHeld /\ [Next]_vars => GuardHeld'
<1> SUFFICES ASSUME TypeOK, GuardHeld, [Next]_vars PROVE GuardHeld'
  BY Zenon
<1> USE NobodyAssumption
        DEF TypeOK, WaitSteps, NotifySteps, Reasons, Results, Goto, NotifyGoto, wait,
            notifier, GuardHeld
<1>1. CASE UNCHANGED vars
  BY Zenon, <1>1 DEF vars, wait, notifier
<1>2. ASSUME NEW w \in Waits, Wait(w) PROVE GuardHeld'
  BY ZenonT(60), <1>2 DEF Wait
<1>3. ASSUME NEW w \in Waits, Insert(w) PROVE GuardHeld'
  BY ZenonT(60), <1>3 DEF Insert
<1>4. ASSUME NEW w \in Waits, Unlock(w) PROVE GuardHeld'
  BY ZenonT(60), <1>4 DEF Unlock
<1>5. ASSUME NEW w \in Waits, Load(w) PROVE GuardHeld'
  BY Zenon, <1>5 DEF Load
<1>6. ASSUME NEW w \in Waits, Repoll(w) PROVE GuardHeld'
  BY Zenon, <1>6 DEF Repoll
<1>7. ASSUME NEW w \in Waits, Handle(w) PROVE GuardHeld'
  BY Zenon, <1>7 DEF Handle
<1>8. ASSUME NEW w \in Waits, SpuriousPoll(w) PROVE GuardHeld'
  BY ZenonT(60), <1>8 DEF SpuriousPoll
<1>9. ASSUME NEW w \in Waits, Abandon(w) PROVE GuardHeld'
  BY Zenon, <1>9 DEF Abandon
<1>10. ASSUME NEW w \in Waits, WaitCancel(w) PROVE GuardHeld'
  BY Zenon, <1>10 DEF WaitCancel
<1>11. ASSUME NEW n \in Notifiers, CollectKeys(n) PROVE GuardHeld'
  BY Zenon, <1>11 DEF CollectKeys
<1>12. ASSUME NEW n \in Notifiers, StoreReason(n) PROVE GuardHeld'
  BY Zenon, <1>12 DEF StoreReason
<1>13. ASSUME NEW n \in Notifiers, Wake(n) PROVE GuardHeld'
  BY Zenon, <1>13 DEF Wake
<1>14. ASSUME NEW n \in Notifiers, NotifyEnd(n) PROVE GuardHeld'
  BY Zenon, <1>14 DEF NotifyEnd
<1>15. ASSUME NEW n \in Notifiers, NotifyAny(n) PROVE GuardHeld'
  BY Zenon, <1>15 DEF NotifyAny
<1>16. ASSUME NEW n \in Notifiers, NEW e \in Events, NotifyRemove(n, e) PROVE GuardHeld'
  BY Zenon, <1>16 DEF NotifyRemove
<1>17. ASSUME NEW n \in Notifiers, NEW e \in Events, NotifyNone(n, e) PROVE GuardHeld'
  BY Zenon, <1>17 DEF NotifyNone
<1>18. ASSUME NEW n \in Notifiers, NEW S \in SUBSET Events, NEW r \in {"On", "Cancel"},
             NotifyAll(n, S, r)
      PROVE  GuardHeld'
  BY ZenonT(60), <1>18 DEF NotifyAll
<1>19. ASSUME Destroy PROVE GuardHeld'
  BY Zenon, <1>19 DEF Destroy
<1> HIDE DEF TypeOK, WaitSteps, NotifySteps, Reasons, Results, Goto, NotifyGoto, wait,
         notifier, GuardHeld
<1> QED
  BY Zenon, <1>1, <1>2, <1>3, <1>4, <1>5, <1>6, <1>7, <1>8, <1>9, <1>10, <1>11, <1>12, <1>13,
     <1>14, <1>15, <1>16, <1>17, <1>18, <1>19
     DEF Next, WaitStep, NotifyStep

(* Every step leaves the waits that have not stored their waker alone. *)
LEMMA NextFresh == TypeOK /\ NotifierOK /\ Fresh /\ [Next]_vars => Fresh'
<1> SUFFICES ASSUME TypeOK, NotifierOK, Fresh, [Next]_vars PROVE Fresh'
  BY Zenon
<1> USE NobodyAssumption
        DEF TypeOK, WaitSteps, NotifySteps, Reasons, Results, Goto, NotifyGoto, wait,
            notifier, NotifierOK, Fresh
<1>1. CASE UNCHANGED vars
  BY <1>1 DEF vars, wait, notifier
<1>2. ASSUME NEW w \in Waits, Wait(w) PROVE Fresh'
  BY <1>2 DEF Wait
<1>3. ASSUME NEW w \in Waits, Insert(w) PROVE Fresh'
  BY <1>3 DEF Insert
<1>4. ASSUME NEW w \in Waits, Unlock(w) PROVE Fresh'
  BY <1>4 DEF Unlock
<1>5. ASSUME NEW w \in Waits, Load(w) PROVE Fresh'
  BY <1>5 DEF Load
<1>6. ASSUME NEW w \in Waits, Repoll(w) PROVE Fresh'
  BY <1>6 DEF Repoll
<1>7. ASSUME NEW w \in Waits, Handle(w) PROVE Fresh'
  BY <1>7 DEF Handle
<1>8. ASSUME NEW w \in Waits, SpuriousPoll(w) PROVE Fresh'
  BY <1>8 DEF SpuriousPoll
<1>9. ASSUME NEW w \in Waits, Abandon(w) PROVE Fresh'
  BY <1>9 DEF Abandon
<1>10. ASSUME NEW w \in Waits, WaitCancel(w) PROVE Fresh'
  BY <1>10 DEF WaitCancel
<1>11. ASSUME NEW n \in Notifiers, CollectKeys(n) PROVE Fresh'
  BY <1>11 DEF CollectKeys
<1>12. ASSUME NEW n \in Notifiers, StoreReason(n) PROVE Fresh'
  BY <1>12 DEF StoreReason
<1>13. ASSUME NEW n \in Notifiers, Wake(n) PROVE Fresh'
  BY <1>13 DEF Wake
<1>14. ASSUME NEW n \in Notifiers, NotifyEnd(n) PROVE Fresh'
  BY <1>14 DEF NotifyEnd
<1>15. ASSUME NEW n \in Notifiers, NotifyAny(n) PROVE Fresh'
  BY ZenonT(60), <1>15 DEF NotifyAny
<1>16. ASSUME NEW n \in Notifiers, NEW e \in Events, NotifyRemove(n, e) PROVE Fresh'
  BY <1>16 DEF NotifyRemove
<1>17. ASSUME NEW n \in Notifiers, NEW e \in Events, NotifyNone(n, e) PROVE Fresh'
  BY <1>17 DEF NotifyNone
<1>18. ASSUME NEW n \in Notifiers, NEW S \in SUBSET Events, NEW r \in {"On", "Cancel"},
             NotifyAll(n, S, r)
      PROVE  Fresh'
  BY ZenonT(60), <1>18 DEF NotifyAll
<1>19. ASSUME Destroy PROVE Fresh'
  BY ZenonT(60), <1>19 DEF Destroy
<1> HIDE DEF TypeOK, WaitSteps, NotifySteps, Reasons, Results, Goto, NotifyGoto, wait,
         notifier, NotifierOK, Fresh
<1> QED
  BY Zenon, <1>1, <1>2, <1>3, <1>4, <1>5, <1>6, <1>7, <1>8, <1>9, <1>10, <1>11, <1>12, <1>13,
     <1>14, <1>15, <1>16, <1>17, <1>18, <1>19
     DEF Next, WaitStep, NotifyStep

(* Every step preserves what the notifiers hold. *)
LEMMA NextNotifier == TypeOK /\ NotifierOK /\ [Next]_vars => NotifierOK'
<1> SUFFICES ASSUME TypeOK, NotifierOK, [Next]_vars PROVE NotifierOK'
  BY Zenon
<1> USE NobodyAssumption
        DEF TypeOK, WaitSteps, NotifySteps, Reasons, Results, Goto, NotifyGoto, wait,
            notifier, NotifierOK
<1>1. CASE UNCHANGED vars
  BY Zenon, <1>1 DEF vars, wait, notifier
<1>2. ASSUME NEW w \in Waits, Wait(w) PROVE NotifierOK'
  BY Zenon, <1>2 DEF Wait
<1>3. ASSUME NEW w \in Waits, Insert(w) PROVE NotifierOK'
  BY Zenon, <1>3 DEF Insert
<1>4. ASSUME NEW w \in Waits, Unlock(w) PROVE NotifierOK'
  BY Zenon, <1>4 DEF Unlock
<1>5. ASSUME NEW w \in Waits, Load(w) PROVE NotifierOK'
  BY Zenon, <1>5 DEF Load
<1>6. ASSUME NEW w \in Waits, Repoll(w) PROVE NotifierOK'
  BY Zenon, <1>6 DEF Repoll
<1>7. ASSUME NEW w \in Waits, Handle(w) PROVE NotifierOK'
  BY Zenon, <1>7 DEF Handle
<1>8. ASSUME NEW w \in Waits, SpuriousPoll(w) PROVE NotifierOK'
  BY Zenon, <1>8 DEF SpuriousPoll
<1>9. ASSUME NEW w \in Waits, Abandon(w) PROVE NotifierOK'
  BY Zenon, <1>9 DEF Abandon
<1>10. ASSUME NEW w \in Waits, WaitCancel(w) PROVE NotifierOK'
  BY Zenon, <1>10 DEF WaitCancel
<1>11. ASSUME NEW n \in Notifiers, CollectKeys(n) PROVE NotifierOK'
  BY ZenonT(60), <1>11 DEF CollectKeys
<1>12. ASSUME NEW n \in Notifiers, StoreReason(n) PROVE NotifierOK'
  BY Zenon, <1>12 DEF StoreReason
<1>13. ASSUME NEW n \in Notifiers, Wake(n) PROVE NotifierOK'
  BY ZenonT(60), <1>13 DEF Wake
<1>14. ASSUME NEW n \in Notifiers, NotifyEnd(n) PROVE NotifierOK'
  BY Zenon, <1>14 DEF NotifyEnd
<1>15. ASSUME NEW n \in Notifiers, NotifyAny(n) PROVE NotifierOK'
  BY ZenonT(60), <1>15 DEF NotifyAny
<1>16. ASSUME NEW n \in Notifiers, NEW e \in Events, NotifyRemove(n, e) PROVE NotifierOK'
  BY Zenon, <1>16 DEF NotifyRemove
<1>17. ASSUME NEW n \in Notifiers, NEW e \in Events, NotifyNone(n, e) PROVE NotifierOK'
  BY ZenonT(60), <1>17 DEF NotifyNone
<1>18. ASSUME NEW n \in Notifiers, NEW S \in SUBSET Events, NEW r \in {"On", "Cancel"},
             NotifyAll(n, S, r)
      PROVE  NotifierOK'
  BY ZenonT(60), <1>18 DEF NotifyAll
<1>19. ASSUME Destroy PROVE NotifierOK'
  BY Zenon, <1>19 DEF Destroy
<1> HIDE DEF TypeOK, WaitSteps, NotifySteps, Reasons, Results, Goto, NotifyGoto, wait,
         notifier, NotifierOK
<1> QED
  BY Zenon, <1>1, <1>2, <1>3, <1>4, <1>5, <1>6, <1>7, <1>8, <1>9, <1>10, <1>11, <1>12, <1>13,
     <1>14, <1>15, <1>16, <1>17, <1>18, <1>19
     DEF Next, WaitStep, NotifyStep

(* Every waker stays in one place. *)
LEMMA NextOneReason ==
    TypeOK /\ NotifierOK /\ Fresh /\ OneReason /\ [Next]_vars => OneReason'
<1> SUFFICES ASSUME TypeOK, NotifierOK, Fresh, OneReason, [Next]_vars PROVE OneReason'
  BY Zenon
<1> USE NobodyAssumption
        DEF TypeOK, WaitSteps, NotifySteps, Reasons, Results, Goto, NotifyGoto, wait,
            notifier, NotifierOK, Fresh, OneReason
<1>1. CASE UNCHANGED vars
  BY <1>1 DEF vars, wait, notifier
<1>2. ASSUME NEW w \in Waits, Wait(w) PROVE OneReason'
  BY <1>2 DEF Wait
<1>3. ASSUME NEW w \in Waits, Insert(w) PROVE OneReason'
  BY <1>3 DEF Insert
<1>4. ASSUME NEW w \in Waits, Unlock(w) PROVE OneReason'
  BY <1>4 DEF Unlock
<1>5. ASSUME NEW w \in Waits, Load(w) PROVE OneReason'
  BY <1>5 DEF Load
<1>6. ASSUME NEW w \in Waits, Repoll(w) PROVE OneReason'
  BY <1>6 DEF Repoll
<1>7. ASSUME NEW w \in Waits, Handle(w) PROVE OneReason'
  BY <1>7 DEF Handle
<1>8. ASSUME NEW w \in Waits, SpuriousPoll(w) PROVE OneReason'
  BY <1>8 DEF SpuriousPoll
<1>9. ASSUME NEW w \in Waits, Abandon(w) PROVE OneReason'
  BY <1>9 DEF Abandon
<1>10. ASSUME NEW w \in Waits, WaitCancel(w) PROVE OneReason'
  BY <1>10 DEF WaitCancel
<1>11. ASSUME NEW n \in Notifiers, CollectKeys(n) PROVE OneReason'
  BY <1>11 DEF CollectKeys
<1>12. ASSUME NEW n \in Notifiers, StoreReason(n) PROVE OneReason'
  BY <1>12 DEF StoreReason
<1>13. ASSUME NEW n \in Notifiers, Wake(n) PROVE OneReason'
  BY <1>13 DEF Wake
<1>14. ASSUME NEW n \in Notifiers, NotifyEnd(n) PROVE OneReason'
  BY <1>14 DEF NotifyEnd
<1>15. ASSUME NEW n \in Notifiers, NotifyAny(n) PROVE OneReason'
  BY <1>15 DEF NotifyAny
<1>16. ASSUME NEW n \in Notifiers, NEW e \in Events, NotifyRemove(n, e) PROVE OneReason'
  BY <1>16 DEF NotifyRemove
<1>17. ASSUME NEW n \in Notifiers, NEW e \in Events, NotifyNone(n, e) PROVE OneReason'
  BY <1>17 DEF NotifyNone
<1>18. ASSUME NEW n \in Notifiers, NEW S \in SUBSET Events, NEW r \in {"On", "Cancel"},
             NotifyAll(n, S, r)
      PROVE  OneReason'
  BY <1>18 DEF NotifyAll
<1>19. ASSUME Destroy PROVE OneReason'
  BY <1>19 DEF Destroy
<1> HIDE DEF TypeOK, WaitSteps, NotifySteps, Reasons, Results, Goto, NotifyGoto, wait,
         notifier, NotifierOK, Fresh, OneReason
<1> QED
  BY Zenon, <1>1, <1>2, <1>3, <1>4, <1>5, <1>6, <1>7, <1>8, <1>9, <1>10, <1>11, <1>12, <1>13,
     <1>14, <1>15, <1>16, <1>17, <1>18, <1>19
     DEF Next, WaitStep, NotifyStep

(* No step leaves a wait asleep that nobody is going to wake. *)
LEMMA NextNoLostEvent ==
    TypeOK /\ GuardHeld /\ Fresh /\ NotifierOK /\ OneReason /\ NoLostEvent /\ [Next]_vars
        => NoLostEvent'
<1> SUFFICES ASSUME TypeOK, GuardHeld, Fresh, NotifierOK, OneReason, NoLostEvent,
                    [Next]_vars
             PROVE  NoLostEvent'
  BY Zenon
<1> USE NobodyAssumption
        DEF TypeOK, WaitSteps, NotifySteps, Reasons, Results, Goto, NotifyGoto, wait,
            notifier, GuardHeld, Fresh, NotifierOK, OneReason, NoLostEvent, Asleep
<1>1. CASE UNCHANGED vars
  BY <1>1 DEF vars, wait, notifier
<1>2. ASSUME NEW w \in Waits, Wait(w) PROVE NoLostEvent'
  BY <1>2 DEF Wait
<1>3. ASSUME NEW w \in Waits, Insert(w) PROVE NoLostEvent'
  BY <1>3 DEF Insert
<1>4. ASSUME NEW w \in Waits, Unlock(w) PROVE NoLostEvent'
  BY <1>4 DEF Unlock
<1>5. ASSUME NEW w \in Waits, Load(w) PROVE NoLostEvent'
  BY <1>5 DEF Load
<1>6. ASSUME NEW w \in Waits, Repoll(w) PROVE NoLostEvent'
  BY <1>6 DEF Repoll
<1>7. ASSUME NEW w \in Waits, Handle(w) PROVE NoLostEvent'
  BY <1>7 DEF Handle
<1>8. ASSUME NEW w \in Waits, SpuriousPoll(w) PROVE NoLostEvent'
  BY <1>8 DEF SpuriousPoll
<1>9. ASSUME NEW w \in Waits, Abandon(w) PROVE NoLostEvent'
  BY <1>9 DEF Abandon
<1>10. ASSUME NEW w \in Waits, WaitCancel(w) PROVE NoLostEvent'
  BY <1>10 DEF WaitCancel
<1>11. ASSUME NEW n \in Notifiers, CollectKeys(n) PROVE NoLostEvent'
  BY <1>11 DEF CollectKeys
<1>12. ASSUME NEW n \in Notifiers, StoreReason(n) PROVE NoLostEvent'
  BY <1>12 DEF StoreReason
<1>13. ASSUME NEW n \in Notifiers, Wake(n) PROVE NoLostEvent'
  BY <1>13 DEF Wake
<1>14. ASSUME NEW n \in Notifiers, NotifyEnd(n) PROVE NoLostEvent'
  BY <1>14 DEF NotifyEnd
<1>15. ASSUME NEW n \in Notifiers, NotifyAny(n) PROVE NoLostEvent'
  BY <1>15 DEF NotifyAny
<1>16. ASSUME NEW n \in Notifiers, NEW e \in Events, NotifyRemove(n, e) PROVE NoLostEvent'
  BY <1>16 DEF NotifyRemove
<1>17. ASSUME NEW n \in Notifiers, NEW e \in Events, NotifyNone(n, e) PROVE NoLostEvent'
  BY <1>17 DEF NotifyNone
<1>18. ASSUME NEW n \in Notifiers, NEW S \in SUBSET Events, NEW r \in {"On", "Cancel"},
             NotifyAll(n, S, r)
      PROVE  NoLostEvent'
  BY <1>18 DEF NotifyAll
<1>19. ASSUME Destroy PROVE NoLostEvent'
  BY Zenon, <1>19 DEF Destroy
<1> HIDE DEF TypeOK, WaitSteps, NotifySteps, Reasons, Results, Goto, NotifyGoto, wait,
         notifier, GuardHeld, Fresh, NotifierOK, OneReason, NoLostEvent, Asleep
<1> QED
  BY Zenon, <1>1, <1>2, <1>3, <1>4, <1>5, <1>6, <1>7, <1>8, <1>9, <1>10, <1>11, <1>12, <1>13,
     <1>14, <1>15, <1>16, <1>17, <1>18, <1>19
     DEF Next, WaitStep, NotifyStep

LEMMA EventMapIInv == Spec => []IInv
<1>1. IInv /\ [Next]_vars => IInv'
  BY Zenon, NextType, NextGuard, NextFresh, NextNotifier, NextOneReason, NextNoLostEvent DEF IInv
<1> QED
  BY <1>1, InitIInv, PTL DEF Spec

(* For every set of waits, events and notifiers: a sleeping wait whose waker no
   other client has removed is registered or about to be woken, also when its
   event happens while it is going to sleep. *)
THEOREM EventMapNoLostEvent == Spec => []NoLostEvent
<1>1. IInv => NoLostEvent
  BY Zenon DEF IInv
<1> QED
  BY <1>1, EventMapIInv, PTL

(* For every set of waits, events and notifiers: a waker is in one place, so that
   a wait is given one reason, and before it is woken. *)
THEOREM EventMapOneReason == Spec => []OneReason
<1>1. IInv => OneReason
  BY Zenon DEF IInv
<1> QED
  BY <1>1, EventMapIInv, PTL

(* For every set of waits, events and notifiers: the result of a wait does not
   change, however often it is polled or its event is notified. *)
THEOREM EventMapResultIsFinal == Spec => ResultIsFinal
<1> DEFINE Final == \A w \in Waits : reason[w] # "None" => reason'[w] = reason[w]
<1>1. IInv /\ [Next]_vars => [Final]_vars
  <2> SUFFICES ASSUME IInv, Next PROVE Final
    BY Zenon
  <2>1. CASE reason' = reason
    BY Zenon, <2>1
  <2>2. ASSUME NEW n \in Notifiers, StoreReason(n) PROVE Final
    <3>1. hand[n] \in Waits /\ reason[hand[n]] = "None"
      BY <2>2 DEF IInv, TypeOK, NotifierOK, OneReason, StoreReason, NotifyGoto
    <3> QED
      BY Zenon, <2>2, <3>1 DEF StoreReason, IInv, TypeOK
  <2>3. CASE Destroy
    BY <2>3 DEF Destroy, IInv, TypeOK, OneReason
  <2>4. reason' = reason \/ Destroy \/ \E n \in Notifiers : StoreReason(n)
    BY Zenon DEF Next, WaitStep, NotifyStep, Wait, Insert, Unlock, Load, Repoll, Handle,
       SpuriousPoll, 
           Abandon, WaitCancel, CollectKeys, Wake, NotifyEnd, NotifyAny, NotifyRemove,
           NotifyNone, NotifyAll
  <2> HIDE DEF Final
  <2> QED
    BY Zenon, <2>1, <2>2, <2>3, <2>4
<1>2. ResultIsFinal <=> [][Final]_vars
  BY Zenon DEF ResultIsFinal
<1> HIDE DEF Final
<1> QED
  BY <1>1, <1>2, EventMapIInv, PTL DEF Spec

-----------------------------------------------------------------------------
(* FutureBatcher *)

(* await_counter is one exactly while poll runs. *)
CounterOK ==
    bpc # "none" => counter = IF bpc \in {"enter", "closed3", "parked"} THEN 0 ELSE 1

(* The agents: only push and the wakers queue an id, and closed is set by the closer. *)
AgentsOK ==
    /\ apc[Closer] # "queue"
    /\ closed => apc[Closer] # "start"

(* The polling task was woken, or an agent is about to wake it, *)
Notified == hostWoken \/ \E a \in Agents : apc[a] = "wake"

(* ... or to take its waker. *)
Coming == hostWoken \/ \E a \in Agents : apc[a] \in {"take", "wake"}

(* While poll is parked, its waker is in place or was used; a future that is queued
   has been followed by a wake-up, or will be. *)
WakeOK ==
    /\ bpc \in {"pop", "closed2", "remove", "poll", "insert", "leave", "closed3", "parked"}
           => host \/ Notified
    /\ bpc \in {"leave", "closed3", "parked"} /\ queue # <<>> => Coming
    /\ bpc = "parked" /\ closed => Coming

(* A future is in the map or in the hands of the poll loop, not both, and in
   neither before it is pushed and after its result is returned. *)
OwnedOnce ==
    \A f \in Futures :
        /\ results[f] \in {0, 1}
        /\ apc[<<"push", f>>] = "start" => results[f] = 0 /\ f \notin pending /\ ~ Polled(f)
        /\ results[f] = 1 => f \notin pending /\ ~ Polled(f)
        /\ Polled(f) => f \notin pending

(* The inductive invariant *)
BatcherOK ==
    BatcherTypeOK /\ CounterOK /\ AgentsOK /\ WakeOK /\ OwnedOnce /\ NoFutureForgotten

(* What Append and Tail do to the members of the queue. *)
LEMMA QueueAppend ==
    ASSUME NEW q \in Seq(Futures), NEW g \in Futures
    PROVE  /\ Append(q, g) \in Seq(Futures) /\ Append(q, g) # <<>>
           /\ \E i \in 1 .. Len(Append(q, g)) : Append(q, g)[i] = g
           /\ \A f : (\E i \in 1 .. Len(q) : q[i] = f)
                  => \E i \in 1 .. Len(Append(q, g)) : Append(q, g)[i] = f
<1>1. Append(q, g)[Len(q) + 1] = g /\ Len(Append(q, g)) = Len(q) + 1
  OBVIOUS
<1>2. \A i \in 1 .. Len(q) : Append(q, g)[i] = q[i]
  OBVIOUS
<1> QED
  BY <1>1, <1>2

(* ... and what taking the first one out does. *)
LEMMA QueueTail ==
    ASSUME NEW q \in Seq(Futures), q # <<>>
    PROVE  /\ Head(q) \in Futures /\ Tail(q) \in Seq(Futures)
           /\ \A f : (\E i \in 1 .. Len(q) : q[i] = f) /\ f # Head(q)
                  => \E i \in 1 .. Len(Tail(q)) : Tail(q)[i] = f
<1>1. Len(Tail(q)) = Len(q) - 1 /\ \A i \in 1 .. Len(q) - 1 : Tail(q)[i] = q[i + 1]
  OBVIOUS
<1>2. Head(q) = q[1] /\ Len(q) \in Nat
  OBVIOUS
<1>3. ASSUME NEW f, NEW i \in 1 .. Len(q), q[i] = f, f # Head(q)
      PROVE  \E j \in 1 .. Len(Tail(q)) : Tail(q)[j] = f
  <2>1. i - 1 \in 1 .. Len(Tail(q)) /\ Tail(q)[i - 1] = f
    BY <1>1, <1>2, <1>3
  <2> QED
    BY Zenon, <2>1
<1> QED
  BY <1>3

(* The agents have names of their own. *)
LEMMA AgentNames ==
    /\ Closer \in Agents
    /\ \A k \in {"push", "fire"}, f \in Futures : <<k, f>> \in Agents /\ <<k, f>> # Closer
    /\ \A j, k \in {"push", "fire"}, f, g \in Futures : <<j, f>> = <<k, g>> => j = k
         /\ f = g
  BY Zenon DEF Agents, Closer

(* A step of an agent is its own. *)
LEMMA AgentMoves ==
    ASSUME apc \in [Agents -> AgentSteps], NEW a \in Agents, NEW x, NEW y, AgentGoto(a, x, y)
    PROVE  apc[a] = x /\ apc'[a] = y /\ \A b \in Agents : b # a => apc'[b] = apc[b]
  BY Zenon DEF AgentGoto

(* The initial state satisfies the invariant. *)
LEMMA BatcherOKInit == BatcherInit => BatcherOK
<1> SUFFICES ASSUME BatcherInit PROVE BatcherOK
  BY Zenon
<1>1. BatcherTypeOK
  <2>1. queue \in Seq(Futures) /\ pends \in [Futures -> 0 .. MaxPending]
    BY BoundsAssumption DEF BatcherInit
  <2> QED
    BY Zenon, <2>1 DEF BatcherInit, BatcherTypeOK, AgentSteps, PollSteps
<1>2. CounterOK /\ AgentsOK /\ WakeOK
  BY Zenon, AgentNames DEF BatcherInit, CounterOK, AgentsOK, WakeOK
<1>3. OwnedOnce /\ NoFutureForgotten
  BY Zenon, AgentNames DEF BatcherInit, OwnedOnce, NoFutureForgotten, Polled
<1> QED
  BY Zenon, <1>1, <1>2, <1>3 DEF BatcherOK

(* Every step preserves the type of the state, the assertions on await_counter
   included. *)
LEMMA BatcherType ==
    BatcherTypeOK /\ CounterOK /\ [BatcherNext]_batcherVars => BatcherTypeOK' /\ CounterOK'
<1> SUFFICES ASSUME BatcherTypeOK, CounterOK, [BatcherNext]_batcherVars
             PROVE  BatcherTypeOK' /\ CounterOK'
  BY Zenon
<1> USE BoundsAssumption, AgentNames
        DEF BatcherTypeOK, CounterOK, AgentSteps, PollSteps, BatcherGoto, AgentGoto, shared,
            poller
<1>1. CASE UNCHANGED batcherVars
  BY ZenonT(60), <1>1 DEF batcherVars, shared, poller
<1>2. ASSUME NEW f \in Futures, PushInsert(f) PROVE BatcherTypeOK' /\ CounterOK'
  BY ZenonT(60), <1>2 DEF PushInsert
<1>3. ASSUME NEW f \in Futures, Fire(f) PROVE BatcherTypeOK' /\ CounterOK'
  <2>1. armed' \in [Futures -> Nat]
    BY <1>3 DEF Fire
  <2>2. apc' \in [Agents -> AgentSteps]
    BY ZenonT(60), <1>3 DEF Fire
  <2> QED
    BY ZenonT(60), <1>3, <2>1, <2>2 DEF Fire
<1>4. ASSUME NEW f \in Futures, NEW k \in {"push", "fire"}, Enqueue(k, f)
      PROVE  BatcherTypeOK' /\ CounterOK'
  BY Zenon, <1>4, QueueAppend DEF Enqueue
<1>5. ASSUME NEW a \in Agents, TakeWaker(a) PROVE BatcherTypeOK' /\ CounterOK'
  BY Zenon, <1>5 DEF TakeWaker
<1>6. ASSUME NEW a \in Agents, WakeHost(a) PROVE BatcherTypeOK' /\ CounterOK'
  BY Zenon, <1>6 DEF WakeHost
<1>7. CASE Close
  BY Zenon, <1>7 DEF Close
<1>8. CASE Enter
  BY <1>8 DEF Enter
<1>9. CASE CheckClosed
  BY Zenon, <1>9 DEF CheckClosed
<1>10. CASE AddWaker
  BY Zenon, <1>10 DEF AddWaker
<1>11. CASE Pop
  <2>1. CASE queue = <<>>
    BY Zenon, <1>11, <2>1 DEF Pop
  <2>2. CASE queue # <<>>
    <3>1. Head(queue) \in Futures /\ Tail(queue) \in Seq(Futures)
      BY Zenon, <2>2, QueueTail
    <3> QED
      BY Zenon, <1>11, <2>2, <3>1 DEF Pop
  <2> QED
    BY Zenon, <2>1, <2>2
<1>12. CASE CheckClosed2
  BY Zenon, <1>12 DEF CheckClosed2
<1>13. CASE Remove
  BY Zenon, <1>13 DEF Remove
<1>14. CASE PollPending
  BY SMTT(30), <1>14 DEF PollPending
<1>15. CASE InsertPending
  BY Zenon, <1>15 DEF InsertPending
<1>16. CASE PollReady
  BY Zenon, <1>16 DEF PollReady
<1>17. CASE RemoveWaker
  BY Zenon, <1>17 DEF RemoveWaker
<1>18. CASE ReturnReady
  BY <1>18 DEF ReturnReady
<1>19. CASE Leave
  BY <1>19 DEF Leave
<1>20. CASE CheckClosed3
  BY Zenon, <1>20 DEF CheckClosed3
<1>21. CASE BatcherRepoll
  BY Zenon, <1>21 DEF BatcherRepoll
<1>22. CASE BatcherSpuriousPoll
  BY Zenon, <1>22 DEF BatcherSpuriousPoll
<1> HIDE DEF BatcherTypeOK, CounterOK, AgentSteps, PollSteps, BatcherGoto, AgentGoto,
         shared, poller
<1> QED
  BY <1>1, <1>2, <1>3, <1>4, <1>5, <1>6, <1>7, <1>8, <1>9, <1>10, <1>11, <1>12, <1>13,
     <1>14, <1>15, <1>16, <1>17, <1>18, <1>19, <1>20, <1>21, <1>22
     DEF BatcherNext, AgentStep, PollStep

(* Every step keeps what is known of the agents. *)
LEMMA NextAgents == BatcherTypeOK /\ AgentsOK /\ [BatcherNext]_batcherVars => AgentsOK'
<1> SUFFICES ASSUME BatcherTypeOK, AgentsOK, [BatcherNext]_batcherVars PROVE AgentsOK'
  BY Zenon
<1> USE AgentNames DEF BatcherTypeOK, AgentsOK, BatcherGoto, AgentGoto, shared, poller
<1>1. CASE UNCHANGED batcherVars
  BY Zenon, <1>1 DEF batcherVars, shared, poller
<1>2. ASSUME NEW f \in Futures, PushInsert(f) PROVE AgentsOK'
  BY Zenon, <1>2 DEF PushInsert
<1>3. ASSUME NEW f \in Futures, Fire(f) PROVE AgentsOK'
  BY Zenon, <1>3 DEF Fire
<1>4. ASSUME NEW f \in Futures, NEW k \in {"push", "fire"}, Enqueue(k, f) PROVE AgentsOK'
  BY ZenonT(60), <1>4 DEF Enqueue
<1>5. ASSUME NEW a \in Agents, TakeWaker(a) PROVE AgentsOK'
  BY Zenon, <1>5 DEF TakeWaker
<1>6. ASSUME NEW a \in Agents, WakeHost(a) PROVE AgentsOK'
  BY Zenon, <1>6 DEF WakeHost
<1>7. CASE Close
  BY Zenon, <1>7 DEF Close
<1>8. CASE Enter
  BY Zenon, <1>8 DEF Enter
<1>9. CASE CheckClosed
  BY Zenon, <1>9 DEF CheckClosed
<1>10. CASE AddWaker
  BY Zenon, <1>10 DEF AddWaker
<1>11. CASE Pop
  BY Zenon, <1>11 DEF Pop
<1>12. CASE CheckClosed2
  BY Zenon, <1>12 DEF CheckClosed2
<1>13. CASE Remove
  BY Zenon, <1>13 DEF Remove
<1>14. CASE PollPending
  BY Zenon, <1>14 DEF PollPending
<1>15. CASE InsertPending
  BY Zenon, <1>15 DEF InsertPending
<1>16. CASE PollReady
  BY Zenon, <1>16 DEF PollReady
<1>17. CASE RemoveWaker
  BY Zenon, <1>17 DEF RemoveWaker
<1>18. CASE ReturnReady
  BY Zenon, <1>18 DEF ReturnReady
<1>19. CASE Leave
  BY Zenon, <1>19 DEF Leave
<1>20. CASE CheckClosed3
  BY Zenon, <1>20 DEF CheckClosed3
<1>21. CASE BatcherRepoll
  BY Zenon, <1>21 DEF BatcherRepoll
<1>22. CASE BatcherSpuriousPoll
  BY Zenon, <1>22 DEF BatcherSpuriousPoll
<1> HIDE DEF BatcherTypeOK, AgentsOK, BatcherGoto, AgentGoto, shared, poller
<1> QED
  BY <1>1, <1>2, <1>3, <1>4, <1>5, <1>6, <1>7, <1>8, <1>9, <1>10, <1>11, <1>12, <1>13,
     <1>14, <1>15, <1>16, <1>17, <1>18, <1>19, <1>20, <1>21, <1>22
     DEF BatcherNext, AgentStep, PollStep

(* Every step keeps the waker of a parked poll reachable. *)
LEMMA NextWake ==
    BatcherTypeOK /\ AgentsOK /\ WakeOK /\ [BatcherNext]_batcherVars => WakeOK'
<1> SUFFICES ASSUME BatcherTypeOK, AgentsOK, WakeOK, [BatcherNext]_batcherVars PROVE WakeOK'
  BY Zenon
<1> USE AgentNames
        DEF BatcherTypeOK, AgentsOK, WakeOK, Notified, Coming, BatcherGoto, AgentGoto,
            shared, poller
<1>1. CASE UNCHANGED batcherVars
  BY Zenon, <1>1 DEF batcherVars, shared, poller
<1>2. ASSUME NEW f \in Futures, PushInsert(f) PROVE WakeOK'
  BY ZenonT(60), <1>2 DEF PushInsert
<1>3. ASSUME NEW f \in Futures, Fire(f) PROVE WakeOK'
  BY ZenonT(60), <1>3 DEF Fire
<1>4. ASSUME NEW f \in Futures, NEW k \in {"push", "fire"}, Enqueue(k, f) PROVE WakeOK'
  <2>1. UNCHANGED <<bpc, host, closed, hostWoken>> /\ AgentGoto(<<k, f>>, "queue", "take")
    BY Zenon, <1>4 DEF Enqueue
  <2>2. /\ apc[<<k, f>>] = "queue" /\ apc'[<<k, f>>] = "take"
        /\ \A b \in Agents : b # <<k, f>> => apc'[b] = apc[b]
    BY ZenonT(60), <2>1, AgentMoves
  <2>3. Coming' /\ (Notified => Notified')
    BY Zenon, <2>1, <2>2
  <2> QED
    BY Zenon, <2>1, <2>3
<1>5. ASSUME NEW a \in Agents, TakeWaker(a) PROVE WakeOK'
  BY <1>5 DEF TakeWaker
<1>6. ASSUME NEW a \in Agents, WakeHost(a) PROVE WakeOK'
  BY Zenon, <1>6 DEF WakeHost
<1>7. CASE Close
  BY <1>7 DEF Close
<1>8. CASE Enter
  BY Zenon, <1>8 DEF Enter
<1>9. CASE CheckClosed
  BY Zenon, <1>9 DEF CheckClosed
<1>10. CASE AddWaker
  BY Zenon, <1>10 DEF AddWaker
<1>11. CASE Pop
  BY Zenon, <1>11 DEF Pop
<1>12. CASE CheckClosed2
  BY Zenon, <1>12 DEF CheckClosed2
<1>13. CASE Remove
  BY Zenon, <1>13 DEF Remove
<1>14. CASE PollPending
  BY Zenon, <1>14 DEF PollPending
<1>15. CASE InsertPending
  BY Zenon, <1>15 DEF InsertPending
<1>16. CASE PollReady
  BY Zenon, <1>16 DEF PollReady
<1>17. CASE RemoveWaker
  BY Zenon, <1>17 DEF RemoveWaker
<1>18. CASE ReturnReady
  BY Zenon, <1>18 DEF ReturnReady
<1>19. CASE Leave
  BY Zenon, <1>19 DEF Leave
<1>20. CASE CheckClosed3
  BY Zenon, <1>20 DEF CheckClosed3
<1>21. CASE BatcherRepoll
  BY Zenon, <1>21 DEF BatcherRepoll
<1>22. CASE BatcherSpuriousPoll
  BY Zenon, <1>22 DEF BatcherSpuriousPoll
<1> HIDE DEF BatcherTypeOK, AgentsOK, WakeOK, Notified, Coming, BatcherGoto, AgentGoto,
         shared, poller
<1> QED
  BY <1>1, <1>2, <1>3, <1>4, <1>5, <1>6, <1>7, <1>8, <1>9, <1>10, <1>11, <1>12, <1>13,
     <1>14, <1>15, <1>16, <1>17, <1>18, <1>19, <1>20, <1>21, <1>22
     DEF BatcherNext, AgentStep, PollStep

(* Every step keeps a future in one place: a result is given once. *)
LEMMA NextOwned ==
    BatcherTypeOK /\ CounterOK /\ OwnedOnce /\ [BatcherNext]_batcherVars => OwnedOnce'
<1> SUFFICES ASSUME BatcherTypeOK, CounterOK, OwnedOnce, [BatcherNext]_batcherVars
             PROVE  OwnedOnce'
  BY Zenon
<1> USE AgentNames
        DEF BatcherTypeOK, CounterOK, OwnedOnce, Polled, BatcherGoto, AgentGoto, shared,
            poller
<1>1. CASE UNCHANGED batcherVars
  BY Zenon, <1>1 DEF batcherVars, shared, poller
<1>2. ASSUME NEW f \in Futures, PushInsert(f) PROVE OwnedOnce'
  <2> SUFFICES ASSUME NEW g \in Futures
               PROVE  (/\ results[g] \in {0, 1}
                       /\ apc[<<"push", g>>] = "start" => results[g] = 0 /\ g \notin pending
                            /\ ~ Polled(g)
                       /\ results[g] = 1 => g \notin pending /\ ~ Polled(g)
                       /\ Polled(g) => g \notin pending)'
    BY Zenon DEF OwnedOnce
  <2>1. CASE g = f
    BY <1>2, <2>1 DEF PushInsert
  <2>2. CASE g # f
    BY ZenonT(60), <1>2, <2>2 DEF PushInsert
  <2> QED
    BY Zenon, <2>1, <2>2
<1>3. ASSUME NEW f \in Futures, Fire(f) PROVE OwnedOnce'
  BY ZenonT(60), <1>3 DEF Fire
<1>4. ASSUME NEW f \in Futures, NEW k \in {"push", "fire"}, Enqueue(k, f) PROVE OwnedOnce'
  BY ZenonT(60), <1>4 DEF Enqueue
<1>5. ASSUME NEW a \in Agents, TakeWaker(a) PROVE OwnedOnce'
  BY ZenonT(60), <1>5 DEF TakeWaker
<1>6. ASSUME NEW a \in Agents, WakeHost(a) PROVE OwnedOnce'
  BY ZenonT(60), <1>6 DEF WakeHost
<1>7. CASE Close
  BY ZenonT(60), <1>7 DEF Close
<1>8. CASE Enter
  BY Zenon, <1>8 DEF Enter
<1>9. CASE CheckClosed
  BY Zenon, <1>9 DEF CheckClosed
<1>10. CASE AddWaker
  BY Zenon, <1>10 DEF AddWaker
<1>11. CASE Pop
  BY Zenon, <1>11 DEF Pop
<1>12. CASE CheckClosed2
  BY Zenon, <1>12 DEF CheckClosed2
<1>13. CASE Remove
  BY Zenon, <1>13 DEF Remove
<1>14. CASE PollPending
  BY Zenon, <1>14 DEF PollPending
<1>15. CASE InsertPending
  BY Zenon, <1>15 DEF InsertPending
<1>16. CASE PollReady
  BY Zenon, <1>16 DEF PollReady
<1>17. CASE RemoveWaker
  BY Zenon, <1>17 DEF RemoveWaker
<1>18. CASE ReturnReady
  <2>1. results[cur] = 0 /\ cur \notin pending
    BY Zenon, <1>18 DEF ReturnReady
  <2>2. results' = [results EXCEPT ![cur] = 1] /\ pending' = pending /\ apc' = apc
    BY <1>18, <2>1 DEF ReturnReady
  <2>3. \A g \in Futures : ~ Polled(g)'
    BY Zenon, <1>18 DEF ReturnReady
  <2>4. apc[<<"push", cur>>] # "start"
    BY Zenon, <1>18 DEF ReturnReady
  <2>5. ASSUME NEW g \in Futures
        PROVE  /\ results'[g] \in {0, 1}
               /\ apc[<<"push", g>>] = "start" => results'[g] = 0 /\ g \notin pending
               /\ results'[g] = 1 => g \notin pending
    <3> HIDE AgentNames DEF CounterOK, OwnedOnce, Polled, BatcherGoto, AgentGoto, shared, poller
    <3>1. results \in [Futures -> Nat] /\ cur \in Futures
      BY Zenon
    <3>2. CASE g = cur
      BY Zenon, <2>1, <2>2, <2>4, <3>1, <3>2
    <3>3. CASE g # cur
      <4>1. results'[g] = results[g]
        BY Zenon, <2>2, <3>1, <3>3
      <4> QED
        BY Zenon, <4>1 DEF OwnedOnce
    <3> QED
      BY Zenon, <3>2, <3>3
  <2> QED
    BY Zenon, <2>2, <2>3, <2>5
<1>19. CASE Leave
  BY Zenon, <1>19 DEF Leave
<1>20. CASE CheckClosed3
  BY Zenon, <1>20 DEF CheckClosed3
<1>21. CASE BatcherRepoll
  BY Zenon, <1>21 DEF BatcherRepoll
<1>22. CASE BatcherSpuriousPoll
  BY Zenon, <1>22 DEF BatcherSpuriousPoll
<1> HIDE DEF BatcherTypeOK, CounterOK, OwnedOnce, Polled, BatcherGoto, AgentGoto, shared,
         poller
<1> QED
  BY <1>1, <1>2, <1>3, <1>4, <1>5, <1>6, <1>7, <1>8, <1>9, <1>10, <1>11, <1>12, <1>13,
     <1>14, <1>15, <1>16, <1>17, <1>18, <1>19, <1>20, <1>21, <1>22
     DEF BatcherNext, AgentStep, PollStep

(* The id that is pushed is in the queue, and all that were there remain. *)
LEMMA EnqueueKeeps ==
    ASSUME queue \in Seq(Futures), NEW f \in Futures, NEW k, Enqueue(k, f)
    PROVE  InQueue(f)' /\ \A g : InQueue(g) => InQueue(g)'
<1>1. queue' = Append(queue, f)
  BY Zenon DEF Enqueue
<1> HIDE DEF Enqueue
<1> QED
  BY <1>1, QueueAppend DEF InQueue

(* Only the id that is popped leaves the queue. *)
LEMMA PopKeeps ==
    ASSUME queue \in Seq(Futures), queue # <<>>, Pop
    PROVE  \A g : InQueue(g) /\ g # cur' => InQueue(g)'
<1>1. queue' = Tail(queue) /\ cur' = Head(queue)
  BY Zenon DEF Pop
<1> QED
  BY Zenon, <1>1, QueueTail DEF InQueue

(* NoFutureForgotten for one future *)
Kept(f) ==
    apc[<<"push", f>>] # "start" /\ results[f] = 0 /\ bpc # "none" =>
        /\ f \in pending \/ Polled(f)
        /\ \/ InQueue(f) \/ armed[f] > 0
           \/ apc[<<"push", f>>] = "queue" \/ apc[<<"fire", f>>] = "queue"
           \/ cur = f /\ bpc \in {"closed2", "remove", "poll", "drop_waker", "ready"}

(* What a step that is not one of poll owes a future: push and a waker that have its
   id in hand keep it, or queue it. *)
LEMMA AgentKeeps ==
    ASSUME NEW g \in Futures, Kept(g), UNCHANGED <<pending, bpc, cur, results>>,
           InQueue(g) => InQueue(g)',
            armed[g] > 0 => armed'[g] > 0 \/ apc'[<<"fire", g>>] = "queue",
           apc[<<"push", g>>] = "start" => apc'[<<"push", g>>] = "start",
           \A k \in {"push", "fire"} :
               apc[<<k, g>>] = "queue" => apc'[<<k, g>>] = "queue" \/ InQueue(g)'
    PROVE  Kept(g)'
  BY Zenon DEF Kept, Polled

(* Every step keeps a future that can go on in reach of poll. *)
LEMMA NextForgotten ==
    BatcherTypeOK /\ OwnedOnce /\ NoFutureForgotten /\ [BatcherNext]_batcherVars
    => NoFutureForgotten'
<1> SUFFICES ASSUME BatcherTypeOK, OwnedOnce, [BatcherNext]_batcherVars, NEW g \in Futures,
                    Kept(g)
             PROVE  Kept(g)'
  BY Zenon DEF NoFutureForgotten, Kept
<1>3. ASSUME NEW f \in Futures, Fire(f) PROVE Kept(g)'
  <2>1. PICK x \in {"start", "done"} : AgentGoto(<<"fire", f>>, x, "queue")
    BY Zenon, <1>3 DEF Fire
  <2>2. /\ UNCHANGED <<pending, queue, bpc, cur, results>>
        /\ armed' = [armed EXCEPT ![f] = armed[f] - 1]
    BY Zenon, <1>3 DEF Fire, shared, poller
  <2>3. apc[<<"fire", f>>] = x /\ apc'[<<"fire", f>>] = "queue"
        /\ \A b \in Agents : b # <<"fire", f>> => apc'[b] = apc[b]
    BY Zenon, <2>1, AgentMoves, AgentNames DEF BatcherTypeOK
  <2>4. armed[g] > 0 => armed'[g] > 0 \/ apc'[<<"fire", g>>] = "queue"
    BY Zenon, <2>2, <2>3 DEF BatcherTypeOK
  <2> QED
    BY Zenon, <2>2, <2>3, <2>4, AgentNames, AgentKeeps DEF InQueue
<1>4. ASSUME NEW f \in Futures, NEW k \in {"push", "fire"}, Enqueue(k, f) PROVE Kept(g)'
  <2>1. InQueue(f)' /\ (InQueue(g) => InQueue(g)')
    BY Zenon, <1>4, EnqueueKeeps DEF BatcherTypeOK
  <2>2. UNCHANGED <<pending, bpc, cur, results, armed>> /\ AgentGoto(<<k, f>>, "queue", "take")
    BY Zenon, <1>4 DEF Enqueue, poller
  <2>3. apc[<<k, f>>] = "queue" /\ \A b \in Agents : b # <<k, f>> => apc'[b] = apc[b]
    BY Zenon, <2>2, AgentMoves, AgentNames DEF BatcherTypeOK
  <2>4. \A j \in {"push", "fire"} :
            <<j, g>> = <<k, f>> \/ apc'[<<j, g>>] = apc[<<j, g>>]
    BY Zenon, <2>3, AgentNames
  <2>5. \A j \in {"push", "fire"} : <<j, g>> = <<k, f>> => f = g
    BY Zenon, AgentNames
  <2>6. apc[<<"push", g>>] = "start" => apc'[<<"push", g>>] = "start"
    BY Zenon, <2>3, <2>4
  <2> QED
    BY Zenon, <2>1, <2>2, <2>4, <2>5, <2>6, AgentKeeps
<1>5. ASSUME NEW a \in Agents, TakeWaker(a) PROVE Kept(g)'
  <2>1. /\ UNCHANGED <<pending, queue, bpc, cur, results, armed>>
        /\ AgentGoto(a, "take", IF host THEN "wake" ELSE "done")
    BY Zenon, <1>5 DEF TakeWaker, poller
  <2>2. apc[a] = "take" /\ \A b \in Agents : b # a => apc'[b] = apc[b]
    BY Zenon, <2>1, AgentMoves DEF BatcherTypeOK
  <2> QED
    BY Zenon, <2>1, <2>2, AgentNames, AgentKeeps DEF InQueue
<1>6. ASSUME NEW a \in Agents, WakeHost(a) PROVE Kept(g)'
  <2>1. /\ UNCHANGED <<pending, queue, bpc, cur, results, armed>>
        /\ AgentGoto(a, "wake", "done")
    BY Zenon, <1>6 DEF WakeHost, shared
  <2>2. apc[a] = "wake" /\ \A b \in Agents : b # a => apc'[b] = apc[b]
    BY Zenon, <2>1, AgentMoves DEF BatcherTypeOK
  <2> QED
    BY Zenon, <2>1, <2>2, AgentNames, AgentKeeps DEF InQueue
<1>7. CASE Close
  <2>1. /\ UNCHANGED <<pending, queue, bpc, cur, results, armed>>
        /\ AgentGoto(Closer, "start", "take")
    BY Zenon, <1>7 DEF Close, poller
  <2>2. \A b \in Agents : b # Closer => apc'[b] = apc[b]
    BY Zenon, <2>1, AgentMoves, AgentNames DEF BatcherTypeOK
  <2> QED
    BY Zenon, <2>1, <2>2, AgentNames, AgentKeeps DEF InQueue
<1> USE AgentNames
        DEF BatcherTypeOK, OwnedOnce, Kept, Polled, InQueue, BatcherGoto, AgentGoto, shared,
            poller
<1>1. CASE UNCHANGED batcherVars
  BY Zenon, <1>1 DEF batcherVars, shared, poller
<1>2. ASSUME NEW f \in Futures, PushInsert(f) PROVE Kept(g)'
  BY <1>2 DEF PushInsert
<1>8. CASE Enter
  BY Zenon, <1>8 DEF Enter
<1>9. CASE CheckClosed
  BY Zenon, <1>9 DEF CheckClosed
<1>10. CASE AddWaker
  BY Zenon, <1>10 DEF AddWaker
<1>11. CASE Pop
  <2>1. CASE queue = <<>>
    BY Zenon, <1>11, <2>1 DEF Pop
  <2>2. CASE queue # <<>>
    <3>1. InQueue(g) /\ g # cur' => InQueue(g)'
      BY Zenon, <1>11, <2>2, PopKeeps
    <3> QED
      BY Zenon, <1>11, <2>2, <3>1 DEF Pop
  <2> QED
    BY Zenon, <2>1, <2>2
<1>12. CASE CheckClosed2
  BY Zenon, <1>12 DEF CheckClosed2
<1>13. CASE Remove
  <2>1. CASE g = cur
    BY Zenon, <1>13, <2>1 DEF Remove
  <2>2. CASE g # cur
    BY Zenon, <1>13, <2>2 DEF Remove
  <2> QED
    BY Zenon, <2>1, <2>2
<1>14. CASE PollPending
  BY <1>14 DEF PollPending
<1>15. CASE InsertPending
  BY Zenon, <1>15 DEF InsertPending
<1>16. CASE PollReady
  BY Zenon, <1>16 DEF PollReady
<1>17. CASE RemoveWaker
  BY Zenon, <1>17 DEF RemoveWaker
<1>18. CASE ReturnReady
  BY <1>18 DEF ReturnReady
<1>19. CASE Leave
  BY Zenon, <1>19 DEF Leave
<1>20. CASE CheckClosed3
  BY Zenon, <1>20 DEF CheckClosed3
<1>21. CASE BatcherRepoll
  BY Zenon, <1>21 DEF BatcherRepoll
<1>22. CASE BatcherSpuriousPoll
  BY Zenon, <1>22 DEF BatcherSpuriousPoll
<1> HIDE DEF BatcherTypeOK, OwnedOnce, Kept, Polled, InQueue, BatcherGoto, AgentGoto,
         shared, poller
<1> QED
  BY <1>1, <1>2, <1>3, <1>4, <1>5, <1>6, <1>7, <1>8, <1>9, <1>10, <1>11, <1>12, <1>13,
     <1>14, <1>15, <1>16, <1>17, <1>18, <1>19, <1>20, <1>21, <1>22
     DEF BatcherNext, AgentStep, PollStep

(* The invariant holds in every reachable state. *)
LEMMA Invariance == BatcherSpec => []BatcherOK
<1>1. BatcherOK /\ [BatcherNext]_batcherVars => BatcherOK'
  BY Zenon, BatcherType, NextAgents, NextWake, NextOwned, NextForgotten DEF BatcherOK
<1> QED
  BY BatcherOKInit, <1>1, PTL DEF BatcherSpec

(* batching.rs: no wake-up of the polling task is lost, whenever the futures'
   wakers, push and close run between the steps of poll. *)
THEOREM BatcherNoLostWake == BatcherSpec => []NoLostWake
<1>1. BatcherOK => NoLostWake
  BY Zenon DEF BatcherOK, WakeOK, Notified, Coming, NoLostWake
<1> QED
  BY <1>1, Invariance, PTL

(* batching.rs: a future that was pushed, or woken, is polled again: its id is
   queued, or it is in the hands of poll or of a waker that is about to queue it. *)
THEOREM BatcherNoFutureForgotten == BatcherSpec => []NoFutureForgotten
<1>1. BatcherOK => NoFutureForgotten
  BY Zenon DEF BatcherOK
<1> QED
  BY <1>1, Invariance, PTL

(* batching.rs: poll gives the result of a future once, however often its waker
   has queued its id. *)
THEOREM BatcherResultOnce == BatcherSpec => []ResultOnce
<1>1. ASSUME BatcherOK, NEW f \in Futures
      PROVE  /\ results[f] <= 1
             /\ results[f] = 1 => f \notin pending /\ (cur = f => bpc # "poll")
  <2>1. results[f] = 0 \/ results[f] = 1
    BY Zenon, <1>1 DEF BatcherOK, OwnedOnce
  <2>2. results[f] = 1 => f \notin pending /\ ~ Polled(f)
    BY Zenon, <1>1 DEF BatcherOK, OwnedOnce
  <2> QED
    BY <2>1, <2>2 DEF Polled
<1>2. BatcherOK => ResultOnce
  BY Zenon, <1>1 DEF ResultOnce
<1> QED
  BY <1>2, Invariance, PTL

=============================================================================
