----------------------------- MODULE SyncProofs -----------------------------
(***************************************************************************)
(* Proofs about what the threads and tasks of hala share.  The lock-free   *)
(* queue, for every set of threads and of values: no value is lost, a cell *)
(* has one claimant, and it implements a first-in first-out queue.  The    *)
(* spinning mutex, for every set of threads: its flag and its guard        *)
(* pointer are consistent, no expect fails, and it implements the abstract *)
(* mutex.  The asynchronous mutex, for every set of tasks and every number *)
(* of wakers: its locks protect what they should and no wake-up is lost.   *)
(* The pool of QuicConnPool, for every number of connections and of        *)
(* streams: a stream it hands out can send, and what it opens is pooled.   *)
(***************************************************************************)
EXTENDS Queue, SpinMutex, ConnPool, Sequences, FiniteSetTheorems, TLAPS

-----------------------------------------------------------------------------
(* The lock-free queue *)

(* What Append, Tail and the empty sequence are. *)
LEMMA AppendIs ==
    ASSUME NEW S, NEW q \in Seq(S), NEW e \in S
    PROVE  /\ Append(q, e) \in Seq(S) /\ Len(Append(q, e)) = Len(q) + 1
           /\ DOMAIN Append(q, e) = 1 .. Len(q) + 1
           /\ \A i \in 1 .. Len(q) : Append(q, e)[i] = q[i]
           /\ Append(q, e)[Len(q) + 1] = e
OBVIOUS

LEMMA TailIs ==
    ASSUME NEW S, NEW q \in Seq(S), q # <<>>
    PROVE  /\ Len(q) \in Nat \ {0} /\ Head(q) = q[1] /\ q[1] \in S
           /\ Tail(q) \in Seq(S) /\ Len(Tail(q)) = Len(q) - 1
           /\ DOMAIN Tail(q) = 1 .. Len(q) - 1
           /\ \A i \in 1 .. Len(q) - 1 : Tail(q)[i] = q[i + 1]
OBVIOUS

LEMMA SeqIs ==
    ASSUME NEW S, NEW q \in Seq(S) PROVE q \in [1 .. Len(q) -> S]
OBVIOUS

LEMMA EmptyIs ==
    ASSUME NEW S
    PROVE  /\ <<>> \in Seq(S) /\ Len(<<>>) = 0 /\ DOMAIN <<>> = {}
           /\ \A q \in Seq(S) : Len(q) \in Nat /\ (Len(q) = 0 => q = <<>>)
OBVIOUS

(* What the threads in the middle of a push or a pop know. *)
CallsInProgress ==
    /\ \A t \in Threads : qpc[t] = "insert" =>
          /\ off[t] < tail
          /\ arg[t] \in Values
          /\ arg[t] = item[off[t]]
    /\ \A t, u \in Threads :
          qpc[t] = "insert" /\ qpc[u] = "insert" /\ off[t] = off[u] => t = u
    /\ \A t \in Threads : qpc[t] \in {"load_tail", "cas"} => off[t] <= head
    /\ \A t \in Threads : qpc[t] = "cas" => off[t] < tail
    /\ \A o \in Offsets : o < tail => item[o] \in Values

(* The inductive invariant: NoValueLost and ClaimIsExclusive are not inductive
   without the facts about the threads inside a call. *)
QueueOK == QueueTypeOK /\ NoValueLost /\ ClaimIsExclusive /\ CallsInProgress

(* An empty queue satisfies the inductive invariant. *)
LEMMA QueueOKInit == QueueInit => QueueOK
BY MaxPushAssumption
   DEF QueueInit, QueueOK, QueueTypeOK, NoValueLost, ClaimIsExclusive, CallsInProgress,
       Inserting, Offsets, QueueSteps

(* Every step of every thread preserves the type invariant. *)
LEMMA NextTypeOK == QueueOK /\ [QueueNext]_queueVars => QueueTypeOK'
<1> SUFFICES ASSUME QueueOK, [QueueNext]_queueVars PROVE QueueTypeOK'
  BY Zenon
<1> USE MaxPushAssumption DEF QueueOK, QueueTypeOK, QueueSteps, Offsets, QueueGoto
<1>1. ASSUME NEW t \in Threads, NEW v \in Values, PushReserve(t, v) PROVE QueueTypeOK'
  BY <1>1 DEF PushReserve
<1>2. ASSUME NEW t \in Threads, PushInsert(t) PROVE QueueTypeOK'
  BY Zenon, <1>2 DEF PushInsert, CallsInProgress
<1>3. ASSUME NEW t \in Threads, PopCall(t) PROVE QueueTypeOK'
  BY Zenon, <1>3 DEF PopCall
<1>4. ASSUME NEW t \in Threads, PopLoadHead(t) PROVE QueueTypeOK'
  BY Zenon, <1>4 DEF PopLoadHead
<1>5. ASSUME NEW t \in Threads, PopLoadTail(t) PROVE QueueTypeOK'
  <2>1. CASE off[t] = tail
    BY Zenon, <1>5, <2>1 DEF PopLoadTail
  <2>2. CASE ~(off[t] = tail)
    BY Zenon, <1>5, <2>2 DEF PopLoadTail
  <2> QED BY Zenon, <2>1, <2>2
<1>6. ASSUME NEW t \in Threads, PopCas(t) PROVE QueueTypeOK'
  <2>1. CASE head = off[t]
    <3>1. qpc[t] = "cas" /\ head' = head + 1 /\ head < tail
      BY Zenon, <1>6, <2>1 DEF PopCas, CallsInProgress
    <3>2. qpc' = [qpc EXCEPT ![t] = "spin"]
      BY Zenon, <1>6, <2>1 DEF PopCas
    <3>3. UNCHANGED <<tail, slots, off, arg, ret, item, delivered>>
      BY Zenon, <1>6 DEF PopCas
    <3> QED BY <3>1, <3>2, <3>3
  <2>2. CASE ~(head = off[t])
    BY <1>6, <2>2 DEF PopCas, CallsInProgress
  <2> QED BY Zenon, <2>1, <2>2
<1>7. ASSUME NEW t \in Threads, SpinPop(t) PROVE QueueTypeOK'
  <2>1. qpc[t] = "spin" /\ off[t] \in Offsets
    BY <1>7 DEF SpinPop, ClaimIsExclusive
  <2> QED BY ZenonT(60), <1>7, <2>1 DEF SpinPop
<1>8. ASSUME NEW t \in Threads, LenLoadTail(t) PROVE QueueTypeOK'
  BY Zenon, <1>8 DEF LenLoadTail
<1>9. ASSUME NEW t \in Threads, LenLoadHead(t) PROVE QueueTypeOK'
  BY Zenon, <1>9 DEF LenLoadHead
<1>10. CASE UNCHANGED queueVars
  BY Zenon, <1>10 DEF queueVars
<1> QED
  BY ZenonT(60), <1>1, <1>2, <1>3, <1>4, <1>5, <1>6, <1>7, <1>8, <1>9, <1>10
     DEF QueueNext, QueueResume

(* Every step preserves what threads inside a call know: offsets are reserved
   once, and the counters only grow. *)
LEMMA NextCallsInProgress == QueueOK /\ [QueueNext]_queueVars => CallsInProgress'
<1> SUFFICES ASSUME QueueOK, [QueueNext]_queueVars PROVE CallsInProgress'
  BY Zenon
<1> USE MaxPushAssumption, NoneAssumption
    DEF QueueOK, QueueTypeOK, Offsets, QueueGoto, CallsInProgress
<1>1. ASSUME NEW t \in Threads, NEW v \in Values, PushReserve(t, v)
      PROVE  CallsInProgress'
  BY <1>1 DEF PushReserve
<1>2. ASSUME NEW t \in Threads, PushInsert(t) PROVE CallsInProgress'
  BY <1>2 DEF PushInsert
<1>3. ASSUME NEW t \in Threads, PopCall(t) PROVE CallsInProgress'
  BY ZenonT(60), <1>3 DEF PopCall
<1>4. ASSUME NEW t \in Threads, PopLoadHead(t) PROVE CallsInProgress'
  BY <1>4 DEF PopLoadHead
<1>5. ASSUME NEW t \in Threads, PopLoadTail(t) PROVE CallsInProgress'
  <2>1. CASE off[t] = tail
    <3>1. qpc[t] = "load_tail" /\ qpc' = [qpc EXCEPT ![t] = "idle"]
      BY Zenon, <1>5, <2>1 DEF PopLoadTail
    <3>2. UNCHANGED <<head, tail, off, arg, item>>
      BY ZenonT(60), <1>5 DEF PopLoadTail
    <3> QED BY ZenonT(60), <3>1, <3>2
  <2>2. CASE ~(off[t] = tail)
    BY <1>5, <2>2 DEF PopLoadTail, ClaimIsExclusive
  <2> QED BY Zenon, <2>1, <2>2
<1>6. ASSUME NEW t \in Threads, PopCas(t) PROVE CallsInProgress'
  <2>1. CASE head = off[t]
    <3>1. qpc[t] = "cas" /\ head' = head + 1 /\ qpc' = [qpc EXCEPT ![t] = "spin"]
      BY Zenon, <1>6, <2>1 DEF PopCas
    <3>2. UNCHANGED <<tail, off, arg, item>>
      BY Zenon, <1>6 DEF PopCas
    <3> QED BY <3>1, <3>2
  <2>2. CASE ~(head = off[t])
    BY SMTT(30), <1>6, <2>2 DEF PopCas
  <2> QED BY Zenon, <2>1, <2>2
<1>7. ASSUME NEW t \in Threads, SpinPop(t) PROVE CallsInProgress'
  BY <1>7 DEF SpinPop
<1>8. ASSUME NEW t \in Threads, LenLoadTail(t) PROVE CallsInProgress'
  BY <1>8 DEF LenLoadTail
<1>9. ASSUME NEW t \in Threads, LenLoadHead(t) PROVE CallsInProgress'
  BY Zenon, <1>9 DEF LenLoadHead
<1>10. CASE UNCHANGED queueVars
  BY Zenon, <1>10 DEF queueVars
<1> QED
  BY ZenonT(60), <1>1, <1>2, <1>3, <1>4, <1>5, <1>6, <1>7, <1>8, <1>9, <1>10
     DEF QueueNext, QueueResume

(* Every step preserves the exclusive ownership of claimed offsets. *)
LEMMA NextClaimIsExclusive == QueueOK /\ [QueueNext]_queueVars => ClaimIsExclusive'
<1> SUFFICES ASSUME QueueOK, [QueueNext]_queueVars PROVE ClaimIsExclusive'
  BY Zenon
<1> USE MaxPushAssumption
    DEF QueueOK, QueueTypeOK, Offsets, QueueGoto, ClaimIsExclusive
<1>1. ASSUME NEW t \in Threads, NEW v \in Values, PushReserve(t, v)
      PROVE  ClaimIsExclusive'
  BY <1>1 DEF PushReserve
<1>2. ASSUME NEW t \in Threads, PushInsert(t) PROVE ClaimIsExclusive'
  BY <1>2 DEF PushInsert
<1>3. ASSUME NEW t \in Threads, PopCall(t) PROVE ClaimIsExclusive'
  BY <1>3 DEF PopCall
<1>4. ASSUME NEW t \in Threads, PopLoadHead(t) PROVE ClaimIsExclusive'
  BY <1>4 DEF PopLoadHead
<1>5. ASSUME NEW t \in Threads, PopLoadTail(t) PROVE ClaimIsExclusive'
  <2>1. CASE off[t] = tail
    BY <1>5, <2>1 DEF PopLoadTail
  <2>2. CASE ~(off[t] = tail)
    BY <1>5, <2>2 DEF PopLoadTail
  <2> QED BY Zenon, <2>1, <2>2
<1>6. ASSUME NEW t \in Threads, PopCas(t) PROVE ClaimIsExclusive'
  <2>1. CASE head = off[t]
    <3>1. qpc[t] = "cas" /\ head' = head + 1 /\ qpc' = [qpc EXCEPT ![t] = "spin"]
      BY ZenonT(60), <1>6, <2>1 DEF PopCas
    <3>2. head < tail /\ head \in Offsets /\ head \notin delivered
      BY <2>1, <3>1 DEF CallsInProgress, NoValueLost
    <3>3. UNCHANGED <<tail, off, delivered>>
      BY Zenon, <1>6 DEF PopCas
    <3>4. head' <= tail'
      BY <3>1, <3>2, <3>3
    <3>5. \A u \in Threads : qpc'[u] = "spin" => off'[u] < head'
          /\ off'[u] \notin delivered'
      BY <2>1, <3>1, <3>2, <3>3
    <3>6. \A u, w \in Threads :
             qpc'[u] = "spin" /\ qpc'[w] = "spin" /\ off'[u] = off'[w] => u = w
      BY <2>1, <3>1, <3>2, <3>3
    <3>7. \A o \in Offsets : o < head' /\ o \notin delivered' =>
             \E u \in Threads : qpc'[u] = "spin" /\ off'[u] = o
      <4> SUFFICES ASSUME NEW o \in Offsets, o < head', o \notin delivered'
                   PROVE  \E u \in Threads : qpc'[u] = "spin" /\ off'[u] = o
        BY Zenon
      <4>1. CASE o = head
        BY Zenon, <2>1, <3>1, <3>3, <4>1
      <4>2. CASE o < head
        BY Zenon, <3>1, <3>3, <4>2
      <4> QED BY <3>1, <4>1, <4>2
    <3> QED BY Zenon, <3>4, <3>5, <3>6, <3>7
  <2>2. CASE ~(head = off[t])
    <3>1. qpc[t] = "cas" /\ qpc' = [qpc EXCEPT ![t] = "load_head"]
      BY Zenon, <1>6, <2>2 DEF PopCas
    <3>2. UNCHANGED <<head, tail, off, delivered>>
      BY Zenon, <1>6, <2>2 DEF PopCas
    <3>3. \A u \in Threads : qpc'[u] = "spin" <=> qpc[u] = "spin"
      BY Zenon, <3>1
    <3> QED BY Zenon, <3>2, <3>3
  <2> QED BY Zenon, <2>1, <2>2
<1>7. ASSUME NEW t \in Threads, SpinPop(t) PROVE ClaimIsExclusive'
  BY <1>7 DEF SpinPop
<1>8. ASSUME NEW t \in Threads, LenLoadTail(t) PROVE ClaimIsExclusive'
  BY <1>8 DEF LenLoadTail
<1>9. ASSUME NEW t \in Threads, LenLoadHead(t) PROVE ClaimIsExclusive'
  BY <1>9 DEF LenLoadHead
<1>10. CASE UNCHANGED queueVars
  BY Zenon, <1>10 DEF queueVars
<1> QED
  BY Zenon, <1>1, <1>2, <1>3, <1>4, <1>5, <1>6, <1>7, <1>8, <1>9, <1>10 DEF QueueNext, QueueResume

(* Every step keeps every reserved offset in exactly one place. *)
LEMMA NextNoValueLost == QueueOK /\ [QueueNext]_queueVars => NoValueLost'
<1> SUFFICES ASSUME QueueOK, [QueueNext]_queueVars PROVE NoValueLost'
  BY Zenon
<1> USE MaxPushAssumption, NoneAssumption
    DEF QueueOK, QueueTypeOK, Offsets, QueueGoto, NoValueLost, Inserting
<1>1. ASSUME NEW t \in Threads, NEW v \in Values, PushReserve(t, v)
      PROVE  NoValueLost'
  BY SMTT(30), <1>1 DEF PushReserve, CallsInProgress, ClaimIsExclusive
<1>2. ASSUME NEW t \in Threads, PushInsert(t) PROVE NoValueLost'
  BY <1>2 DEF PushInsert, CallsInProgress
<1>3. ASSUME NEW t \in Threads, PopCall(t) PROVE NoValueLost'
  BY ZenonT(60), <1>3 DEF PopCall
<1>4. ASSUME NEW t \in Threads, PopLoadHead(t) PROVE NoValueLost'
  BY <1>4 DEF PopLoadHead
<1>5. ASSUME NEW t \in Threads, PopLoadTail(t) PROVE NoValueLost'
  <2>1. CASE off[t] = tail
    BY SMTT(30), <1>5, <2>1 DEF PopLoadTail
  <2>2. CASE ~(off[t] = tail)
    BY <1>5, <2>2 DEF PopLoadTail
  <2> QED BY ZenonT(60), <2>1, <2>2
<1>6. ASSUME NEW t \in Threads, PopCas(t) PROVE NoValueLost'
  <2>1. CASE head = off[t]
    BY SMTT(30), <1>6, <2>1 DEF PopCas
  <2>2. CASE ~(head = off[t])
    BY SMTT(30), <1>6, <2>2 DEF PopCas
  <2> QED BY ZenonT(60), <2>1, <2>2
<1>7. ASSUME NEW t \in Threads, SpinPop(t) PROVE NoValueLost'
  BY <1>7 DEF SpinPop, ClaimIsExclusive, CallsInProgress
<1>8. ASSUME NEW t \in Threads, LenLoadTail(t) PROVE NoValueLost'
  BY Zenon, <1>8 DEF LenLoadTail
<1>9. ASSUME NEW t \in Threads, LenLoadHead(t) PROVE NoValueLost'
  BY ZenonT(60), <1>9 DEF LenLoadHead
<1>10. CASE UNCHANGED queueVars
  BY ZenonT(60), <1>10 DEF queueVars
<1> QED
  BY ZenonT(60), <1>1, <1>2, <1>3, <1>4, <1>5, <1>6, <1>7, <1>8, <1>9, <1>10
     DEF QueueNext, QueueResume

(* The inductive invariant holds in every reachable state. *)
THEOREM QueueInvariance == QueueSpec => []QueueOK
<1>1. QueueOK /\ [QueueNext]_queueVars => QueueOK'
  BY Zenon, NextTypeOK, NextCallsInProgress, NextClaimIsExclusive, NextNoValueLost DEF QueueOK
<1> QED
  BY QueueOKInit, <1>1, PTL DEF QueueSpec

(* For any threads and any number of pushes, no value that push has reserved an
   offset for is lost, overwritten, or delivered before a pop has claimed it. *)
THEOREM QueueNoValueLost == QueueSpec => []NoValueLost
BY QueueInvariance, PTL DEF QueueOK

(* For any threads and any number of pushes, a successful CAS on head gives the
   pop an offset that no other pop has and whose value is still to come. *)
THEOREM QueueClaimIsExclusive == QueueSpec => []ClaimIsExclusive
BY QueueInvariance, PTL DEF QueueOK

(* The abstract queue is a sequence of pushed values, as long as the counters
   are apart. *)
LEMMA QueueSeqType ==
  ASSUME QueueOK
  PROVE  QueueSeq \in Seq(Values) /\ Len(QueueSeq) = tail - head
<1>1. tail - head \in Nat
  BY DEF QueueOK, QueueTypeOK, ClaimIsExclusive
<1>2. \A i \in 1 .. tail - head : item[head + i - 1] \in Values
  BY <1>1, MaxPushAssumption
     DEF QueueOK, QueueTypeOK, ClaimIsExclusive, CallsInProgress, Offsets
<1>3. QueueSeq \in [1 .. tail - head -> Values]
  BY Zenon, <1>2 DEF QueueSeq
<1> QED
  BY <1>1, <1>3

(* A push's fetch_add appends its value to the abstract queue. *)
LEMMA PushAppends ==
  ASSUME QueueOK, NEW t \in Threads, NEW v \in Values, PushReserve(t, v)
  PROVE  QueueSeq' = Append(QueueSeq, v)
<1>1. QueueSeq \in Seq(Values) /\ Len(QueueSeq) = tail - head
  BY Zenon, QueueSeqType
<1>2. tail \in Nat /\ head \in Nat /\ head <= tail /\ tail < MaxPush
  BY DEF QueueOK, QueueTypeOK, ClaimIsExclusive, PushReserve
<1>3. /\ tail' = tail + 1 /\ head' = head
      /\ item' = [item EXCEPT ![tail] = v]
      /\ item \in [Offsets -> Values \cup {None}]
  BY Zenon DEF PushReserve, QueueOK, QueueTypeOK
<1>4. QueueSeq' = [i \in 1 .. (tail - head) + 1 |-> item'[head + i - 1]]
  BY <1>2, <1>3 DEF QueueSeq
<1>5. Append(QueueSeq, v) =
         [i \in 1 .. (tail - head) + 1 |->
             IF i = (tail - head) + 1 THEN v ELSE QueueSeq[i]]
  <2> DEFINE q == Append(QueueSeq, v)
  <2>1. /\ q \in Seq(Values) /\ Len(q) = (tail - head) + 1
        /\ \A i \in 1 .. tail - head : q[i] = QueueSeq[i]
        /\ q[(tail - head) + 1] = v
    BY <1>1, AppendIs
  <2>2. q \in [1 .. (tail - head) + 1 -> Values]
    BY ZenonT(60), <2>1, SeqIs
  <2> HIDE DEF q
  <2>3. q = [i \in 1 .. (tail - head) + 1 |->
                IF i = (tail - head) + 1 THEN v ELSE QueueSeq[i]]
    BY <1>2, <2>1, <2>2
  <2> QED BY ZenonT(60), <2>3 DEF q
<1>6. ASSUME NEW i \in 1 .. (tail - head) + 1
      PROVE  item'[head + i - 1] =
                IF i = (tail - head) + 1 THEN v ELSE QueueSeq[i]
  <2>1. CASE i = (tail - head) + 1
    <3>1. head + i - 1 = tail /\ tail \in Offsets
      BY <1>2, <2>1, MaxPushAssumption DEF Offsets
    <3> QED BY Zenon, <1>3, <2>1, <3>1
  <2>2. CASE i # (tail - head) + 1
    <3>1. i \in 1 .. tail - head /\ head + i - 1 \in Offsets /\ head + i - 1 # tail
      BY <1>2, <2>2, MaxPushAssumption DEF Offsets
    <3> QED BY ZenonT(60), <1>3, <2>2, <3>1 DEF QueueSeq
  <2> QED BY Zenon, <2>1, <2>2
<1> QED
  BY Zenon, <1>4, <1>5, <1>6

(* A pop's successful CAS removes the oldest value of the abstract queue, the
   one pushed at the offset it claims. *)
LEMMA PopTakesHead ==
  ASSUME QueueOK, NEW t \in Threads, PopCas(t), head = off[t]
  PROVE  /\ QueueSeq # <<>>
         /\ QueueSeq' = Tail(QueueSeq)
         /\ Head(QueueSeq) = item[head]
<1>1. QueueSeq \in Seq(Values) /\ Len(QueueSeq) = tail - head
  BY Zenon, QueueSeqType
<1>2. tail \in Nat /\ head \in Nat /\ head < tail
  BY DEF QueueOK, QueueTypeOK, CallsInProgress, PopCas, QueueGoto
<1>3. tail' = tail /\ head' = head + 1 /\ item' = item
  BY Zenon DEF PopCas
<1>4. QueueSeq # <<>>
  BY <1>1, <1>2
<1>5. Head(QueueSeq) = item[head]
  BY <1>1, <1>2 DEF QueueSeq
<1>6. QueueSeq' = [i \in 1 .. (tail - head) - 1 |-> item[head + i]]
  BY SMTT(30), <1>2, <1>3 DEF QueueSeq
<1>7. Tail(QueueSeq) = [i \in 1 .. (tail - head) - 1 |-> QueueSeq[i + 1]]
  <2> DEFINE q == Tail(QueueSeq)
  <2>1. /\ q \in Seq(Values) /\ Len(q) = (tail - head) - 1
        /\ \A i \in 1 .. (tail - head) - 1 : q[i] = QueueSeq[i + 1]
    BY ZenonT(60), <1>1, <1>4, TailIs
  <2>2. q \in [1 .. (tail - head) - 1 -> Values]
    BY Zenon, <2>1, SeqIs
  <2> HIDE DEF q
  <2>3. q = [i \in 1 .. (tail - head) - 1 |-> QueueSeq[i + 1]]
    BY Zenon, <2>1, <2>2
  <2> QED BY Zenon, <2>3 DEF q
<1>8. ASSUME NEW i \in 1 .. (tail - head) - 1
      PROVE  QueueSeq[i + 1] = item[head + i]
  BY SMTT(30), <1>2 DEF QueueSeq
<1> QED
  BY ZenonT(60), <1>4, <1>5, <1>6, <1>7, <1>8

(* Every step of the queue is a step of the FIFO queue, or leaves its state
   alone. *)
LEMMA StepRefines == QueueOK /\ QueueOK' /\ [QueueNext]_queueVars => [F!Next]_(F!vars)
<1> SUFFICES ASSUME QueueOK, QueueOK', [QueueNext]_queueVars PROVE [F!Next]_(F!vars)
  BY Zenon
<1> DEFINE phase == [t \in Threads |-> Phase(qpc[t])]
           taken == [t \in Threads |-> IF qpc[t] = "spin" THEN item[off[t]] ELSE None]
<1>0. /\ qpc \in [Threads -> QueueSteps] /\ off \in [Threads -> 0 .. MaxPush]
      /\ ret \in [Threads -> Values \cup {None}]
  BY Zenon DEF QueueOK, QueueTypeOK
<1>1. ASSUME NEW t \in Threads, NEW v \in Values, PushReserve(t, v)
      PROVE  F!Push(t, v)
  <2>1. phase[t] = "idle" /\ phase' = [phase EXCEPT ![t] = "pushing"]
    BY Zenon, <1>0, <1>1 DEF PushReserve, QueueGoto, Phase, QueueSteps
  <2>2. taken' = taken
    <3> SUFFICES ASSUME NEW u \in Threads PROVE
             (IF qpc'[u] = "spin" THEN item'[off'[u]] ELSE None)
           = (IF qpc[u] = "spin" THEN item[off[u]] ELSE None)
      BY Zenon
    <3>1. CASE u = t
      BY Zenon, <1>0, <1>1, <3>1 DEF PushReserve, QueueGoto
    <3>2. CASE u # t
      <4>1. qpc'[u] = qpc[u] /\ off'[u] = off[u]
        BY ZenonT(60), <1>0, <1>1, <3>2 DEF PushReserve, QueueGoto
      <4>2. qpc[u] = "spin" => off[u] # tail
        BY SMTT(30) DEF QueueOK, QueueTypeOK, ClaimIsExclusive
      <4>3. qpc[u] = "spin" => item'[off[u]] = item[off[u]]
        BY <1>1, <4>2 DEF PushReserve, QueueOK, QueueTypeOK, ClaimIsExclusive, Offsets
      <4> QED BY Zenon, <4>1, <4>3
    <3> QED BY Zenon, <3>1, <3>2
  <2>3. ret' = ret
    BY Zenon, <1>1 DEF PushReserve
  <2>4. QueueSeq' = Append(QueueSeq, v)
    BY Zenon, <1>1, PushAppends
  <2> QED BY Zenon, <2>1, <2>2, <2>3, <2>4 DEF F!Push
<1>2. ASSUME NEW t \in Threads, PushInsert(t) PROVE F!PushReturn(t)
  BY Zenon, <1>0, <1>2 DEF PushInsert, QueueGoto, Phase, QueueSteps, F!PushReturn, QueueSeq
<1>3. ASSUME NEW t \in Threads, PopCall(t) PROVE F!PopCall(t)
  BY Zenon, <1>0, <1>3 DEF PopCall, QueueGoto, Phase, QueueSteps, F!PopCall, QueueSeq
<1>4. ASSUME NEW t \in Threads, PopLoadHead(t) PROVE UNCHANGED F!vars
  BY Zenon, <1>0, <1>4 DEF PopLoadHead, QueueGoto, Phase, QueueSteps, F!vars, QueueSeq
<1>5. ASSUME NEW t \in Threads, PopLoadTail(t)
      PROVE  F!PopEmpty(t) \/ UNCHANGED F!vars
  <2>1. CASE off[t] = tail
    <3>1. qpc[t] = "load_tail" /\ qpc' = [qpc EXCEPT ![t] = "idle"]
      BY ZenonT(60), <1>5, <2>1 DEF PopLoadTail, QueueGoto
    <3>2. head = tail
      BY <2>1, <3>1 DEF QueueOK, QueueTypeOK, ClaimIsExclusive, CallsInProgress
    <3>3. QueueSeq = <<>>
      <4>1. QueueSeq \in Seq(Values) /\ Len(QueueSeq) = 0
        BY <3>2, QueueSeqType DEF QueueOK, QueueTypeOK
      <4> QED BY ZenonT(60), <4>1, EmptyIs
    <3>4. /\ ret' = [ret EXCEPT ![t] = None]
          /\ UNCHANGED <<head, tail, off, item>>
      BY Zenon, <1>5, <2>1 DEF PopLoadTail, QueueGoto
    <3>5. QueueSeq' = QueueSeq
      BY Zenon, <3>4 DEF QueueSeq
    <3>6. phase[t] = "popping" /\ phase' = [phase EXCEPT ![t] = "idle"]
      BY Zenon, <1>0, <3>1 DEF Phase, QueueSteps
    <3>7. taken' = taken
      BY Zenon, <1>0, <3>1, <3>4
    <3> QED BY Zenon, <3>3, <3>4, <3>5, <3>6, <3>7 DEF F!PopEmpty
  <2>2. CASE off[t] # tail
    <3>1. /\ qpc[t] = "load_tail" /\ qpc' = [qpc EXCEPT ![t] = "cas"]
          /\ UNCHANGED <<head, tail, off, item, ret>>
      BY Zenon, <1>5, <2>2 DEF PopLoadTail, QueueGoto
    <3> QED BY Zenon, <1>0, <3>1 DEF Phase, QueueSteps, F!vars, QueueSeq
  <2> QED BY Zenon, <2>1, <2>2
<1>6. ASSUME NEW t \in Threads, PopCas(t)
      PROVE  F!PopTake(t) \/ UNCHANGED F!vars
  <2>1. CASE head = off[t]
    <3>1. /\ qpc[t] = "cas" /\ qpc' = [qpc EXCEPT ![t] = "spin"]
          /\ UNCHANGED <<off, item, ret>>
      BY Zenon, <1>6, <2>1 DEF PopCas, QueueGoto
    <3>2. QueueSeq # <<>> /\ QueueSeq' = Tail(QueueSeq) /\ Head(QueueSeq) = item[head]
      BY Zenon, <1>6, <2>1, PopTakesHead
    <3>3. phase[t] = "popping" /\ phase' = [phase EXCEPT ![t] = "taken"]
      BY Zenon, <1>0, <3>1 DEF Phase, QueueSteps
    <3>4. taken' = [taken EXCEPT ![t] = Head(QueueSeq)]
      BY Zenon, <1>0, <2>1, <3>1, <3>2
    <3> QED BY Zenon, <3>1, <3>2, <3>3, <3>4 DEF F!PopTake
  <2>2. CASE head # off[t]
    <3>1. /\ qpc[t] = "cas" /\ qpc' = [qpc EXCEPT ![t] = "load_head"]
          /\ UNCHANGED <<head, tail, off, item, ret>>
      BY Zenon, <1>6, <2>2 DEF PopCas, QueueGoto
    <3> QED BY Zenon, <1>0, <3>1 DEF Phase, QueueSteps, F!vars, QueueSeq
  <2> QED BY Zenon, <2>1, <2>2
<1>7. ASSUME NEW t \in Threads, SpinPop(t) PROVE F!PopReturn(t)
  <2>1. /\ qpc[t] = "spin" /\ qpc' = [qpc EXCEPT ![t] = "idle"]
        /\ ret' = [ret EXCEPT ![t] = slots[off[t]]]
        /\ slots[off[t]] # None
        /\ UNCHANGED <<head, tail, off, item>>
    BY Zenon, <1>7 DEF SpinPop, QueueGoto
  <2>2. slots[off[t]] = item[off[t]]
    <3>1. off[t] \in Offsets /\ off[t] < tail
      BY <2>1, MaxPushAssumption DEF QueueOK, QueueTypeOK, ClaimIsExclusive, Offsets
    <3> QED BY ZenonT(60), <2>1, <3>1 DEF QueueOK, NoValueLost
  <2>3. phase[t] = "taken" /\ phase' = [phase EXCEPT ![t] = "idle"]
    BY Zenon, <1>0, <2>1 DEF Phase, QueueSteps
  <2>4. taken[t] = item[off[t]] /\ taken' = [taken EXCEPT ![t] = None]
    BY Zenon, <1>0, <2>1
  <2>5. QueueSeq' = QueueSeq
    BY Zenon, <2>1 DEF QueueSeq
  <2> QED BY Zenon, <2>1, <2>2, <2>3, <2>4, <2>5 DEF F!PopReturn
<1>8. ASSUME NEW t \in Threads, LenLoadTail(t) PROVE UNCHANGED F!vars
  BY Zenon, <1>0, <1>8 DEF LenLoadTail, QueueGoto, Phase, QueueSteps, F!vars, QueueSeq
<1>9. ASSUME NEW t \in Threads, LenLoadHead(t) PROVE UNCHANGED F!vars
  BY Zenon, <1>0, <1>9 DEF LenLoadHead, QueueGoto, Phase, QueueSteps, F!vars, QueueSeq
<1>10. CASE UNCHANGED queueVars
  BY Zenon, <1>10 DEF queueVars, F!vars, QueueSeq
<1> QED
  BY Zenon, <1>1, <1>2, <1>3, <1>4, <1>5, <1>6, <1>7, <1>8, <1>9, <1>10
     DEF QueueNext, QueueResume, F!Next

(* For any threads and any number of pushes, the concurrent queue implements an
   atomic FIFO queue: pop returns the oldest pushed value, each value once, and
   None only when the queue is empty at an instant inside the call. *)
THEOREM QueueRefinesFifo == QueueSpec => RefinesFifo
<1>1. QueueInit => F!Init
  <2> SUFFICES ASSUME QueueInit PROVE F!Init
    BY Zenon
  <2>1. QueueSeq = <<>>
    BY QueueOKInit, QueueSeqType DEF QueueInit
  <2>2. [t \in Threads |-> Phase(qpc[t])] = [t \in Threads |-> "idle"]
    BY Zenon DEF QueueInit, Phase
  <2>3. [t \in Threads |-> IF qpc[t] = "spin" THEN item[off[t]] ELSE None]
          = [t \in Threads |-> None]
    BY Zenon DEF QueueInit
  <2> QED BY Zenon, <2>1, <2>2, <2>3 DEF QueueInit, F!Init
<1> QED
  BY <1>1, QueueInvariance, StepRefines, PTL DEF QueueSpec, RefinesFifo, F!Spec

-----------------------------------------------------------------------------
(* The mutexes *)

-----------------------------------------------------------------------------
(* SpinMutex *)

(* The null guard pointer is the address of no guard. *)
LEMMA NullIsNoThread == NullGuard \notin Spinners
  BY Zenon, NoSetContainsEverything DEF NullGuard

(* MutualExclusion spelled out over the program counters, which is what the
   steps of the proof use. *)
Holds(t) == at[t] \in {"set_guard", "owner", "clear_flag"}

SpinOK ==
    /\ SpinTypeOK
    /\ \A t, u \in Spinners : Holds(t) /\ Holds(u) => t = u
    /\ flag <=> \E t \in Spinners : Holds(t)
    /\ \A t \in Spinners : guard = t <=> at[t] = "owner"

(* The initial state satisfies the invariant. *)
LEMMA SpinOKInit == SpinInit => SpinOK
  BY Zenon, NullIsNoThread DEF SpinInit, SpinOK, SpinTypeOK, Holds, SpinSteps

(* Every step of lock, try_lock and drop preserves it. *)
LEMMA SpinOKNext == SpinOK /\ [SpinNext]_spinVars => SpinOK'
<1> SUFFICES ASSUME SpinOK, [SpinNext]_spinVars PROVE SpinOK'
  BY Zenon
<1> USE NullIsNoThread DEF SpinOK, SpinTypeOK, Holds, SpinSteps, SpinGoto
<1>1. CASE UNCHANGED spinVars
  BY Zenon, <1>1 DEF spinVars
<1>2. ASSUME NEW t \in Spinners, SpinLock(t) PROVE SpinOK'
  BY <1>2 DEF SpinLock
<1>3. ASSUME NEW t \in Spinners, SpinTryLock(t) PROVE SpinOK'
  BY <1>3 DEF SpinTryLock
<1>4. ASSUME NEW t \in Spinners, TryLockFails(t) PROVE SpinOK'
  BY <1>4 DEF TryLockFails
<1>5. ASSUME NEW t \in Spinners, UnsetGuard(t) PROVE SpinOK'
  BY <1>5 DEF UnsetGuard
<1>6. ASSUME NEW t \in Spinners, LockCas(t) PROVE SpinOK'
  BY <1>6 DEF LockCas
<1>7. ASSUME NEW t \in Spinners, LockCasFails(t) PROVE SpinOK'
  BY <1>7 DEF LockCasFails
<1>8. ASSUME NEW t \in Spinners, Lockable(t) PROVE SpinOK'
  BY Zenon, <1>8 DEF Lockable
<1>9. ASSUME NEW t \in Spinners, SetGuard(t) PROVE SpinOK'
  <2>1. guard = NullGuard
    BY Zenon, <1>9 DEF SetGuard
  <2> QED
    BY <1>9, <2>1 DEF SetGuard
<1>10. ASSUME NEW t \in Spinners, ClearFlag(t) PROVE SpinOK'
  BY Zenon, <1>10 DEF ClearFlag
<1> QED
  BY ZenonT(60), <1>1, <1>2, <1>3, <1>4, <1>5, <1>6, <1>7, <1>8, <1>9, <1>10
     DEF SpinNext, SpinResume

(* The invariant says what the run checks. *)
LEMMA SpinOKImplies == SpinOK => SpinTypeOK /\ MutualExclusion
  BY Zenon DEF SpinOK, MutualExclusion, Owners, Holds

LEMMA SpinInvariance == SpinSpec => []SpinOK
  BY SpinOKInit, SpinOKNext, PTL DEF SpinSpec

(* For every set of threads at most one owns the lock, the flag is set exactly
   while one does, and the guard pointer is that of its guard. *)
THEOREM SpinMutualExclusion == SpinSpec => []MutualExclusion
  BY SpinInvariance, SpinOKImplies, PTL

(* For every set of threads the expects of lock, try_lock and drop never fail:
   no thread reaches "panic", which SpinTypeOK leaves out. *)
THEOREM SpinNoPanic == SpinSpec => []SpinTypeOK
  BY SpinInvariance, SpinOKImplies, PTL

-----------------------------------------------------------------------------
(* The refinement: owner is the thread whose compare_exchange succeeded. *)
SpinOwner == IF Owners = {} THEN NullGuard ELSE CHOOSE t \in Spinners : t \in Owners
SpinWaiting == {t \in Spinners : at[t] \in {"cas", "spin"}}

(* The owner of the abstract mutex is the one thread that holds the lock. *)
LEMMA OwnerIs ==
    ASSUME SpinOK
    PROVE  /\ \A t \in Spinners : SpinOwner = t <=> Holds(t)
           /\ SpinOwner = NullGuard <=> ~ flag
           /\ SpinOwner \in Spinners \cup {NullGuard}
<1>1. CASE Owners = {}
  BY Zenon, <1>1, NullIsNoThread DEF SpinOwner, Owners, Holds, SpinOK
<1>2. CASE Owners # {}
  <2>1. PICK t \in Spinners : t \in Owners
    BY Zenon, <1>2 DEF Owners
  <2>2. \A u \in Spinners : u \in Owners <=> u = t
    BY Zenon, <2>1 DEF SpinOK, Holds, Owners
  <2>3. (CHOOSE u \in Spinners : u \in Owners) = t
    BY Zenon, <2>1, <2>2
  <2>4. SpinOwner = t
    BY Zenon, <1>2, <2>3 DEF SpinOwner
  <2> QED
    BY Zenon, <2>1, <2>2, <2>4, NullIsNoThread DEF SpinOK, Owners, Holds
<1> QED
  BY Zenon, <1>1, <1>2

(* Every step is a step of the abstract mutex or leaves it as it is. *)
LEMMA SpinStep ==
    SpinOK /\ SpinOK' /\ [SpinNext]_spinVars => [M!Next]_<<SpinOwner, SpinWaiting, refused>>
<1> SUFFICES ASSUME SpinOK, SpinOK', [SpinNext]_spinVars
             PROVE  [M!Next]_<<SpinOwner, SpinWaiting, refused>>
  BY Zenon
<1> DEFINE abs == <<SpinOwner, SpinWaiting, refused>>
<1>a. /\ \A t \in Spinners : SpinOwner = t <=> Holds(t)
      /\ SpinOwner = NullGuard <=> ~ flag
      /\ SpinOwner \in Spinners \cup {NullGuard}
  BY Zenon, OwnerIs
<1>b. /\ \A t \in Spinners : SpinOwner' = t <=> Holds(t)'
      /\ SpinOwner' = NullGuard <=> ~ flag'
      /\ SpinOwner' \in Spinners \cup {NullGuard}
  <2>1. SpinOK' => (/\ \A t \in Spinners : SpinOwner = t <=> Holds(t)
                    /\ SpinOwner = NullGuard <=> ~ flag
                    /\ SpinOwner \in Spinners \cup {NullGuard})'
    BY OwnerIs, PTL
  <2> QED
    BY Zenon, <2>1
<1>c. at \in [Spinners -> SpinSteps] /\ at' \in [Spinners -> SpinSteps]
  BY Zenon DEF SpinOK, SpinTypeOK
<1>d. M!Next <=> \E t \in Spinners :
          \/ /\ SpinOwner # t /\ t \notin SpinWaiting
             /\ SpinWaiting' = SpinWaiting \cup {t} /\ refused' = refused \ {t}
                  /\ SpinOwner' = SpinOwner
          \/ /\ SpinOwner = NullGuard /\ t \in SpinWaiting
             /\ SpinOwner' = t /\ SpinWaiting' = SpinWaiting \ {t} /\ refused' = refused
          \/ /\ SpinOwner = NullGuard /\ t \notin SpinWaiting
             /\ SpinOwner' = t /\ refused' = refused \ {t} /\ SpinWaiting' = SpinWaiting
          \/ /\ SpinOwner \notin {t, NullGuard} /\ t \notin SpinWaiting
             /\ refused' = refused \cup {t} /\ SpinOwner' = SpinOwner
                  /\ SpinWaiting' = SpinWaiting
          \/ /\ SpinOwner = t /\ SpinOwner' = NullGuard
             /\ SpinWaiting' = SpinWaiting /\ refused' = refused
  BY Zenon DEF M!Next, M!Lock, M!Acquire, M!TryLock, M!TryLockFails, M!Unlock, SpinOwner,
     SpinWaiting
<1> HIDE DEF SpinOwner
<1>1. CASE UNCHANGED spinVars
  BY <1>1 DEF spinVars, SpinOwner, Owners, SpinWaiting
<1> USE NullIsNoThread DEF SpinGoto
<1>2. ASSUME NEW t \in Spinners, SpinLock(t) PROVE M!Next
  <2>1. SpinOwner' = SpinOwner
    BY Zenon, <1>2, <1>a, <1>b, <1>c DEF SpinLock, Holds
  <2>2. SpinOwner # t /\ t \notin SpinWaiting /\ SpinWaiting' = SpinWaiting \cup {t}
    BY Zenon, <1>2, <1>a, <1>c DEF SpinLock, Holds, SpinWaiting
  <2> QED
    BY Zenon, <1>2, <2>1, <2>2, <1>d DEF SpinLock
<1>3. ASSUME NEW t \in Spinners, SpinTryLock(t) PROVE M!Next
  <2>1. SpinOwner = NullGuard /\ SpinOwner' = t
    BY Zenon, <1>3, <1>a, <1>b, <1>c DEF SpinTryLock, Holds
  <2>2. t \notin SpinWaiting /\ SpinWaiting' = SpinWaiting
    BY Zenon, <1>3, <1>c DEF SpinTryLock, SpinWaiting
  <2> QED
    BY Zenon, <1>3, <2>1, <2>2, <1>d DEF SpinTryLock
<1>4. ASSUME NEW t \in Spinners, TryLockFails(t) PROVE M!Next
  <2>1. SpinOwner' = SpinOwner /\ SpinOwner \notin {t, NullGuard}
    BY Zenon, <1>4, <1>a, <1>b, <1>c DEF TryLockFails, Holds
  <2>2. t \notin SpinWaiting /\ SpinWaiting' = SpinWaiting
    BY Zenon, <1>4, <1>c DEF TryLockFails, SpinWaiting
  <2> QED
    BY Zenon, <1>4, <2>1, <2>2, <1>d DEF TryLockFails
<1>5. ASSUME NEW t \in Spinners, LockCas(t) PROVE M!Next
  <2>1. SpinOwner = NullGuard /\ SpinOwner' = t
    BY ZenonT(60), <1>5, <1>a, <1>b, <1>c DEF LockCas, Holds
  <2>2. t \in SpinWaiting /\ SpinWaiting' = SpinWaiting \ {t}
    BY Zenon, <1>5, <1>c DEF LockCas, SpinWaiting
  <2> QED
    BY ZenonT(60), <1>5, <2>1, <2>2, <1>d DEF LockCas
<1>6. ASSUME NEW t \in Spinners, ClearFlag(t) PROVE M!Next
  <2>1. SpinOwner = t /\ SpinOwner' = NullGuard
    BY Zenon, <1>6, <1>a, <1>b, <1>c DEF ClearFlag, Holds
  <2>2. SpinWaiting' = SpinWaiting
    BY Zenon, <1>6, <1>c DEF ClearFlag, SpinWaiting
  <2> QED
    BY Zenon, <1>6, <2>1, <2>2, <1>d DEF ClearFlag
<1>7. ASSUME NEW t \in Spinners,
             LockCasFails(t) \/ Lockable(t) \/ SetGuard(t) \/ UnsetGuard(t)
      PROVE  UNCHANGED abs
  <2>1. flag' = flag /\ refused' = refused
    BY Zenon, <1>7 DEF LockCasFails, Lockable, SetGuard, UnsetGuard
  <2>2. \A u \in Spinners : Holds(u)' <=> Holds(u)
    BY <1>7, <1>c DEF LockCasFails, Lockable, SetGuard, UnsetGuard, Holds, SpinSteps
  <2>3. SpinWaiting' = SpinWaiting
    BY Zenon, <1>7, <1>c DEF LockCasFails, Lockable, SetGuard, UnsetGuard, SpinWaiting, SpinSteps
  <2>4. SpinOwner' = SpinOwner
    BY Zenon, <2>1, <2>2, <1>a, <1>b
  <2> QED
    BY Zenon, <2>1, <2>3, <2>4
<1> QED
  BY ZenonT(60), <1>1, <1>2, <1>3, <1>4, <1>5, <1>6, <1>7 DEF SpinNext, SpinResume

(* The flag and the guard pointer implement the mutex that the rest of hala-sync
   is built on: for every set of threads, try_lock fails only while another
   thread owns the lock, and the lock is taken only while it is free. *)
THEOREM SpinRefinesMutex == SpinSpec => RefinesMutex
<1>1. SpinInit => M!Init
  BY Zenon DEF SpinInit, M!Init, Owners
<1>2. SpinOK /\ SpinOK' /\ [SpinNext]_spinVars
      => [M!Next]_<<SpinOwner, SpinWaiting, refused>>
  BY Zenon, SpinStep
<1>3. SpinSpec => M!Spec
  BY <1>1, <1>2, SpinInvariance, PTL DEF SpinSpec, M!Spec, SpinOwner, SpinWaiting
<1> QED
  BY Zenon, <1>3 DEF RefinesMutex

-----------------------------------------------------------------------------
(* AsyncMutex *)

(* The invariant is inductive with NoLostWakeup as it is: the lock of the
   wakers keeps notify from running between the second try_lock, which finds
   the lock taken, and the return of Pending. *)
AsyncOK == TypeOK /\ LocksHeld /\ NoLostWakeup

LEMMA AsyncOKInit == Init => AsyncOK
  BY NobodyAssumption DEF Init, AsyncOK, TypeOK, LocksHeld, NoLostWakeup, Parked, Steps

(* Every step of lock, of the polls and of the guard's drop preserves the type
   of the state and the placement of the two locks. *)
LEMMA NextLocksHeld ==
    TypeOK /\ LocksHeld /\ [Next]_vars => TypeOK' /\ LocksHeld'
<1> SUFFICES ASSUME TypeOK, LocksHeld, [Next]_vars PROVE TypeOK' /\ LocksHeld'
  BY Zenon
<1> USE NobodyAssumption DEF TypeOK, LocksHeld, Steps, Goto
<1>1. CASE UNCHANGED vars
  BY ZenonT(60), <1>1 DEF vars
<1>2. ASSUME NEW t \in Tasks, Lock(t) \/ Repoll(t) \/ Abandon(t) \/ SpuriousWake(t)
      PROVE  TypeOK' /\ LocksHeld'
  BY <1>2 DEF Lock, Repoll, Abandon, SpuriousWake
<1>3. ASSUME NEW t \in Tasks, Unlock(t) PROVE TypeOK' /\ LocksHeld'
  BY ZenonT(60), <1>3 DEF Unlock
<1>4. ASSUME NEW t \in Tasks, Poll(t) PROVE TypeOK' /\ LocksHeld'
  BY <1>4 DEF Poll, TryLock
<1>5. ASSUME NEW t \in Tasks, Register(t) PROVE TypeOK' /\ LocksHeld'
  BY <1>5 DEF Register
<1>6. ASSUME NEW t \in Tasks, Retry(t) PROVE TypeOK' /\ LocksHeld'
  BY ZenonT(60), <1>6 DEF Retry, TryLock
<1>7. ASSUME NEW t \in Tasks, Cancel(t) PROVE TypeOK' /\ LocksHeld'
  BY <1>7 DEF Cancel
<1>8. ASSUME NEW t \in Tasks, ReturnPending(t) PROVE TypeOK' /\ LocksHeld'
  BY Zenon, <1>8 DEF ReturnPending
<1>9. ASSUME NEW t \in Tasks, NotifyLock(t) PROVE TypeOK' /\ LocksHeld'
  BY ZenonT(60), <1>9 DEF NotifyLock
<1>10. ASSUME NEW t \in Tasks, NEW u \in Tasks, Notify(t, u) PROVE TypeOK' /\ LocksHeld'
  <2>1. pc[u] \notin {"retry", "cancel"}
    BY ZenonT(60), <1>10 DEF Notify
  <2> QED
    BY <1>10, <2>1 DEF Notify
<1>11. ASSUME NEW t \in Tasks, NotifyDone(t) PROVE TypeOK' /\ LocksHeld'
  BY <1>11 DEF NotifyDone
<1> QED
  BY ZenonT(60), <1>1, <1>2, <1>3, <1>4, <1>5, <1>6, <1>7, <1>8, <1>9, <1>10, <1>11 DEF Next, Resume

(* No step lets a task sleep that nothing is going to wake. *)
LEMMA NextNoLostWakeup == AsyncOK /\ [Next]_vars => NoLostWakeup'
<1> SUFFICES ASSUME AsyncOK, [Next]_vars, NEW s \in Tasks, Parked(s)'
             PROVE  (/\ wakers[s] > 0
                     /\ owner = Nobody =>
                           \E u \in Tasks : pc[u] \in {"notify_lock", "notify"})'
  BY Zenon DEF NoLostWakeup
<1> USE NobodyAssumption DEF AsyncOK, TypeOK, Steps, Goto, Parked
<1>1. CASE UNCHANGED vars
  BY ZenonT(60), <1>1 DEF vars, NoLostWakeup
<1>2. ASSUME NEW t \in Tasks, Lock(t) \/ Repoll(t) \/ Abandon(t) \/ SpuriousWake(t)
      PROVE  (/\ wakers[s] > 0
              /\ owner = Nobody =>
                    \E u \in Tasks : pc[u] \in {"notify_lock", "notify"})'
  BY <1>2 DEF Lock, Repoll, Abandon, SpuriousWake, NoLostWakeup
<1>3. ASSUME NEW t \in Tasks, Unlock(t)
      PROVE  (/\ wakers[s] > 0
              /\ owner = Nobody =>
                    \E u \in Tasks : pc[u] \in {"notify_lock", "notify"})'
  BY ZenonT(60), <1>3 DEF Unlock, NoLostWakeup
<1>4. ASSUME NEW t \in Tasks, Poll(t) \/ Register(t) \/ Cancel(t) \/ ReturnPending(t)
      \/ NotifyLock(t)
      PROVE  (/\ wakers[s] > 0
              /\ owner = Nobody =>
                    \E u \in Tasks : pc[u] \in {"notify_lock", "notify"})'
  BY <1>4
     DEF Poll, TryLock, Register, Cancel, ReturnPending, NotifyLock, NoLostWakeup, LocksHeld
<1>5. ASSUME NEW t \in Tasks, Retry(t)
      PROVE  (/\ wakers[s] > 0
              /\ owner = Nobody =>
                    \E u \in Tasks : pc[u] \in {"notify_lock", "notify"})'
  BY Zenon, <1>5 DEF Retry, TryLock, NoLostWakeup, LocksHeld
<1>6. ASSUME NEW t \in Tasks, NEW u \in Tasks, Notify(t, u)
      PROVE  (/\ wakers[s] > 0
              /\ owner = Nobody =>
                    \E v \in Tasks : pc[v] \in {"notify_lock", "notify"})'
  BY ZenonT(60), <1>6 DEF Notify, NoLostWakeup
<1>7. ASSUME NEW t \in Tasks, NotifyDone(t)
      PROVE  (/\ wakers[s] > 0
              /\ owner = Nobody =>
                    \E u \in Tasks : pc[u] \in {"notify_lock", "notify"})'
  <2>1. wakers[s] = 0 /\ Parked(s)
    BY Zenon, <1>7 DEF NotifyDone
  <2> QED
    BY <2>1 DEF NoLostWakeup
<1> QED
  BY ZenonT(60), <1>1, <1>2, <1>3, <1>4, <1>5, <1>6, <1>7 DEF Next, Resume

LEMMA AsyncInvariance == Spec => []AsyncOK
<1>1. AsyncOK /\ [Next]_vars => AsyncOK'
  BY Zenon, NextLocksHeld, NextNoLostWakeup DEF AsyncOK
<1> QED
  BY <1>1, AsyncOKInit, PTL DEF Spec

(* For every set of tasks the inner lock is held by the task that owns the guard
   and the lock of the wakers by the one inside its critical section. *)
THEOREM AsyncLocksHeld == Spec => []LocksHeld
<1>1. AsyncOK => LocksHeld
  BY Zenon DEF AsyncOK
<1> QED
  BY <1>1, AsyncInvariance, PTL

(* For every set of tasks, however often futures are abandoned or polled without
   having been woken: while the lock is free and a task sleeps on it, the task
   is registered and a drop of a guard is on its way to wake it. *)
THEOREM AsyncNoLostWakeup == Spec => []NoLostWakeup
<1>1. AsyncOK => NoLostWakeup
  BY ZenonT(60) DEF AsyncOK
<1> QED
  BY <1>1, AsyncInvariance, PTL

-----------------------------------------------------------------------------
(* The refinement: a task waits from its call of lock until a try_lock succeeds
   or the future is dropped. *)
AsyncWaiting == {t \in Tasks : pc[t] \in {"poll", "register", "retry", "unlock", "pending"}}

(* Where a step of one task leaves the set of the tasks at the points of S. *)
LEMMA GotoWaiting ==
    ASSUME pc \in [Tasks -> Steps], NEW t \in Tasks, NEW to, pc' = [pc EXCEPT ![t] = to],
           NEW S, NEW X, NEW Y,
           X = {u \in Tasks : pc[u] \in S}, Y = {u \in Tasks : pc'[u] \in S}
    PROVE  Y = IF to \in S THEN X \cup {t} ELSE X \ {t}
<1>1. \A u \in Tasks : pc'[u] = IF u = t THEN to ELSE pc[u]
  BY Zenon
<1> QED
  BY Zenon, <1>1

(* Every step is a step of the abstract mutex or leaves it as it is. *)
LEMMA AsyncStep ==
    AsyncOK /\ [Next]_vars => [A!AsyncNext]_<<owner, AsyncWaiting, {}>>
<1> SUFFICES ASSUME AsyncOK, [Next]_vars PROVE [A!AsyncNext]_<<owner, AsyncWaiting, {}>>
  BY Zenon
<1> DEFINE S == {"poll", "register", "retry", "unlock", "pending"}
<1>a. /\ TypeOK
      /\ \A t \in Tasks : t \in AsyncWaiting <=> pc[t] \in S
      /\ \A t \in Tasks : owner = t <=> pc[t] \in {"cancel", "owner"}
  BY Zenon DEF AsyncOK, LocksHeld, AsyncWaiting
<1>b. ASSUME NEW t \in Tasks, NEW to, pc' = [pc EXCEPT ![t] = to]
      PROVE  AsyncWaiting' = IF to \in S THEN AsyncWaiting \cup {t} ELSE AsyncWaiting \ {t}
  <2>1. AsyncWaiting' = {u \in Tasks : pc'[u] \in S}
    BY Zenon DEF AsyncWaiting
  <2>2. AsyncWaiting = {u \in Tasks : pc[u] \in S}
    BY Zenon DEF AsyncWaiting
  <2>3. pc \in [Tasks -> Steps]
    BY Zenon, <1>a DEF TypeOK
  <2> HIDE DEF S
  <2> QED
    BY <1>b, <2>1, <2>2, <2>3, GotoWaiting
<1>c. A!AsyncNext <=> \E t \in Tasks :
          \/ /\ owner # t /\ t \notin AsyncWaiting
             /\ AsyncWaiting' = AsyncWaiting \cup {t} /\ {} = {} \ {t} /\ owner' = owner
          \/ /\ owner = Nobody /\ t \in AsyncWaiting
             /\ owner' = t /\ AsyncWaiting' = AsyncWaiting \ {t}
          \/ /\ t \in AsyncWaiting /\ AsyncWaiting' = AsyncWaiting \ {t} /\ owner' = owner
          \/ /\ owner = t /\ owner' = Nobody /\ AsyncWaiting' = AsyncWaiting
  BY Zenon DEF A!AsyncNext, A!Lock, A!Acquire, A!GiveUp, A!Unlock, AsyncWaiting
<1>d. \A t : {} = {} \ {t}
  BY Zenon
<1>e. \A t : /\ t \notin AsyncWaiting => AsyncWaiting \ {t} = AsyncWaiting
            /\ t \in AsyncWaiting => AsyncWaiting \cup {t} = AsyncWaiting
  BY Zenon
<1> HIDE DEF AsyncWaiting
<1>1. CASE UNCHANGED <<owner, pc>>
  BY Zenon, <1>1 DEF AsyncWaiting
<1>2. ASSUME NEW t \in Tasks, Lock(t) PROVE A!AsyncNext
  <2>1. pc[t] = "idle" /\ pc' = [pc EXCEPT ![t] = "poll"] /\ owner' = owner
    BY Zenon, <1>2 DEF Lock, Goto
  <2> QED
    BY Zenon, <2>1, <1>a, <1>b, <1>c, <1>d
<1>3. ASSUME NEW t \in Tasks, Abandon(t) PROVE A!AsyncNext
  <2>1. pc[t] = "pending" /\ pc' = [pc EXCEPT ![t] = "idle"] /\ owner' = owner
    BY Zenon, <1>3 DEF Abandon, Goto
  <2> QED
    BY Zenon, <2>1, <1>a, <1>b, <1>c
<1>4. ASSUME NEW t \in Tasks, Unlock(t) PROVE A!AsyncNext
  <2>1. pc[t] = "owner" /\ pc' = [pc EXCEPT ![t] = "notify_lock"] /\ owner' = Nobody
    BY Zenon, <1>4 DEF Unlock, Goto
  <2>2. AsyncWaiting' = AsyncWaiting \ {t}
    BY Zenon, <2>1, <1>b
  <2>3. t \notin AsyncWaiting /\ owner = t
    BY Zenon, <2>1, <1>a
  <2> QED
    BY Zenon, <2>1, <2>2, <2>3, <1>c, <1>e
<1>5. ASSUME NEW t \in Tasks, NEW from \in {"poll", "retry"}, NEW locked \in {"owner", "cancel"},
             NEW failed \in {"register", "unlock"}, TryLock(t, from, locked, failed)
      PROVE  [A!AsyncNext]_<<owner, AsyncWaiting, {}>>
  <2>1. CASE owner = Nobody
    <3>1. pc[t] = from /\ pc' = [pc EXCEPT ![t] = locked] /\ owner' = t
      BY Zenon, <1>5, <2>1 DEF TryLock, Goto
    <3>2. t \in AsyncWaiting /\ AsyncWaiting' = AsyncWaiting \ {t}
      BY Zenon, <3>1, <1>a, <1>b
    <3> QED
      BY Zenon, <2>1, <3>1, <3>2, <1>c
  <2>2. CASE owner # Nobody
    <3>1. pc[t] = from /\ pc' = [pc EXCEPT ![t] = failed] /\ owner' = owner
      BY Zenon, <1>5, <2>2 DEF TryLock, Goto
    <3>2. AsyncWaiting' = AsyncWaiting
      BY Zenon, <3>1, <1>a, <1>b, <1>e
    <3> QED
      BY Zenon, <3>1, <3>2
  <2> QED
    BY Zenon, <2>1, <2>2
<1>6. ASSUME NEW t \in Tasks, NEW from, NEW to, Goto(t, from, to), owner' = owner,
             from \in S <=> to \in S
      PROVE  UNCHANGED <<owner, AsyncWaiting>>
  <2>1. pc[t] = from /\ pc' = [pc EXCEPT ![t] = to]
    BY Zenon, <1>6 DEF Goto
  <2> HIDE DEF S
  <2>2. AsyncWaiting' = AsyncWaiting
    <3>0. t \in AsyncWaiting <=> to \in S
      BY Zenon, <2>1, <1>6, <1>a
    <3>1. CASE to \in S
      BY Zenon, <3>0, <3>1, <2>1, <1>b, <1>e
    <3>2. CASE to \notin S
      BY Zenon, <3>0, <3>2, <2>1, <1>b, <1>e
    <3> QED
      BY Zenon, <3>1, <3>2
  <2> QED
    BY Zenon, <1>6, <2>2
<1>7. ASSUME NEW t \in Tasks,
             Repoll(t) \/ Register(t) \/ Cancel(t) \/ ReturnPending(t) \/ NotifyLock(t)
               \/ NotifyDone(t)
      PROVE  UNCHANGED <<owner, AsyncWaiting>>
  BY Zenon, <1>6, <1>7 DEF Repoll, Register, Cancel, ReturnPending, NotifyLock, NotifyDone
<1>8. ASSUME NEW t \in Tasks, SpuriousWake(t) \/ (\E u \in Tasks : Notify(t, u))
      PROVE  UNCHANGED <<owner, pc>>
  BY Zenon, <1>8 DEF SpuriousWake, Notify
<1>9. ASSUME NEW t \in Tasks, Poll(t) \/ Retry(t)
      PROVE  [A!AsyncNext]_<<owner, AsyncWaiting, {}>>
  BY Zenon, <1>5, <1>9 DEF Poll, Retry
<1>10. CASE UNCHANGED vars
  BY Zenon, <1>1, <1>10 DEF vars
<1> QED
  BY ZenonT(60), <1>1, <1>2, <1>3, <1>4, <1>7, <1>8, <1>9, <1>10 DEF Next, Resume

(* For every set of tasks, the asynchronous mutex implements the abstract one:
   a task owns it only from a time it was free, one at a time, and a future that
   is dropped while it waits leaves the lock as it is. *)
THEOREM AsyncRefinesMutex == Spec => RefinesAsyncMutex
<1>1. Init => A!Init
  BY Zenon DEF Init, A!Init
<1>2. AsyncOK /\ [Next]_vars => [A!AsyncNext]_<<owner, AsyncWaiting, {}>>
  BY Zenon, AsyncStep
<1>3. Spec => A!AsyncSpec
  BY <1>1, <1>2, AsyncInvariance, PTL DEF Spec, A!AsyncSpec, AsyncWaiting
<1> QED
  BY Zenon, <1>3 DEF RefinesAsyncMutex

(* The tasks about to lock the wakers, in poll or in the drop of the guard. *)
WakersWaiting == {t \in Tasks : pc[t] \in {"register", "notify_lock"}}

(* Every step is a step of an abstract mutex on the wakers or leaves it as it is. *)
LEMMA WakersStep ==
    AsyncOK /\ [Next]_vars => [W!Next]_<<wlock, WakersWaiting, {}>>
<1> SUFFICES ASSUME AsyncOK, [Next]_vars PROVE [W!Next]_<<wlock, WakersWaiting, {}>>
  BY Zenon
<1> DEFINE S == {"register", "notify_lock"}
<1>a. /\ pc \in [Tasks -> Steps]
      /\ \A t \in Tasks : t \in WakersWaiting <=> pc[t] \in S
      /\ \A t \in Tasks : wlock = t <=> pc[t] \in {"retry", "cancel", "unlock", "notify"}
  BY Zenon DEF AsyncOK, LocksHeld, TypeOK, WakersWaiting
<1>b. ASSUME NEW t \in Tasks, NEW to, pc' = [pc EXCEPT ![t] = to]
      PROVE  WakersWaiting' = IF to \in S THEN WakersWaiting \cup {t} ELSE WakersWaiting \ {t}
  <2>1. WakersWaiting' = {u \in Tasks : pc'[u] \in S}
    BY Zenon DEF WakersWaiting
  <2>2. WakersWaiting = {u \in Tasks : pc[u] \in S}
    BY Zenon DEF WakersWaiting
  <2> HIDE DEF S
  <2> QED
    BY <1>a, <1>b, <2>1, <2>2, GotoWaiting
<1>c. \A t \in Tasks :
          \/ /\ wlock # t /\ t \notin WakersWaiting
             /\ WakersWaiting' = WakersWaiting \cup {t} /\ {} = {} \ {t} /\ wlock' = wlock
          \/ /\ wlock = Nobody /\ t \in WakersWaiting
             /\ wlock' = t /\ WakersWaiting' = WakersWaiting \ {t}
          \/ /\ wlock = t /\ wlock' = Nobody /\ WakersWaiting' = WakersWaiting
          => W!Next
  BY Zenon DEF W!Next, W!Lock, W!Acquire, W!Unlock, WakersWaiting
<1>d. \A t : {} = {} \ {t}
  BY Zenon
<1>e. \A t : t \notin WakersWaiting => WakersWaiting \ {t} = WakersWaiting
  BY Zenon
<1> HIDE DEF WakersWaiting
<1>1. CASE UNCHANGED <<wlock, pc>>
  BY Zenon, <1>1 DEF WakersWaiting
<1>2. ASSUME NEW t \in Tasks, NEW from \in {"poll", "owner"}, NEW to \in S,
             Goto(t, from, to), wlock' = wlock
      PROVE  W!Next
  <2>1. pc[t] = from /\ pc' = [pc EXCEPT ![t] = to]
    BY Zenon, <1>2 DEF Goto
  <2>2. wlock # t /\ t \notin WakersWaiting
    BY Zenon, <2>1, <1>a
  <2>3. WakersWaiting' = WakersWaiting \cup {t}
    BY Zenon, <2>1, <1>b
  <2> QED
    BY Zenon, <1>2, <2>2, <2>3, <1>c, <1>d
<1>3. ASSUME NEW t \in Tasks, NEW from \in S, NEW to \in {"retry", "notify"},
             wlock = Nobody, Goto(t, from, to), wlock' = t
      PROVE  W!Next
  <2>1. pc[t] = from /\ pc' = [pc EXCEPT ![t] = to]
    BY Zenon, <1>3 DEF Goto
  <2>2. t \in WakersWaiting
    BY Zenon, <2>1, <1>a
  <2>3. WakersWaiting' = WakersWaiting \ {t}
    BY Zenon, <2>1, <1>b
  <2> QED
    BY Zenon, <1>3, <2>2, <2>3, <1>c
<1>4. ASSUME NEW t \in Tasks, NEW from, NEW to, Goto(t, from, to), from \notin S, to \notin S
      PROVE  WakersWaiting' = WakersWaiting
  <2>1. pc[t] = from /\ pc' = [pc EXCEPT ![t] = to]
    BY Zenon, <1>4 DEF Goto
  <2> HIDE DEF S
  <2>2. t \notin WakersWaiting
    BY Zenon, <2>1, <1>4, <1>a
  <2>3. WakersWaiting' = WakersWaiting \ {t}
    BY Zenon, <2>1, <1>4, <1>b
  <2> QED
    BY Zenon, <2>2, <2>3, <1>e
<1>5. ASSUME NEW t \in Tasks, NEW from \in {"cancel", "unlock", "notify"},
             NEW to \in {"owner", "pending", "idle"}, Goto(t, from, to), wlock' = Nobody
      PROVE  W!Next
  <2>1. pc[t] = from
    BY Zenon, <1>5 DEF Goto
  <2>2. wlock = t
    BY Zenon, <2>1, <1>a
  <2>3. from \notin S /\ to \notin S
    BY Zenon
  <2>4. WakersWaiting' = WakersWaiting
    BY Zenon, <2>3, <1>4, <1>5
  <2> QED
    BY Zenon, <1>5, <2>2, <2>4, <1>c
<1>6. ASSUME NEW t \in Tasks, Poll(t) PROVE [W!Next]_<<wlock, WakersWaiting, {}>>
  <2>1. CASE owner = Nobody
    BY Zenon, <1>6, <2>1, <1>4 DEF Poll, TryLock
  <2>2. CASE owner # Nobody
    BY Zenon, <1>6, <2>2, <1>2 DEF Poll, TryLock
  <2> QED
    BY Zenon, <2>1, <2>2
<1>7. ASSUME NEW t \in Tasks, Lock(t) \/ Repoll(t) \/ Abandon(t) \/ Retry(t)
      PROVE  UNCHANGED <<wlock, WakersWaiting>>
  BY Zenon, <1>4, <1>7 DEF Lock, Repoll, Abandon, Retry, TryLock
<1>8. ASSUME NEW t \in Tasks, SpuriousWake(t) \/ (\E u \in Tasks : Notify(t, u))
      PROVE  UNCHANGED <<wlock, pc>>
  BY Zenon, <1>8 DEF SpuriousWake, Notify
<1>9. ASSUME NEW t \in Tasks, Unlock(t) \/ Register(t) \/ NotifyLock(t) PROVE W!Next
  BY Zenon, <1>2, <1>3, <1>9 DEF Unlock, Register, NotifyLock
<1>10. ASSUME NEW t \in Tasks, Cancel(t) \/ ReturnPending(t) \/ NotifyDone(t) PROVE W!Next
  BY Zenon, <1>5, <1>10 DEF Cancel, ReturnPending, NotifyDone
<1>11. CASE UNCHANGED vars
  BY Zenon, <1>1, <1>11 DEF vars
<1> QED
  BY ZenonT(60), <1>1, <1>6, <1>7, <1>8, <1>9, <1>10, <1>11 DEF Next, Resume

(* For every set of tasks, poll and the guard's drop use the lock of the wakers
   as an abstract mutex is used: no task locks what it has, or unlocks what it
   has not. *)
THEOREM AsyncUsesWakersLock == Spec => UsesWakersLock
<1>1. Init => W!Init
  BY Zenon DEF Init, W!Init
<1>2. AsyncOK /\ [Next]_vars => [W!Next]_<<wlock, WakersWaiting, {}>>
  BY Zenon, WakersStep
<1>3. Spec => W!Spec
  BY <1>1, <1>2, AsyncInvariance, PTL DEF Spec, W!Spec, WakersWaiting
<1> QED
  BY Zenon, <1>3 DEF UsesWakersLock

-----------------------------------------------------------------------------
(* QuicConnPool *)

(* The streams below the n-th in some states are finitely many, fewer than n. *)
LEMMA BelowIsFinite ==
    ASSUME NEW s, NEW n \in Nat \ {0}, NEW S
    PROVE  /\ IsFiniteSet(Below(s, n, S)) /\ Cardinality(Below(s, n, S)) \in Nat
           /\ Cardinality(Below(s, n, S)) <= n - 1
<1>1. IsFiniteSet(1 .. (n - 1)) /\ Cardinality(1 .. (n - 1)) = n - 1
  BY FS_Interval
<1>2. Below(s, n, S) \in SUBSET (1 .. (n - 1))
  BY Zenon DEF Below
<1> HIDE DEF Below
<1>3. IsFiniteSet(Below(s, n, S)) /\ Cardinality(Below(s, n, S)) <= n - 1
  BY Zenon, <1>1, <1>2, FS_Subset
<1> QED
  BY Zenon, <1>3, FS_CardinalityType

(* Two disjoint sets of states are counted one after the other. *)
LEMMA BelowOfTwo ==
    ASSUME NEW s, NEW n \in Nat \ {0}, NEW S, NEW T, S \cap T = {}
    PROVE  Cardinality(Below(s, n, S \cup T))
              = Cardinality(Below(s, n, S)) + Cardinality(Below(s, n, T))
<1>1. /\ Below(s, n, S \cup T) = Below(s, n, S) \cup Below(s, n, T)
      /\ Below(s, n, S) \cap Below(s, n, T) = {}
  BY Zenon DEF Below
<1>2. /\ IsFiniteSet(Below(s, n, S)) /\ Cardinality(Below(s, n, S)) \in Nat
      /\ IsFiniteSet(Below(s, n, T)) /\ Cardinality(Below(s, n, T)) \in Nat
  BY Zenon, BelowIsFinite
<1>3. ASSUME NEW X, NEW Y, IsFiniteSet(X), IsFiniteSet(Y), X \cap Y = {},
             Cardinality(X) \in Nat, Cardinality(Y) \in Nat
      PROVE  Cardinality(X \cup Y) = Cardinality(X) + Cardinality(Y)
  <2>1. Cardinality(X \cup Y) = Cardinality(X) + Cardinality(Y) - Cardinality(X \cap Y)
    BY <1>3, FS_Union
  <2>2. Cardinality(X \cap Y) = 0
    BY Zenon, <1>3, FS_EmptySet
  <2> QED
    BY <1>3, <2>1, <2>2
<1> HIDE DEF Below
<1> QED
  BY Zenon, <1>1, <1>2, <1>3

(* What becomes of the count when one stream changes. *)
LEMMA BelowExcept ==
    ASSUME NEW s \in Seq(Status), NEW i \in DOMAIN s, NEW v \in Status,
           NEW n \in 1 .. (Len(s) + 1), NEW S
    PROVE  LET t == [s EXCEPT ![i] = v]
           IN  /\ i < n /\ v \in S /\ s[i] \notin S
                     => Cardinality(Below(t, n, S)) = Cardinality(Below(s, n, S)) + 1
               /\ i < n /\ v \notin S /\ s[i] \in S
                     => Cardinality(Below(t, n, S)) = Cardinality(Below(s, n, S)) - 1
               /\ ~(i < n) \/ (v \in S <=> s[i] \in S)
                     => Cardinality(Below(t, n, S)) = Cardinality(Below(s, n, S))
<1> DEFINE t == [s EXCEPT ![i] = v]
<1>1. n \in Nat \ {0} /\ i \in Nat \ {0} /\ Len(s) \in Nat /\ n <= Len(s) + 1
  OBVIOUS
<1>2. IsFiniteSet(Below(s, n, S)) /\ Cardinality(Below(s, n, S)) \in Nat
  BY Zenon, <1>1, BelowIsFinite
<1>3. ASSUME i < n, v \in S, s[i] \notin S
      PROVE  i \notin Below(s, n, S) /\ Below(t, n, S) = Below(s, n, S) \cup {i}
  BY <1>1, <1>3 DEF Below
<1>4. ASSUME i < n, v \notin S, s[i] \in S
      PROVE  i \in Below(s, n, S) /\ Below(t, n, S) = Below(s, n, S) \ {i}
  BY <1>1, <1>4 DEF Below
<1>5. ASSUME ~(i < n) \/ (v \in S <=> s[i] \in S) PROVE Below(t, n, S) = Below(s, n, S)
  BY <1>1, <1>5 DEF Below
<1> HIDE DEF Below, t
<1>6. CASE i < n /\ v \in S /\ s[i] \notin S
  BY Zenon, <1>2, <1>3, <1>6, FS_AddElement DEF t
<1>7. CASE i < n /\ v \notin S /\ s[i] \in S
  BY ZenonT(60), <1>2, <1>4, <1>7, FS_RemoveElement DEF t
<1>8. CASE ~(i < n) \/ (v \in S <=> s[i] \in S)
  BY Zenon, <1>5, <1>8 DEF t
<1> QED
  BY Zenon, <1>6, <1>7, <1>8

(* A stream that is opened is the last, and counted as open. *)
LEMMA BelowAppend ==
    ASSUME NEW s \in Seq(Status), NEW S
    PROVE  LET t == Append(s, "open")
           IN  /\ \A n \in 1 .. (Len(s) + 1) : Below(t, n, S) = Below(s, n, S)
               /\ Cardinality(Below(t, Len(s) + 2, S))
                     = IF "open" \in S THEN Cardinality(Below(s, Len(s) + 1, S)) + 1
                                       ELSE Cardinality(Below(s, Len(s) + 1, S))
<1> DEFINE t == Append(s, "open")  m == Len(s) + 1
<1>0. Len(s) \in Nat /\ m \in Nat \ {0}
  OBVIOUS
<1>1. ASSUME NEW n \in 1 .. m PROVE Below(t, n, S) = Below(s, n, S)
  BY <1>0 DEF Below
<1>2. /\ "open" \in S => Below(t, Len(s) + 2, S) = Below(s, m, S) \cup {m}
      /\ "open" \notin S => Below(t, Len(s) + 2, S) = Below(s, m, S)
      /\ m \notin Below(s, m, S)
  BY <1>0 DEF Below
<1> HIDE DEF t, m
<1>3. IsFiniteSet(Below(s, m, S))
  BY Zenon, <1>0, BelowIsFinite
<1> HIDE DEF Below
<1>4. Cardinality(Below(t, Len(s) + 2, S))
        = IF "open" \in S THEN Cardinality(Below(s, m, S)) + 1 ELSE Cardinality(Below(s, m, S))
  BY Zenon, <1>2, <1>3, FS_AddElement
<1> QED
  BY Zenon, <1>1, <1>4 DEF t, m

(* The states of streams that quiche knows, and of those closed before they were sent on *)
Made == {"sent", "closing", "finished"}
Unsent == {"closed", "closing"}

(* What may become of a stream: sent on or closed, closed again, finished *)
Moves(was, is) ==
    \/ was = "open" /\ is \in {"sent", "closed"}
    \/ was = "closed" /\ is = "closing"
    \/ was \in {"sent", "closing"} /\ is = "finished"

(* When a stream moves on, the room below an id does not shrink, nor does the number
   of the streams in use grow. *)
LEMMA MoveKeeps ==
    ASSUME NEW s \in Seq(Status), NEW i \in DOMAIN s, NEW v \in Status, Moves(s[i], v)
    PROVE  LET t == [s EXCEPT ![i] = v]
           IN  /\ t \in Seq(Status) /\ Len(t) = Len(s) /\ DOMAIN t = DOMAIN s
               /\ \A n \in 1 .. (Len(s) + 1) :
                      Cardinality(Below(s, Len(s) + 1, {"finished"})) + Cardinality(Below(s, n, Unsent))
                        <= Cardinality(Below(t, Len(s) + 1, {"finished"})) + Cardinality(Below(t, n, Unsent))
               /\ Cardinality(Below(s, Len(s) + 1, {"finished"}))
                     <= Cardinality(Below(t, Len(s) + 1, {"finished"}))
               /\ Cardinality(Below(t, Len(s) + 1, {"open", "sent"}))
                     <= Cardinality(Below(s, Len(s) + 1, {"open", "sent"}))
<1> DEFINE t == [s EXCEPT ![i] = v]  m == Len(s) + 1
<1>0. /\ Len(s) \in Nat /\ m \in Nat \ {0} /\ m \in 1 .. m /\ i < m
      /\ t \in Seq(Status) /\ Len(t) = Len(s) /\ DOMAIN t = DOMAIN s
  OBVIOUS
<1>a. ASSUME NEW n \in 1 .. m, NEW S
      PROVE  /\ i < n /\ v \in S /\ s[i] \notin S
                   => Cardinality(Below(t, n, S)) = Cardinality(Below(s, n, S)) + 1
             /\ i < n /\ v \notin S /\ s[i] \in S
                   => Cardinality(Below(t, n, S)) = Cardinality(Below(s, n, S)) - 1
             /\ ~(i < n) \/ (v \in S <=> s[i] \in S)
                   => Cardinality(Below(t, n, S)) = Cardinality(Below(s, n, S))
  BY BelowExcept
<1>b. /\ s[i] \notin {"finished"} /\ (v \in {"finished"} <=> v = "finished")
      /\ v \in Unsent /\ s[i] \notin Unsent <=> v = "closed"
      /\ v \notin Unsent /\ s[i] \in Unsent <=> s[i] = "closing"
      /\ v \in {"open", "sent"} => s[i] \in {"open", "sent"}
  BY DEF Moves, Unsent
<1> HIDE DEF t, m, Unsent, Status
<1>1. /\ v = "finished" => Cardinality(Below(t, m, {"finished"}))
                              = Cardinality(Below(s, m, {"finished"})) + 1
      /\ v # "finished" => Cardinality(Below(t, m, {"finished"}))
                              = Cardinality(Below(s, m, {"finished"}))
  BY Zenon, <1>0, <1>a, <1>b
<1>2. ASSUME NEW n \in 1 .. m
      PROVE  /\ i < n /\ v = "closed"
                   => Cardinality(Below(t, n, Unsent)) = Cardinality(Below(s, n, Unsent)) + 1
             /\ i < n /\ s[i] = "closing"
                   => Cardinality(Below(t, n, Unsent)) = Cardinality(Below(s, n, Unsent)) - 1
             /\ ~(i < n) \/ (v # "closed" /\ s[i] # "closing")
                   => Cardinality(Below(t, n, Unsent)) = Cardinality(Below(s, n, Unsent))
  BY Zenon, <1>a, <1>b
<1>3. \/ Cardinality(Below(t, m, {"open", "sent"})) = Cardinality(Below(s, m, {"open", "sent"}))
      \/ Cardinality(Below(t, m, {"open", "sent"})) = Cardinality(Below(s, m, {"open", "sent"})) - 1
  BY Zenon, <1>0, <1>a, <1>b
<1>4. /\ Cardinality(Below(s, m, {"finished"})) \in Nat
      /\ Cardinality(Below(s, m, {"open", "sent"})) \in Nat
  BY Zenon, <1>0, BelowIsFinite
<1>5. ASSUME NEW n \in 1 .. m PROVE Cardinality(Below(s, n, Unsent)) \in Nat
  <2>1. n \in Nat \ {0}
    BY <1>0
  <2> QED
    BY Zenon, <2>1, BelowIsFinite
<1>6. s[i] = "closing" => v = "finished"
  BY Zenon DEF Moves
<1>7. ASSUME NEW n \in 1 .. m
      PROVE  Cardinality(Below(s, m, {"finished"})) + Cardinality(Below(s, n, Unsent))
               <= Cardinality(Below(t, m, {"finished"})) + Cardinality(Below(t, n, Unsent))
  BY <1>1, <1>2, <1>4, <1>5, <1>6
<1>8. /\ Cardinality(Below(s, m, {"finished"})) <= Cardinality(Below(t, m, {"finished"}))
      /\ Cardinality(Below(t, m, {"open", "sent"})) <= Cardinality(Below(s, m, {"open", "sent"}))
  BY <1>1, <1>3, <1>4
<1> QED
  BY Zenon, <1>0, <1>7, <1>8 DEF t, m

(* The connections the loop has looked at or still has to look at are the pool's,
   those it found closed are closed, and the one it acts on is the pool's. *)
LoopOK ==
    /\ todo \subseteq conns /\ closed \subseteq conns
    /\ \A c \in closed : state[c] = "closed"
    /\ stage \in {"left", "open"} => conn \in conns

(* The connections that are made are the pool's, and only one that is open has
   streams. *)
ConnsOK ==
    \A c \in Conns :
        /\ state[c] = "new" <=> c \notin conns
        /\ state[c] # "open" => streams[c] = << >> /\ opened[c] = 0

(* The streams quiche knows have ids that it counts as opened. *)
MadeOK ==
    \A c \in Conns : \A i \in DOMAIN streams[c] : streams[c][i] \in Made => i < opened[c]

(* One more stream of a connection can be used, as those before it can. *)
Room(c) ==
    /\ Len(streams[c]) + 1 < Limit(c) + Number(c, Unsent)
    /\ Number(c, {"open", "sent"}) + 1 < MaxStreams

(* What the owner saw of a connection that is open still holds. *)
StreamLeft == stage = "open" /\ state[conn] = "open" => Room(conn)

(* The streams of a connection can be used, apart from those closed unsent. *)
CanSend(c) ==
    /\ \A i \in DOMAIN streams[c] :
           streams[c][i] = "open"
               => i < Limit(c) + Cardinality(Below(streams[c], i, Unsent))
    /\ Number(c, {"open", "sent"}) < MaxStreams

(* The pool is finite, and not full when a connection is made. *)
RoomLeft ==
    /\ IsFiniteSet(conns)
    /\ Cardinality(conns) <= MaxConns
    /\ stage = "connect" => Cardinality(conns) < MaxConns

(* The inductive invariant without the streams *)
PoolOK ==
    /\ conns \in SUBSET Conns
    /\ state \in [Conns -> {"new", "open", "closed"}]
    /\ streams \in [Conns -> Seq(Status)]
    /\ opened \in [Conns -> Nat]
    /\ stage \in {"begin", "next", "left", "connect", "open", "done"}
    /\ todo \in SUBSET Conns /\ closed \in SUBSET Conns
    /\ conn \in Conns \cup {NoConn}
    /\ LoopOK /\ ConnsOK /\ MadeOK

(* The invariant of the streams *)
StreamsOK == StreamLeft /\ \A c \in Conns : CanSend(c)

(* If peer_streams_left_bidi is positive there is room for one more stream: the ids
   from the largest that quiche knows on are open or closed unsent, those below it
   are at least as many as are sent or finished. *)
LEMMA LeftIsRoom ==
    ASSUME PoolOK, NEW c \in Conns, PeerStreamsLeft(c) > 0 PROVE Room(c)
<1> DEFINE s == streams[c]  o == opened[c]  m == Len(s) + 1  num(S) == Number(c, S)
           nO == num({"open"})  nS == num({"sent"})  nF == num({"finished"})  nU == num(Unsent)
<1>1. s \in Seq(Status) /\ o \in Nat /\ Len(s) \in Nat /\ m \in Nat \ {0} /\ DOMAIN s = 1 .. Len(s)
  BY DEF PoolOK
<1>2. /\ \A i \in DOMAIN s : s[i] \in Made => i < o
      /\ \A i \in DOMAIN s : s[i] \in Status
      /\ m - 1 = Len(s)
  BY <1>1 DEF PoolOK, MadeOK
<1>a. ASSUME NEW S PROVE num(S) = Cardinality(Below(s, m, S))
  BY Zenon DEF Number
<1> HIDE DEF s, o, m, num
<1>b. ASSUME NEW S, NEW T, S \cap T = {} PROVE num(S \cup T) = num(S) + num(T)
  <2>1. Cardinality(Below(s, m, S \cup T)) = Cardinality(Below(s, m, S)) + Cardinality(Below(s, m, T))
    BY <1>1, <1>b, BelowOfTwo
  <2> QED
    BY Zenon, <1>a, <2>1
<1>c. ASSUME NEW S PROVE num(S) \in Nat /\ IsFiniteSet(Below(s, m, S))
  BY Zenon, <1>1, <1>a, BelowIsFinite
<1>d. ASSUME NEW a \in Nat, NEW b \in Int
      PROVE  IsFiniteSet(a .. b) /\ Cardinality(a .. b) = IF a > b THEN 0 ELSE b - a + 1
  BY FS_Interval
<1>3. num({"open", "sent"}) = nO + nS
  <2>1. {"open", "sent"} = {"open"} \cup {"sent"} /\ {"open"} \cap {"sent"} = {}
    BY Zenon
  <2> QED
    BY Zenon, <1>b, <2>1
<1>4. nF + nS <= (IF o = 0 THEN 0 ELSE o - 1)
  <2> DEFINE b == o - 1
  <2>0. b \in Int /\ (1 > b <=> o <= 1)
    BY <1>1
  <2>1. Below(s, m, {"finished"} \cup {"sent"}) \subseteq 1 .. b
    <3>1. ASSUME NEW i \in 1 .. (m - 1), s[i] \in {"finished"} \cup {"sent"} PROVE i \in 1 .. b
      <4>1. i \in DOMAIN s /\ s[i] \in Made
        BY Zenon, <1>1, <1>2, <3>1 DEF Made
      <4> QED
        BY <1>1, <1>2, <4>1
    <3> QED
      BY Zenon, <3>1 DEF Below
  <2> HIDE DEF b
  <2>2. IsFiniteSet(1 .. b) /\ Cardinality(1 .. b) = IF 1 > b THEN 0 ELSE b - 1 + 1
    BY <1>d, <2>0
  <2>3. Cardinality(Below(s, m, {"finished"} \cup {"sent"})) <= Cardinality(1 .. b)
    BY Zenon, <2>1, <2>2, FS_Subset
  <2>4. {"finished"} \cap {"sent"} = {}
    BY Zenon
  <2>5. Cardinality(Below(s, m, {"finished"} \cup {"sent"})) = nF + nS
    BY Zenon, <1>a, <1>b, <2>4
  <2> QED
    BY <1>1, <1>c, <2>0, <2>2, <2>3, <2>5 DEF b
<1>5. Len(s) + 1 <= (IF o = 0 THEN 1 ELSE o) + nO + nU
  <2> DEFINE a == IF o = 0 THEN 1 ELSE o
  <2>0. a \in Nat \ {0} /\ o <= a /\ a = IF o = 0 THEN 1 ELSE o
    BY <1>1
  <2> HIDE DEF a
  <2>1. a .. Len(s) \subseteq Below(s, m, {"open"} \cup Unsent)
    <3>1. ASSUME NEW i \in a .. Len(s) PROVE i \in 1 .. (m - 1) /\ s[i] \in {"open"} \cup Unsent
      <4>1. i \in DOMAIN s /\ i \in 1 .. (m - 1) /\ ~(i < o)
        BY <1>1, <1>2, <2>0
      <4> QED
        BY Zenon, <1>2, <4>1 DEF Made, Unsent, Status
    <3> QED
      BY Zenon, <3>1 DEF Below
  <2>2. Cardinality(a .. Len(s)) <= Cardinality(Below(s, m, {"open"} \cup Unsent))
    BY Zenon, <1>c, <2>1, FS_Subset
  <2>3. Cardinality(a .. Len(s)) = IF a > Len(s) THEN 0 ELSE Len(s) - a + 1
    <3>1. a \in Nat /\ Len(s) \in Int
      BY <1>1, <2>0
    <3> QED
      BY Zenon, <1>d, <3>1
  <2>4. {"open"} \cap Unsent = {}
    BY Zenon DEF Unsent
  <2>5. Cardinality(Below(s, m, {"open"} \cup Unsent)) = nO + nU
    BY Zenon, <1>a, <1>b, <2>4
  <2> QED
    BY <1>1, <1>c, <2>0, <2>2, <2>3, <2>5
<1> DEFINE most == MaxStreams  l == Left(c)
<1>6. Limit(c) = most + nF /\ l = most + nF - o /\ most \in Nat
  <2>1. most \in Nat /\ nF = Number(c, {"finished"}) /\ o = opened[c]
    BY PoolAssumption DEF num, o
  <2> QED
    BY <1>1, <1>c, <2>1 DEF Limit, Left
<1>7. PeerStreamsLeft(c) = (IF l <= nO THEN 0 ELSE IF l = most THEN l - nO - 1 ELSE l - nO)
  <2>1. nO \in Nat /\ l \in Int /\ nO = Number(c, {"open"})
    BY <1>1, <1>6, <1>c DEF num
  <2> HIDE DEF nO, l
  <2> QED
    BY <2>1 DEF PeerStreamsLeft, l
<1>8. nO \in Nat /\ nS \in Nat /\ nF \in Nat /\ nU \in Nat
  BY Zenon, <1>c
<1> HIDE DEF nO, nS, nF, nU, l
<1>9. Len(s) + 1 < most + nF + nU /\ nO + nS + 1 < most
  BY <1>1, <1>4, <1>5, <1>6, <1>7, <1>8
<1> QED
  BY Zenon, <1>3, <1>6, <1>9 DEF Room, s, num, nU

(* The initial state satisfies the invariant. *)
LEMMA PoolOKInit == PoolInit => PoolOK /\ RoomLeft
  BY PoolAssumption, NoConnAssumption, FS_EmptySet
  DEF PoolInit, PoolOK, LoopOK, ConnsOK, MadeOK, RoomLeft

LEMMA StreamsOKInit == PoolInit => StreamsOK
<1> SUFFICES ASSUME PoolInit PROVE StreamsOK
  BY Zenon
<1>1. ASSUME NEW c \in Conns PROVE CanSend(c)
  <2>1. streams[c] = << >>
    BY Zenon DEF PoolInit
  <2>2. DOMAIN streams[c] = {} /\ Number(c, {"open", "sent"}) = 0
    BY <2>1, FS_EmptySet DEF Number, Below
  <2> QED
    BY <2>2, PoolAssumption DEF CanSend
<1>2. StreamLeft
  BY Zenon DEF StreamLeft, PoolInit
<1> QED
  BY Zenon, <1>1, <1>2 DEF StreamsOK

(* A step of a stream: it moves on, and quiche's count does not shrink. *)
LEMMA StreamStepIs ==
    ASSUME PoolOK, NEW c \in Conns, NEW i \in DOMAIN streams[c], StreamStep(c, i)
    PROVE  /\ state[c] = "open"
           /\ \E v \in Status :
                 /\ Moves(streams[c][i], v)
                 /\ streams' = [streams EXCEPT ![c][i] = v]
                 /\ v \in Made => i < opened'[c]
           /\ opened' \in [Conns -> Nat] /\ opened[c] <= opened'[c]
           /\ \A d \in Conns \ {c} : opened'[d] = opened[d]
           /\ UNCHANGED <<vars, conns, state, call>>
<1> USE DEF PoolOK
<1>1. i \in Nat
  OBVIOUS
<1>2. ASSUME NEW was, NEW is, Make(c, i, was, is)
      PROVE  /\ opened' \in [Conns -> Nat] /\ opened[c] <= opened'[c] /\ i < opened'[c]
             /\ \A d \in Conns \ {c} : opened'[d] = opened[d]
  BY <1>1, <1>2 DEF Make
<1>3. CASE SendFirst(c, i)
  BY Zenon, <1>2, <1>3 DEF SendFirst, Make, Moves, Status
<1>4. CASE CloseAgain(c, i)
  BY Zenon, <1>2, <1>4 DEF CloseAgain, Make, Moves, Status
<1>5. ASSUME opened' = opened PROVE opened' \in [Conns -> Nat] /\ opened[c] <= opened'[c]
  BY <1>5
<1>6. CASE CloseUnsent(c, i)
  BY Zenon, <1>5, <1>6 DEF CloseUnsent, Moves, Made, Status
<1>7. CASE Finish(c, i)
  <2>1. streams[c][i] \in Made
    BY Zenon, <1>7 DEF Finish, Made
  <2>2. i < opened'[c]
    BY Zenon, <1>7, <2>1 DEF Finish, MadeOK
  <2> QED
    BY Zenon, <1>5, <1>7, <2>2 DEF Finish, Moves, Status
<1> QED
  BY Zenon, <1>3, <1>4, <1>6, <1>7 DEF StreamStep

(* Every step of open_stream and of the connections preserves it. *)
LEMMA PoolOKNext == PoolOK /\ [PoolNext]_allVars => PoolOK'
<1> SUFFICES ASSUME PoolOK, [PoolNext]_allVars PROVE PoolOK'
  BY Zenon
<1> USE PoolAssumption, NoConnAssumption
    DEF PoolOK, LoopOK, ConnsOK, MadeOK, Owner, quiche, call
<1>1. CASE UNCHANGED poolVars
  BY Zenon, <1>1 DEF poolVars
<1>2. CASE Begin
  BY Zenon, <1>2 DEF Begin
<1>3. ASSUME NEW c \in Conns, IsClosed(c) PROVE PoolOK'
  BY ZenonT(60), <1>3 DEF IsClosed
<1>4. CASE LeftBidi
  BY ZenonT(60), <1>4 DEF LeftBidi
<1>5. CASE RemoveClosed
  BY SMTT(30), <1>5 DEF RemoveClosed
<1>6. CASE Connect
  BY SMTT(30), <1>6 DEF Connect
<1>7. CASE ConnectErr
  BY ZenonT(60), <1>7 DEF ConnectErr
<1>8. CASE OpenStream
  BY SMTT(30), <1>8 DEF OpenStream, Made, Status
<1>9. ASSUME NEW t \in Tasks, Release(t) PROVE PoolOK'
  BY ZenonT(60), <1>9 DEF Release
<1>10. ASSUME NEW c \in Conns, NEW i \in DOMAIN streams[c], StreamStep(c, i) PROVE PoolOK'
  <2>1. PICK v \in Status : /\ streams' = [streams EXCEPT ![c][i] = v]
                            /\ v \in Made => i < opened'[c]
    BY Zenon, <1>10, StreamStepIs
  <2>2. /\ opened' \in [Conns -> Nat] /\ opened[c] <= opened'[c]
        /\ \A d \in Conns \ {c} : opened'[d] = opened[d]
        /\ state[c] = "open" /\ UNCHANGED <<vars, conns, state, call>>
    BY Zenon, <1>10, StreamStepIs
  <2>3. /\ streams' \in [Conns -> Seq(Status)] /\ DOMAIN streams'[c] = DOMAIN streams[c]
        /\ streams'[c][i] = v /\ \A k \in DOMAIN streams[c] \ {i} : streams'[c][k] = streams[c][k]
        /\ \A d \in Conns \ {c} : streams'[d] = streams[d]
    BY <2>1
  <2>4. MadeOK'
    <3>1. ASSUME NEW k \in DOMAIN streams[c], streams[c][k] \in Made PROVE k < opened'[c]
      BY <2>2, <3>1
    <3> QED
      BY ZenonT(60), <2>1, <2>2, <2>3, <3>1
  <2> QED
    BY Zenon, <2>2, <2>3, <2>4
<1>11. ASSUME NEW c \in Conns, CloseConn(c) PROVE PoolOK'
  BY SMTT(30), <1>11 DEF CloseConn
<1> HIDE DEF PoolOK, Owner, quiche, call
<1> QED
  BY ZenonT(60), <1>1, <1>2, <1>3, <1>4, <1>5, <1>6, <1>7, <1>8, <1>9, <1>10, <1>11
  DEF PoolNext, PoolStep, Wait, allVars

(* The streams keep their room: only the owner of the mutex opens one, on the
   connection that it found to have room. *)
LEMMA StreamsOKNext ==
    ASSUME MaxStreams > 1, PoolOK, StreamsOK, [PoolNext]_allVars PROVE StreamsOK'
<1> USE DEF StreamsOK
<1>0. MaxStreams \in Nat /\ PoolOK'
  BY Zenon, PoolAssumption, PoolOKNext
<1>a. stage = "open" => conn \in Conns
  BY Zenon DEF PoolOK, LoopOK
<1>1. ASSUME streams' = streams PROVE \A c \in Conns : CanSend(c)' /\ (Room(c) => Room(c)')
  BY Zenon, <1>1 DEF CanSend, Room, Number, Limit
<1>2. ASSUME NEW c \in Conns, streams[c] = << >>
      PROVE  CanSend(c) /\ Room(c)
  <2>1. Len(streams[c]) = 0 /\ DOMAIN streams[c] = {} /\ \A S : Number(c, S) = 0
    BY <1>2, FS_EmptySet DEF Number, Below
  <2> QED
    BY <1>0, <2>1 DEF CanSend, Room, Limit
<1>3. ASSUME streams' = streams, stage' # "open" PROVE StreamsOK'
  BY Zenon, <1>1, <1>3 DEF StreamLeft
<1>4. ASSUME UNCHANGED poolVars PROVE StreamsOK'
  BY Zenon, <1>a, <1>1, <1>4 DEF StreamLeft, poolVars, quiche, call
<1>5. CASE LeftBidi
  <2>1. conn \in Conns /\ streams' = streams /\ state' = state
    BY Zenon, <1>5, NoConnAssumption DEF LeftBidi, quiche, PoolOK, LoopOK
  <2>2. ASSUME stage' = "open", state'[conn'] = "open" PROVE conn' = conn /\ Room(conn)
    <3>1. conn' = conn /\ PeerStreamsLeft(conn) > 0
      BY Zenon, <1>5, <2>1, <2>2 DEF LeftBidi, Owner
    <3> QED
      BY Zenon, <2>1, <3>1, LeftIsRoom
  <2> QED
    BY Zenon, <1>1, <2>1, <2>2 DEF StreamLeft
<1>6. CASE Connect
  <2>1. conn' \in Conns /\ streams' = streams /\ streams[conn'] = << >>
    BY Zenon, <1>6 DEF Connect, PoolOK, ConnsOK
  <2> QED
    BY Zenon, <1>1, <1>2, <2>1 DEF StreamLeft
<1>7. CASE OpenStream
  <2>1. PICK c \in Conns : c = conn
    BY Zenon, <1>a, <1>7 DEF OpenStream, Owner
  <2>a. stage' # "open" /\ (state[c] # "open" => streams' = streams)
    BY Zenon, <1>7, <2>1 DEF OpenStream, Owner
  <2>2. CASE state[c] = "open"
    <3> DEFINE s == streams[c]  t == Append(s, "open")  m == Len(s) + 1
    <3>1. /\ s \in Seq(Status) /\ Len(s) \in Nat /\ m \in Nat /\ "open" \in Status
          /\ streams' = [streams EXCEPT ![c] = t] /\ streams \in [Conns -> Seq(Status)]
      BY <1>7, <2>1, <2>2 DEF OpenStream, PoolOK, Status
    <3>2. Len(t) = Len(s) + 1 /\ Len(t) + 1 = Len(s) + 2 /\ DOMAIN t = 1 .. m
          /\ (\A i \in 1 .. Len(s) : t[i] = s[i]) /\ DOMAIN s = 1 .. Len(s)
      BY <3>1
    <3>3. streams'[c] = t /\ \A d \in Conns \ {c} : streams'[d] = streams[d]
      BY Zenon, <2>1, <3>1
    <3>4. Room(c) /\ CanSend(c)
      BY Zenon, <1>7, <2>1, <2>2 DEF OpenStream, Owner, StreamLeft
    <3>5. /\ \A n \in 1 .. m : Below(t, n, Unsent) = Below(s, n, Unsent)
          /\ Cardinality(Below(t, Len(s) + 2, {"finished"})) = Cardinality(Below(s, m, {"finished"}))
          /\ Cardinality(Below(t, Len(s) + 2, {"open", "sent"}))
                = Cardinality(Below(s, m, {"open", "sent"})) + 1
      <4>1. "open" \notin {"finished"} /\ "open" \in {"open", "sent"}
        OBVIOUS
      <4> QED
        BY Zenon, <3>1, <4>1, BelowAppend
    <3>6. Limit(c)' = Limit(c) /\ Number(c, {"open", "sent"})' = Number(c, {"open", "sent"}) + 1
      <4>1. Len(streams'[c]) + 1 = Len(s) + 2
        BY Zenon, <3>2, <3>3
      <4> QED
        BY Zenon, <3>3, <3>5, <4>1 DEF Limit, Number
    <3> HIDE DEF t
    <3>7. ASSUME NEW i \in DOMAIN t, t[i] = "open"
          PROVE  i < Limit(c) + Cardinality(Below(t, i, Unsent))
      <4>1. i \in 1 .. m /\ Below(t, i, Unsent) = Below(s, i, Unsent)
        BY Zenon, <3>2, <3>5
      <4>2. CASE i = m
        BY Zenon, <3>4, <4>1, <4>2 DEF Room, Number
      <4>3. CASE i # m
        <5>1. i \in DOMAIN s /\ s[i] = "open"
          BY <3>1, <3>2, <3>7, <4>1, <4>3
        <5> QED
          BY Zenon, <3>4, <4>1, <5>1 DEF CanSend
      <4> QED
        BY Zenon, <4>2, <4>3
    <3>8. CanSend(c)'
      BY Zenon, <3>3, <3>4, <3>6, <3>7 DEF CanSend, Room
    <3>9. ASSUME NEW d \in Conns \ {c} PROVE CanSend(d)'
      BY Zenon, <3>3, <3>9 DEF CanSend, Limit, Number
    <3> QED
      BY Zenon, <2>a, <3>8, <3>9 DEF StreamLeft
  <2> QED
    BY Zenon, <1>3, <2>a, <2>2
<1>8. ASSUME NEW c \in Conns, NEW i \in DOMAIN streams[c], StreamStep(c, i) PROVE StreamsOK'
  <2> DEFINE s == streams[c]  m == Len(s) + 1
  <2>1. PICK v \in Status : Moves(s[i], v) /\ streams' = [streams EXCEPT ![c][i] = v]
    BY Zenon, <1>8, StreamStepIs
  <2> DEFINE t == [s EXCEPT ![i] = v]
  <2>2. s \in Seq(Status) /\ Len(s) \in Nat /\ m \in Nat \ {0} /\ streams \in [Conns -> Seq(Status)]
    BY DEF PoolOK
  <2>3. streams'[c] = t /\ \A d \in Conns \ {c} : streams'[d] = streams[d]
    BY Zenon, <2>1, <2>2
  <2>4. /\ Len(t) = Len(s) /\ DOMAIN t = DOMAIN s /\ DOMAIN s = 1 .. Len(s)
        /\ \A n \in 1 .. m :
               Cardinality(Below(s, m, {"finished"})) + Cardinality(Below(s, n, Unsent))
                 <= Cardinality(Below(t, m, {"finished"})) + Cardinality(Below(t, n, Unsent))
        /\ Cardinality(Below(t, m, {"open", "sent"})) <= Cardinality(Below(s, m, {"open", "sent"}))
    <3>1. DOMAIN s = 1 .. Len(s)
      BY <2>2
    <3> QED
      BY ZenonT(60), <2>1, <2>2, <3>1, MoveKeeps
  <2>5. \A k \in DOMAIN s : t[k] = "open" => s[k] = "open"
    BY <2>1, <2>2 DEF Moves
  <2> HIDE DEF t
  <2>6. ASSUME NEW n \in 1 .. m
        PROVE  /\ Cardinality(Below(s, n, Unsent)) \in Nat /\ Cardinality(Below(t, n, Unsent)) \in Nat
               /\ n \in Nat
    <3>1. n \in Nat \ {0}
      BY <2>2
    <3> QED
      BY Zenon, <3>1, BelowIsFinite
  <2>7. \A S : Cardinality(Below(s, m, S)) \in Nat /\ Cardinality(Below(t, m, S)) \in Nat
    BY Zenon, <2>2, BelowIsFinite
  <2>8. /\ Limit(c) = MaxStreams + Cardinality(Below(s, m, {"finished"}))
        /\ Limit(c)' = MaxStreams + Cardinality(Below(t, m, {"finished"}))
        /\ \A S : Number(c, S) = Cardinality(Below(s, m, S)) /\ Number(c, S)' = Cardinality(Below(t, m, S))
    BY Zenon, <2>3, <2>4 DEF Limit, Number
  <2>9. ASSUME NEW n \in 1 .. m, n < Limit(c) + Cardinality(Below(s, n, Unsent))
        PROVE  n < Limit(c)' + Cardinality(Below(t, n, Unsent))
    <3> DEFINE f == Cardinality(Below(s, m, {"finished"}))  u == Cardinality(Below(s, n, Unsent))
               g == Cardinality(Below(t, m, {"finished"}))  w == Cardinality(Below(t, n, Unsent))
    <3>1. f \in Nat /\ u \in Nat /\ g \in Nat /\ w \in Nat /\ n \in Nat /\ f + u <= g + w
      BY Zenon, <2>4, <2>6, <2>7
    <3>2. n < MaxStreams + f + u
      BY Zenon, <2>8, <2>9
    <3> HIDE DEF f, u, g, w
    <3>3. n < MaxStreams + g + w
      BY <1>0, <3>1, <3>2
    <3> QED
      BY Zenon, <2>8, <3>3 DEF g, w
  <2>10. CanSend(c)'
    <3>1. ASSUME NEW k \in DOMAIN t, t[k] = "open"
          PROVE  k < Limit(c)' + Cardinality(Below(t, k, Unsent))
      <4>1. k \in 1 .. m /\ s[k] = "open" /\ k \in DOMAIN s
        BY <2>2, <2>4, <2>5, <3>1
      <4> QED
        BY Zenon, <2>9, <4>1 DEF CanSend
    <3>2. Number(c, {"open", "sent"})' < MaxStreams
      <4>1. Number(c, {"open", "sent"}) < MaxStreams
        BY Zenon DEF CanSend
      <4> QED
        BY <1>0, <2>4, <2>7, <2>8, <4>1
    <3> QED
      BY Zenon, <2>3, <3>1, <3>2 DEF CanSend
  <2>11. Room(c) => Room(c)'
    <3> SUFFICES ASSUME Room(c) PROVE Room(c)'
      BY Zenon
    <3>1. Len(s) + 1 < Limit(c)' + Cardinality(Below(t, m, Unsent))
      <4>1. m \in 1 .. m /\ m < Limit(c) + Cardinality(Below(s, m, Unsent))
        <5>1. m \in 1 .. m
          BY <2>2
        <5> QED
          BY Zenon, <2>8, <5>1 DEF Room
      <4> QED
        BY Zenon, <2>9, <4>1
    <3>2. Number(c, {"open", "sent"})' + 1 < MaxStreams
      <4>1. Number(c, {"open", "sent"}) + 1 < MaxStreams
        BY Zenon DEF Room
      <4> QED
        BY <1>0, <2>4, <2>7, <2>8, <4>1
    <3> QED
      BY Zenon, <2>3, <2>4, <2>8, <3>1, <3>2 DEF Room
  <2>12. ASSUME NEW d \in Conns \ {c} PROVE CanSend(d)' /\ (Room(d) => Room(d)')
    BY Zenon, <2>3, <2>12 DEF CanSend, Room, Limit, Number
  <2>13. UNCHANGED <<state, stage, conn>>
    BY Zenon, <1>8, StreamStepIs DEF call
  <2>14. stage = "open" => conn \in Conns
    BY Zenon DEF PoolOK, LoopOK
  <2> QED
    BY Zenon, <2>10, <2>11, <2>12, <2>13, <2>14 DEF StreamLeft
<1>9. ASSUME NEW c \in Conns, CloseConn(c) PROVE StreamsOK'
  <2>1. /\ streams'[c] = << >> /\ \A d \in Conns \ {c} : streams'[d] = streams[d]
        /\ state'[c] # "open" /\ \A d \in Conns \ {c} : state'[d] = state[d]
        /\ UNCHANGED <<stage, conn>>
    BY <1>9 DEF CloseConn, PoolOK, call
  <2>2. CanSend(c)'
    <3>1. DOMAIN streams'[c] = {} /\ Number(c, {"open", "sent"})' = 0
      BY <2>1, FS_EmptySet DEF Number, Below
    <3> QED
      BY <1>0, <3>1 DEF CanSend
  <2>3. ASSUME NEW d \in Conns \ {c} PROVE CanSend(d)' /\ (Room(d) => Room(d)')
    BY Zenon, <2>1, <2>3 DEF CanSend, Room, Limit, Number
  <2>4. stage = "open" => conn \in Conns
    BY Zenon DEF PoolOK, LoopOK
  <2> QED
    BY Zenon, <2>1, <2>2, <2>3, <2>4 DEF StreamLeft
<1>10. ASSUME NEW c \in Conns, IsClosed(c) PROVE StreamsOK'
  BY Zenon, <1>3, <1>10 DEF IsClosed, Owner, quiche
<1>11. ASSUME Begin \/ RemoveClosed \/ ConnectErr PROVE StreamsOK'
  BY Zenon, <1>3, <1>11 DEF Begin, RemoveClosed, ConnectErr, Owner, quiche
<1>12. ASSUME NEW t \in Tasks, Wait(t) \/ Release(t) PROVE StreamsOK'
  BY Zenon, <1>3, <1>4, <1>12 DEF Wait, Release, quiche
<1> HIDE DEF StreamsOK
<1> QED
  BY ZenonT(60), <1>4, <1>5, <1>6, <1>7, <1>8, <1>9, <1>10, <1>11, <1>12
  DEF PoolNext, PoolStep, allVars
(* The pool grows by one connection at a time, and only when it has room. *)
LEMMA RoomLeftNext == PoolOK /\ RoomLeft /\ [PoolNext]_allVars => RoomLeft'
<1> SUFFICES ASSUME PoolOK, RoomLeft, [PoolNext]_allVars PROVE RoomLeft'
  BY Zenon
<1> USE DEF RoomLeft, Owner
<1>a. Cardinality(conns) \in Nat /\ MaxConns \in Nat
  BY Zenon, FS_CardinalityType, PoolAssumption
<1>1. CASE UNCHANGED <<conns, stage>>
  BY Zenon, <1>1
<1>2. CASE conns' = conns /\ stage' # "connect"
  BY ZenonT(60), <1>2
<1>3. CASE RemoveClosed
  <2>1. IsFiniteSet(conns') /\ Cardinality(conns') <= Cardinality(conns)
    BY Zenon, <1>3, FS_Subset DEF RemoveClosed
  <2>2. Cardinality(conns') \in Nat
    BY ZenonT(60), <2>1, FS_CardinalityType
  <2> QED
    BY <1>a, <1>3, <2>1, <2>2 DEF RemoveClosed
<1>4. CASE Connect
  <2>1. /\ IsFiniteSet(conns \cup {conn'})
        /\ Cardinality(conns \cup {conn'})
              = IF conn' \in conns THEN Cardinality(conns) ELSE Cardinality(conns) + 1
    BY Zenon, FS_AddElement
  <2> QED
    BY <1>a, <1>4, <2>1 DEF Connect
<1> HIDE DEF RoomLeft
<1>5. CASE PoolStep
  <2>1. ASSUME NEW c \in Conns, IsClosed(c) PROVE conns' = conns /\ stage' # "connect"
    BY Zenon, <2>1 DEF IsClosed
  <2>2. ASSUME Begin \/ LeftBidi \/ ConnectErr \/ OpenStream
        PROVE  conns' = conns /\ stage' # "connect"
    BY Zenon, <2>2 DEF Begin, LeftBidi, ConnectErr, OpenStream
  <2> QED
    BY Zenon, <1>2, <1>3, <1>4, <1>5, <2>1, <2>2 DEF PoolStep
<1>6. ASSUME NEW t \in Tasks, Wait(t) \/ Release(t) PROVE RoomLeft'
  BY Zenon, <1>1, <1>2, <1>6 DEF Wait, Release, poolVars, call
<1>7. ASSUME NEW c \in Conns, CloseConn(c) \/ \E i \in DOMAIN streams[c] : StreamStep(c, i)
      PROVE  RoomLeft'
  BY Zenon, <1>1, <1>7
  DEF StreamStep, SendFirst, CloseUnsent, CloseAgain, Finish, Make, CloseConn, call
<1>8. CASE UNCHANGED allVars
  BY Zenon, <1>1, <1>8 DEF allVars, poolVars, call
<1> QED
  BY Zenon, <1>5, <1>6, <1>7, <1>8 DEF PoolNext

(* The invariants hold in every reachable state, that of the streams if the peer
   allows two at least. *)
LEMMA PoolInvariance == PoolSpec => [](PoolOK /\ RoomLeft)
  BY PoolOKInit, PoolOKNext, RoomLeftNext, PTL DEF PoolSpec

LEMMA PoolStreams == ASSUME MaxStreams > 1 PROVE PoolSpec => []StreamsOK
<1>1. PoolInit => StreamsOK
  BY Zenon, StreamsOKInit
<1>2. PoolOK /\ StreamsOK /\ [PoolNext]_allVars => StreamsOK'
  BY Zenon, StreamsOKNext
<1> QED
  BY <1>1, <1>2, PoolInvariance, PTL DEF PoolSpec

(* The pool uses the mutex as its module allows: every step of the pool is one of
   the mutex, or leaves the mutex alone. *)
LEMMA PoolUsesMutex == PoolSpec => Spec
<1>1. PoolInit => Init
  BY Zenon DEF PoolInit
<1>2. [PoolNext]_allVars => [Next]_vars
  <2> SUFFICES ASSUME [PoolNext]_allVars PROVE [Next]_vars
    BY Zenon
  <2>1. CASE UNCHANGED allVars
    BY Zenon, <2>1 DEF allVars
  <2>2. CASE PoolStep
    BY Zenon, <2>2
       DEF PoolStep, Begin, LeftBidi, RemoveClosed, Connect, ConnectErr, OpenStream,
           IsClosed, Owner
  <2>3. ASSUME NEW t \in Tasks, Wait(t) \/ Release(t) PROVE Next
    BY Zenon, <2>3 DEF Wait, Release, Next
  <2>4. ASSUME NEW c \in Conns, CloseConn(c) \/ \E i \in DOMAIN streams[c] : StreamStep(c, i)
        PROVE  UNCHANGED vars
    BY Zenon, <2>4 DEF StreamStep, SendFirst, CloseUnsent, CloseAgain, Finish, Make, CloseConn
  <2> QED
    BY Zenon, <2>1, <2>2, <2>3, <2>4 DEF PoolNext
<1> QED
  BY <1>1, <1>2, PTL DEF PoolSpec, Spec

(* For every pool, every number of tasks and every limit of two streams or more:
   however the streams of the connections come and go between the look at
   peer_streams_left_bidi and open_stream, the id that open_stream gives out is
   within the peer's limit, but for the ids that were closed before they were sent on. *)
THEOREM PoolStreamCanSend == ASSUME MaxStreams > 1 PROVE PoolSpec => []StreamCanSend
<1>1. StreamsOK => StreamCanSend
  BY Zenon DEF StreamsOK, CanSend, StreamCanSend, Unsent
<1> QED
  BY <1>1, PoolStreams, PTL

(* For every pool, every number of tasks and every limit of two streams or more: a
   connection never has more streams in use than open_stream's doc says, one less
   than the peer allows, since id 0 is not used and peer_streams_left_bidi keeps
   one back for it. *)
THEOREM PoolStreamLimit == ASSUME MaxStreams > 1 PROVE PoolSpec => []StreamLimit
<1>1. StreamsOK => StreamLimit
  BY Zenon DEF StreamsOK, CanSend, StreamLimit
<1> QED
  BY <1>1, PoolStreams, PTL

(* For every pool: a connection that is open is a member, and the members are at
   most max_conns, also when a call is dropped between connect and its stream. *)
THEOREM PoolOpenIsPooled == PoolSpec => []OpenIsPooled
<1>1. PoolOK /\ RoomLeft => OpenIsPooled
  BY Zenon DEF PoolOK, ConnsOK, RoomLeft, OpenIsPooled
<1> QED
  BY <1>1, PoolInvariance, PTL

(* For every pool: a task that waits for the pool's lock is not left asleep while
   the lock is free, since the pool only takes the steps of the mutex. *)
THEOREM PoolNoLostWakeup == PoolSpec => []NoLostWakeup
  BY PoolUsesMutex, AsyncNoLostWakeup, PTL

(* For every pool, its lock is an abstract mutex: nothing that open_stream does
   while it holds it, or when it is dropped at an await, lets a second task in. *)
THEOREM PoolRefinesMutex == PoolSpec => RefinesAsyncMutex
  BY PoolUsesMutex, AsyncRefinesMutex, PTL

=============================================================================
