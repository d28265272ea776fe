----------------------------- MODULE DataProofs -----------------------------
(***************************************************************************)
(* Proofs about what hala keeps and what it parses.  The database of       *)
(* hala-leveldb, for every set of keys, values, callers and batches: a pass of *)
(* an iterator returns exactly the keys of its view, and delete deletes a  *)
(* value that is not empty.  The parsers of hala-http, for every message and *)
(* however it is cut into reads: the body is what follows the blank line, and *)
(* no item has a line end in it.                                           *)
(***************************************************************************)
EXTENDS LevelDb, HttpParse, WellFoundedInduction, TLAPS

-----------------------------------------------------------------------------
(* Numbers *)

(* A set of numbers has a least element, *)
LEMMA MinIs ==
    ASSUME NEW S \in SUBSET Nat, S # {}
    PROVE  Min(S) \in S /\ \A j \in S : Min(S) <= j
<1>1. \E x \in S : \A y \in S : ~ (<<y, x>> \in OpToRel(<, Nat))
  BY Zenon, NatLessThanWellFounded, WFMin
<1>2. PICK x \in S : \A y \in S : ~ (<<y, x>> \in OpToRel(<, Nat))
  BY Zenon, <1>1
<1>3. \A y \in S : x <= y
  <2> SUFFICES ASSUME NEW y \in S, ~ (x <= y) PROVE FALSE
    BY Zenon
  <2>1. <<y, x>> \in Nat \X Nat /\ y < x
    OBVIOUS
  <2>2. <<y, x>> \in OpToRel(<, Nat)
    BY Zenon, <2>1 DEF OpToRel
  <2> QED
    BY Zenon, <1>2, <2>2
<1> QED
  BY Zenon, <1>3 DEF Min

(* and a bounded one a greatest. *)
LEMMA MaxIs ==
    ASSUME NEW n \in Nat, NEW S \in SUBSET (0 .. n), S # {}
    PROVE  Max(S) \in S /\ \A j \in S : j <= Max(S)
<1> DEFINE T == {n - k : k \in S}
<1>1. T \in SUBSET Nat /\ T # {}
  <2>1. \A k \in S : n - k \in Nat
    OBVIOUS
  <2> QED
    BY Zenon, <2>1
<1>2. Min(T) \in T /\ \A j \in T : Min(T) <= j
  BY Zenon, <1>1, MinIs
<1>3. PICK x \in S : Min(T) = n - x
  BY Zenon, <1>2
<1>4. \A y \in S : x >= y
  <2>1. \A y \in S : n - x <= n - y
    BY Zenon, <1>2, <1>3
  <2> QED
    BY <2>1
<1>5. Max(S) \in S /\ \A y \in S : Max(S) >= y
  BY Zenon, <1>4 DEF Max
<1> QED
  BY <1>5

-----------------------------------------------------------------------------
(* The database *)

(* A delete that has found no value at its key leaves it without one, and so
   does one that has deleted it, unless the key was written meanwhile. *)
DelOK ==
    \A d \in Deleters :
        /\ del[d].at # "idle" => del[d].key \in Keys
        /\ del[d].at # "idle" /\ ~del[d].rewritten
             /\ (del[d].read = Absent \/ (del[d].at = "done" /\ del[d].read # Empty))
           => store[del[d].key] = Absent
        /\ del[d].ok => del[d].read # Empty

(* Where the cursor is during a pass: before its first key, on the last one
   returned, or past the end; and the flag of seek says which. *)
CursorOK ==
    ~iter.missed =>
        /\ iter.seek => ~iter.ended /\ iter.out = <<>>
                        /\ iter.cur = AtOrAfter(iter.view, iter.from) /\ iter.cur # 0
        /\ iter.ended => iter.cur = 0
        /\ ~iter.ended /\ iter.cur = 0 => iter.out = <<>> /\ iter.from = 1
        /\ ~iter.seek /\ iter.cur # 0 => iter.out # <<>> /\ iter.cur = Last(iter.out)

(* ... and has returned exactly the keys of its pass. *)
IterOK == CursorOK /\ PassIsExact

(* The inductive invariant *)
IInv == TypeOK /\ DelOK /\ IterOK

(* Keys are numbers. *)
LEMMA KeysAreNat == \A k \in Keys \cup {0} : k \in Nat
  <1>1. \A k \in Keys : k \in Nat
    BY Zenon, LevelDbAssumption
  <1> QED
    BY <1>1

(* The library's cursor goes to the least key of a set. *)
LEMMA LeastIs ==
    ASSUME NEW S \in SUBSET Nat
    PROVE  /\ S = {} => Least(S) = 0
           /\ S # {} => Least(S) \in S /\ \A j \in S : Least(S) <= j
<1>1. CASE S = {}
  BY Zenon, <1>1 DEF Least
<1>2. CASE S # {}
  BY Zenon, <1>2, MinIs DEF Least
<1> QED
  BY Zenon, <1>1, <1>2

(* ... and the one from which a seek or next goes on. *)
LEMMA AtOrAfterIs ==
    ASSUME NEW view, NEW k \in Nat
    PROVE  /\ AtOrAfter(view, k) = 0 => \A j \in Present(view) : j < k
           /\ AtOrAfter(view, k) # 0 =>
                  /\ AtOrAfter(view, k) \in Present(view) /\ AtOrAfter(view, k) >= k
                  /\ \A j \in Present(view) : j < k \/ AtOrAfter(view, k) <= j
           /\ AtOrAfter(view, k) \in Keys \cup {0}
<1> DEFINE S == {j \in Present(view) : j >= k}
<1>1. S \in SUBSET Nat /\ 0 \notin S /\ Present(view) \subseteq Nat /\ S \subseteq Keys
  BY Zenon, LevelDbAssumption DEF Present
<1>2. /\ S = {} => Least(S) = 0
      /\ S # {} => Least(S) \in S /\ \A j \in S : Least(S) <= j
  BY Zenon, <1>1, LeastIs
<1>3. AtOrAfter(view, k) = Least(S)
  BY Zenon DEF AtOrAfter
<1> HIDE DEF S
<1>4. CASE S = {}
  BY <1>1, <1>2, <1>3, <1>4 DEF S
<1>5. CASE S # {}
  BY <1>1, <1>2, <1>3, <1>5 DEF S
<1> QED
  BY Zenon, <1>4, <1>5

(* What a pass has returned after one more key. *)
LEMMA AppendIs ==
    ASSUME NEW out \in Seq(Keys), NEW c \in Keys
    PROVE  /\ Append(out, c) \in Seq(Keys) /\ Append(out, c) # <<>>
           /\ Last(Append(out, c)) = c
           /\ Range(Append(out, c)) = Range(out) \cup {c}
           /\ (\A i, j \in DOMAIN out : i < j => out[i] < out[j])
                /\ (\A k \in Range(out) : k < c)
              => \A i, j \in DOMAIN Append(out, c) :
                     i < j => Append(out, c)[i] < Append(out, c)[j]
<1> DEFINE new == Append(out, c)
<1>1. /\ new \in Seq(Keys) /\ Len(new) = Len(out) + 1 /\ Len(out) \in Nat
      /\ DOMAIN new = 1 .. Len(out) + 1 /\ DOMAIN out = 1 .. Len(out)
      /\ \A i \in DOMAIN out : new[i] = out[i]
      /\ new[Len(out) + 1] = c
  OBVIOUS
<1> HIDE DEF new
<1>2. new # <<>> /\ Last(new) = c
  BY <1>1 DEF Last
<1>3. Range(new) = Range(out) \cup {c}
  BY <1>1 DEF Range
<1>4. ASSUME \A i, j \in DOMAIN out : i < j => out[i] < out[j],
             \A k \in Range(out) : k < c, NEW i \in DOMAIN new, NEW j \in DOMAIN new, i < j
      PROVE  new[i] < new[j]
  <2>1. i \in DOMAIN out /\ (j \in DOMAIN out \/ j = Len(out) + 1)
    BY <1>1, <1>4
  <2>2. out[i] \in Range(out)
    BY Zenon, <2>1 DEF Range
  <2> QED
    BY Zenon, <1>1, <1>4, <2>1, <2>2
<1> QED
  BY Zenon, <1>1, <1>2, <1>3, <1>4 DEF new

(* Initially there are no keys, no delete and no iterator. *)
LEMMA InitIInv == Init => IInv
<1> SUFFICES ASSUME Init PROVE IInv
  BY Zenon
<1>1. TypeOK
  BY LevelDbAssumption DEF Init, TypeOK, Stored, Idle, NoIter, DeleteCalls, Iterators
<1>2. DelOK
  BY Zenon DEF Init, DelOK, Idle
<1>3. IterOK
  <2>1. iter = NoIter
    BY Zenon DEF Init
  <2> QED
    BY <2>1 DEF NoIter, IterOK, CursorOK, PassIsExact, Exact, Range
<1> QED
  BY Zenon, <1>1, <1>2, <1>3 DEF IInv

(* The operations of a batch leave the other keys as they are. *)
LEMMA CommitIs ==
    ASSUME TypeOK, commit
    PROVE  /\ store' \in [Keys -> Stored]
           /\ \A k \in Keys : k \notin {batch[i][1] : i \in 1..Len(batch)}
                => store'[k] = store[k]
<1> DEFINE ops(k) == {i \in 1..Len(batch) : batch[i][1] = k}
<1>1. store' = [k \in Keys |-> IF ops(k) = {} THEN store[k] ELSE batch[Max(ops(k))][2]]
  BY Zenon DEF commit
<1>2. ASSUME NEW k \in Keys, ops(k) # {} PROVE Max(ops(k)) \in 1..Len(batch)
  <2>1. Len(batch) \in Nat
    BY DEF TypeOK
  <2> DEFINE back == {Len(batch) - i : i \in ops(k)}
  <2>2. back \in SUBSET Nat /\ back # {}
    BY <1>2, <2>1
  <2>3. Least(back) \in back /\ \A j \in back : Least(back) <= j
    BY Zenon, <2>2, LeastIs
  <2> HIDE DEF back
  <2>4. PICK i \in ops(k) : Least(back) = Len(batch) - i
    BY Zenon, <2>3 DEF back
  <2>5. \A j \in ops(k) : Len(batch) - j \in back
    BY Zenon DEF back
  <2>6. \A j \in ops(k) : i >= j
    BY <2>1, <2>3, <2>4, <2>5
  <2>7. Max(ops(k)) \in ops(k)
    BY Zenon, <2>6 DEF Max
  <2> QED
    BY Zenon, <2>7
<1>3. ASSUME NEW k \in Keys PROVE store'[k] \in Stored
  <2>1. CASE ops(k) = {}
    BY Zenon, <1>1, <2>1 DEF TypeOK
  <2>2. CASE ops(k) # {}
    <3>1. Max(ops(k)) \in 1..Len(batch)
      BY Zenon, <1>2, <2>2
    <3> HIDE DEF ops
    <3>2. batch[Max(ops(k))] \in Keys \X Stored
      BY <3>1 DEF TypeOK
    <3> QED
      BY Zenon, <1>1, <2>2, <3>2
  <2> QED
    BY Zenon, <2>1, <2>2
<1>4. ASSUME NEW k \in Keys, k \notin {batch[i][1] : i \in 1..Len(batch)}
      PROVE  store'[k] = store[k]
  <2>1. ops(k) = {}
    BY Zenon, <1>4
  <2> QED
    BY Zenon, <1>1, <2>1
<1> QED
  BY Zenon, <1>1, <1>3, <1>4

(* Marking a delete keeps its type. *)
LEMMA MarkType ==
    ASSUME del \in [Deleters -> DeleteCalls], NEW ks, MarkRewritten(ks)
    PROVE  del' \in [Deleters -> DeleteCalls]
<1> SUFFICES ASSUME NEW d \in Deleters PROVE del'[d] \in DeleteCalls
  BY Zenon DEF MarkRewritten
<1>1. del[d] \in DeleteCalls /\ [del[d] EXCEPT !.rewritten = TRUE] \in DeleteCalls
  BY ZenonT(60) DEF DeleteCalls
<1> QED
  BY Zenon, <1>1 DEF MarkRewritten

(* Every step keeps the types. *)
LEMMA NextType == TypeOK /\ [Next]_vars => TypeOK'
<1> SUFFICES ASSUME TypeOK, [Next]_vars PROVE TypeOK'
  BY Zenon
<1> USE LevelDbAssumption DEF TypeOK
<1>a. ASSUME NEW ks, MarkRewritten(ks) PROVE del' \in [Deleters -> DeleteCalls]
  BY Zenon, <1>a, MarkType
<1>1. CASE UNCHANGED vars
  BY Zenon, <1>1 DEF vars
<1>2. ASSUME NEW k \in Keys, NEW v \in Values, put(k, v) PROVE TypeOK'
  BY <1>a, <1>2 DEF put, Stored
<1>3. ASSUME NEW k \in Keys, NEW v \in Stored, BatchAdd(k, v) PROVE TypeOK'
  BY <1>3 DEF BatchAdd
<1>4. CASE commit
  <2>1. store' \in [Keys -> Stored]
    BY Zenon, <1>4, CommitIs
  <2>2. del' \in [Deleters -> DeleteCalls]
    BY Zenon, <1>a, <1>4 DEF commit
  <2> QED
    BY <1>4, <2>1, <2>2 DEF commit
<1>5. ASSUME NEW d \in Deleters, NEW k \in Keys, DeleteRead(d, k) PROVE TypeOK'
  <2>1. Idle \in DeleteCalls
    BY Zenon DEF Idle, Stored, DeleteCalls
  <2>2. [at |-> "read", key |-> k, read |-> store[k], ok |-> FALSE, rewritten |-> FALSE]
          \in DeleteCalls
    BY Zenon DEF DeleteCalls
  <2> QED
    BY Zenon, <1>5, <2>1, <2>2 DEF DeleteRead
<1>6. ASSUME NEW d \in Deleters, DeleteWrite(d) PROVE TypeOK'
  <2> DEFINE exists == del[d].read \notin {Absent, Empty}
             done   == Returned(del[d], exists)
  <2>1. store' \in [Keys -> Stored]
    BY Zenon, <1>6 DEF DeleteWrite, DeleteWhere, Stored
  <2>2. Idle \in DeleteCalls
    BY Zenon DEF Idle, Stored, DeleteCalls
  <2>3. (del[d].rewritten /\ ~exists) \in BOOLEAN /\ exists \in BOOLEAN
    BY Zenon
  <2>4. done \in DeleteCalls
    BY Zenon, <2>3 DEF DeleteCalls, Returned
  <2>5. del' = [del EXCEPT ![d] = done] \/ del' = [del EXCEPT ![d] = Idle]
    BY Zenon, <1>6 DEF DeleteWrite, DeleteWhere
  <2> HIDE DEF done
  <2> QED
    BY Zenon, <1>6, <2>1, <2>2, <2>4, <2>5 DEF DeleteWrite, DeleteWhere
<1>7. ASSUME NEW d \in Deleters, DeleteReturn(d) PROVE TypeOK'
  BY Zenon, <1>7 DEF DeleteReturn, Idle, Stored, DeleteCalls
<1>8. CASE snapshot
  BY Zenon, <1>8 DEF snapshot
<1>9. ASSUME NEW k \in Keys, GetWithSnapshot(k) PROVE TypeOK'
  BY Zenon, <1>9 DEF GetWithSnapshot
<1>10. ASSUME NEW k \in Keys, seek(k) PROVE TypeOK'
  <2>1. k \in Nat /\ AtOrAfter(iter.view, k) \in Keys \cup {0}
    BY Zenon, AtOrAfterIs
  <2> DEFINE c == AtOrAfter(iter.view, k)
             miss == c = 0
  <2>2. iter' = [iter EXCEPT !.cur = c, !.seek = TRUE, !.from = k, !.out = <<>>,
                             !.ended = FALSE, !.missed = miss]
    BY Zenon, <1>10 DEF seek
  <2>3. c \in Keys \cup {0} /\ miss \in BOOLEAN /\ <<>> \in Seq(Keys)
    BY <2>1
  <2> HIDE DEF c, miss
  <2>4. iter' \in Iterators
    BY Zenon, <2>1, <2>2, <2>3 DEF Iterators
  <2> QED
    BY Zenon, <1>10, <2>4 DEF seek
<1>11. CASE iter_new
  <2>1. NoIter \in Iterators /\ store \in [Keys -> Stored]
    BY DEF NoIter, Iterators, Stored
  <2>2. iter' = [[NoIter EXCEPT !.open = TRUE] EXCEPT !.view = store]
    BY Zenon, <1>11 DEF iter_new, NoIter
  <2> HIDE DEF NoIter
  <2>3. iter' \in Iterators
    BY Zenon, <2>1, <2>2 DEF Iterators
  <2> QED
    BY Zenon, <1>11, <2>3 DEF iter_new
<1>12. CASE next
  <2>1. Advance(iter).cur \in Keys \cup {0} /\ Advance(iter).seek \in BOOLEAN
    <3>0. iter.cur \in Keys \cup {0} /\ iter.seek \in BOOLEAN
      BY Zenon DEF Iterators
    <3>a. iter.cur \in Nat
      BY Zenon, <3>0, KeysAreNat
    <3>1. iter.cur + 1 \in Nat
      BY <3>a
    <3>2. /\ AtOrAfter(iter.view, 1) \in Keys \cup {0}
          /\ AtOrAfter(iter.view, iter.cur + 1) \in Keys \cup {0}
      BY Zenon, <3>1, AtOrAfterIs
    <3> QED
      BY Zenon, <3>0, <3>2 DEF Advance
  <2> DEFINE c    == Advance(iter).cur
             past == IF iter.ended THEN <<>> ELSE iter.out
             from == IF iter.ended THEN 1 ELSE iter.from
             out  == IF c = 0 THEN past ELSE Append(past, c)
  <2>2. iter' = [iter EXCEPT !.cur = c, !.seek = Advance(iter).seek, !.from = from,
                             !.out = out, !.ended = (c = 0)]
    BY Zenon, <1>12 DEF next
  <2>3. past \in Seq(Keys) /\ from \in Nat
    BY DEF Iterators
  <2>4. out \in Seq(Keys) /\ c \in Keys \cup {0} /\ (c = 0) \in BOOLEAN
    BY <2>1, <2>3
  <2> HIDE DEF c, past, from, out
  <2>5. iter' \in Iterators
    BY Zenon, <2>1, <2>2, <2>3, <2>4 DEF Iterators
  <2> QED
    BY Zenon, <1>12, <2>5 DEF next
<1> HIDE DEF TypeOK
<1> QED
  BY Zenon, <1>1, <1>2, <1>3, <1>4, <1>5, <1>6, <1>7, <1>8, <1>9, <1>10, <1>11, <1>12 DEF Next

(* Every step keeps what the deletes have found. *)
LEMMA NextDel == TypeOK /\ DelOK /\ [Next]_vars => DelOK'
<1> SUFFICES ASSUME TypeOK, DelOK, [Next]_vars PROVE DelOK'
  BY Zenon
<1> USE LevelDbAssumption DEF TypeOK, DelOK, DeleteCalls
<1>1. CASE UNCHANGED vars
  BY Zenon, <1>1 DEF vars
<1>2. ASSUME NEW k \in Keys, NEW v \in Values, put(k, v) PROVE DelOK'
  BY <1>2 DEF put, MarkRewritten
<1>3. ASSUME NEW k \in Keys, NEW v \in Stored, BatchAdd(k, v) PROVE DelOK'
  BY ZenonT(60), <1>3 DEF BatchAdd
<1>4. CASE commit
  BY <1>4, CommitIs DEF commit, MarkRewritten
<1>5. ASSUME NEW d \in Deleters, NEW k \in Keys, DeleteRead(d, k) PROVE DelOK'
  <2>1. /\ \A e \in Deleters \ {d} : del'[e] = del[e]
        /\ store' = store
    BY Zenon, <1>5 DEF DeleteRead
  <2>2. CASE del' = [del EXCEPT ![d] = Idle]
    <3>1. del'[d].at = "idle" /\ ~del'[d].ok
      BY Zenon, <2>2 DEF Idle
    <3> QED
      BY Zenon, <2>1, <3>1
  <2>3. CASE del' = [del EXCEPT ![d] = [at |-> "read", key |-> k, read |-> store[k],
                                        ok |-> FALSE, rewritten |-> FALSE]]
    <3>1. /\ del'[d].at = "read" /\ del'[d].key = k /\ del'[d].read = store[k]
          /\ ~del'[d].ok
      BY Zenon, <2>3
    <3> SUFFICES ASSUME NEW e \in Deleters
                 PROVE  /\ del'[e].at # "idle" => del'[e].key \in Keys
                        /\ del'[e].at # "idle" /\ ~del'[e].rewritten
                             /\ (del'[e].read = Absent \/ (del'[e].at = "done" /\ del'[e].read # Empty))
                           => store'[del'[e].key] = Absent
                        /\ del'[e].ok => del'[e].read # Empty
      BY Zenon
    <3>2. CASE e = d
      BY Zenon, <2>1, <3>1, <3>2
    <3>3. CASE e # d
      BY Zenon, <2>1, <3>3
    <3> QED
      BY Zenon, <3>2, <3>3
  <2> QED
    BY Zenon, <1>5, <2>2, <2>3 DEF DeleteRead
<1>6. ASSUME NEW d \in Deleters, DeleteWrite(d) PROVE DelOK'
  <2> DEFINE exists == del[d].read \notin {Absent, Empty}
  <2>1. /\ \A e \in Deleters \ {d} : del'[e] = del[e]
        /\ del[d].at = "read" /\ del[d].key \in Keys
    BY Zenon, <1>6 DEF DeleteWrite, DeleteWhere
  <2>2. \A k \in Keys : store'[k] \in {store[k], Absent}
    BY Zenon, <1>6, <2>1 DEF DeleteWrite, DeleteWhere
  <2>3. ASSUME NEW e \in Deleters \ {d}
        PROVE  /\ del'[e].at # "idle" => del'[e].key \in Keys
               /\ del'[e].at # "idle" /\ ~del'[e].rewritten
                    /\ (del'[e].read = Absent \/ (del'[e].at = "done" /\ del'[e].read # Empty))
                  => store'[del'[e].key] = Absent
               /\ del'[e].ok => del'[e].read # Empty
    <3>1. del'[e] = del[e] /\ e \in Deleters
      BY Zenon, <2>1
    <3>2. del[e].key \in Keys => store'[del[e].key] \in {store[del[e].key], Absent}
      BY Zenon, <2>2
    <3>3. /\ del[e].at # "idle" => del[e].key \in Keys
          /\ del[e].at # "idle" /\ ~del[e].rewritten
               /\ (del[e].read = Absent \/ (del[e].at = "done" /\ del[e].read # Empty))
             => store[del[e].key] = Absent
          /\ del[e].ok => del[e].read # Empty
      BY Zenon, <3>1
    <3> HIDE DEF TypeOK, DelOK, DeleteCalls
    <3> QED
      BY Zenon, <3>1, <3>2, <3>3
  <2>4. CASE del' = [del EXCEPT ![d] = Idle]
    <3>1. del'[d].at = "idle" /\ ~del'[d].ok
      BY Zenon, <2>4 DEF Idle
    <3> QED
      BY Zenon, <2>3, <3>1
  <2>5. CASE /\ store' = IF exists THEN [store EXCEPT ![del[d].key] = Absent] ELSE store
             /\ del' = [del EXCEPT ![d] = Returned(del[d], exists)]
    <3>1. /\ del'[d].key = del[d].key /\ del'[d].read = del[d].read
          /\ del'[d].ok = exists /\ del'[d].rewritten = (del[d].rewritten /\ ~exists)
      BY Zenon, <2>5 DEF Returned
    <3>2. exists => store'[del[d].key] = Absent
      BY Zenon, <2>1, <2>5
    <3>3. ~exists /\ del[d].read # Empty /\ ~del[d].rewritten => store'[del[d].key] = Absent
      BY Zenon, <2>1, <2>5
    <3> QED
      BY <2>1, <2>3, <3>1, <3>2, <3>3
  <2> QED
    BY Zenon, <1>6, <2>4, <2>5 DEF DeleteWrite, DeleteWhere
<1>7. ASSUME NEW d \in Deleters, DeleteReturn(d) PROVE DelOK'
  BY Zenon, <1>7 DEF DeleteReturn, Idle
<1>8. CASE snapshot
  BY Zenon, <1>8 DEF snapshot
<1>9. ASSUME NEW k \in Keys, GetWithSnapshot(k) \/ seek(k) PROVE DelOK'
  BY Zenon, <1>9 DEF GetWithSnapshot, seek
<1>10. CASE iter_new \/ next
  BY Zenon, <1>10 DEF iter_new, next
<1> HIDE DEF TypeOK, DelOK, DeleteCalls
<1> QED
  BY Zenon, <1>1, <1>2, <1>3, <1>4, <1>5, <1>6, <1>7, <1>8, <1>9, <1>10 DEF Next

(* seek begins a pass, *)
LEMMA SeekKeeps == ASSUME TypeOK, NEW k \in Keys, seek(k) PROVE IterOK'
<1>1. /\ iter'.out = <<>> /\ iter'.ended = FALSE /\ iter'.from = k /\ iter'.seek = TRUE
      /\ iter'.view = iter.view
      /\ iter'.cur = AtOrAfter(iter.view, k)
      /\ iter'.missed = (AtOrAfter(iter.view, k) = 0)
  BY Zenon DEF seek, TypeOK, Iterators
<1>2. CursorOK'
  BY Zenon, <1>1 DEF CursorOK
<1>3. PassIsExact'
  BY <1>1 DEF PassIsExact, Exact, Range
<1> QED
  BY Zenon, <1>2, <1>3 DEF IterOK

(* and so does a new iterator. *)
LEMMA NewKeeps == ASSUME iter_new PROVE IterOK'
<1>1. /\ iter'.out = <<>> /\ iter'.ended = FALSE /\ iter'.from = 1 /\ iter'.seek = FALSE
      /\ iter'.cur = 0
  BY Zenon DEF iter_new, NoIter
<1> QED
  BY <1>1 DEF IterOK, CursorOK, PassIsExact, Exact, Range

(* next goes on with the pass: it returns the least key that follows, or ends the
   pass after its last key. *)
LEMMA NextKeeps == ASSUME TypeOK, IterOK, next PROVE IterOK'
<1> SUFFICES ASSUME ~iter.missed PROVE IterOK'
  <2>1. iter'.missed = iter.missed
    BY Zenon DEF next, TypeOK, Iterators
  <2> QED
    BY Zenon, <2>1 DEF IterOK, CursorOK, PassIsExact
<1> DEFINE c    == Advance(iter).cur
           past == IF iter.ended THEN <<>> ELSE iter.out
           from == IF iter.ended THEN 1 ELSE iter.from
<1>1. /\ iter'.view = iter.view /\ iter'.missed = FALSE
      /\ iter'.cur = c /\ iter'.seek = Advance(iter).seek /\ iter'.from = from
      /\ iter'.out = IF c = 0 THEN past ELSE Append(past, c)
      /\ iter'.ended = (c = 0)
  BY Zenon DEF next, TypeOK, Iterators
<1>2. /\ iter.cur \in Keys \cup {0} /\ iter.from \in Nat /\ iter.out \in Seq(Keys)
      /\ iter.ended \in BOOLEAN /\ iter.seek \in BOOLEAN
  BY Zenon DEF TypeOK, Iterators
<1>3. past \in Seq(Keys) /\ from \in Nat /\ Keys \subseteq Nat /\ 0 \notin Keys
  BY <1>2, LevelDbAssumption
<1>4. /\ \A i, j \in DOMAIN past : i < j => past[i] < past[j]
      /\ past = <<>> => Range(past) = {}
      /\ past # <<>> => /\ Range(past) = {k \in Present(iter.view) : k >= from /\ k <= Last(past)}
                        /\ Last(past) = iter.cur /\ iter.cur # 0 /\ ~iter.seek
                             /\ ~iter.ended
  <2>1. CASE iter.ended
    BY <2>1 DEF Range
  <2>2. CASE ~iter.ended
    <3>1. Exact(iter) /\ past = iter.out /\ from = iter.from
      BY Zenon, <2>2 DEF IterOK, PassIsExact
    <3>2. past # <<>> => Last(past) = iter.cur /\ iter.cur # 0 /\ ~iter.seek
      BY Zenon, <2>2, <3>1 DEF IterOK, CursorOK
    <3>3. past = <<>> => Range(past) = {}
      BY DEF Range
    <3> QED
      BY Zenon, <2>2, <3>1, <3>2, <3>3 DEF Exact, Pass
  <2> QED
    BY Zenon, <1>2, <2>1, <2>2
<1>5. /\ past = <<>> => c = AtOrAfter(iter.view, from)
      /\ past # <<>> => c = AtOrAfter(iter.view, iter.cur + 1)
      /\ Advance(iter).seek = FALSE
  <2>1. CASE iter.cur = 0
    <3>1. iter.seek = FALSE /\ past = <<>> /\ from = 1
      BY Zenon, <1>2, <2>1 DEF IterOK, CursorOK
    <3> QED
      BY Zenon, <2>1, <3>1 DEF Advance
  <2>2. CASE iter.cur # 0 /\ iter.seek
    <3>1. past = <<>> /\ from = iter.from /\ iter.cur = AtOrAfter(iter.view, iter.from)
      BY Zenon, <2>2 DEF IterOK, CursorOK
    <3> QED
      BY Zenon, <2>2, <3>1 DEF Advance
  <2>3. CASE iter.cur # 0 /\ ~iter.seek
    <3>1. past # <<>>
      BY Zenon, <2>3 DEF IterOK, CursorOK
    <3> QED
      BY Zenon, <1>2, <2>3, <3>1 DEF Advance
  <2> QED
    BY Zenon, <1>2, <2>1, <2>2, <2>3
<1>6. /\ c = 0 => \A j \in Present(iter.view) : j >= from => past # <<>> /\ j <= Last(past)
      /\ c # 0 => /\ c \in Present(iter.view) /\ c >= from
                  /\ \A j \in Present(iter.view) :
                        j >= from => c <= j \/ (past # <<>> /\ j <= Last(past))
      /\ c # 0 /\ past # <<>> => c > Last(past)
  <2>1. Present(iter.view) \subseteq Nat \ {0}
    BY Zenon, LevelDbAssumption DEF Present
  <2>2. CASE past = <<>>
    BY <1>2, <1>3, <1>5, <2>1, <2>2, AtOrAfterIs
  <2>3. CASE past # <<>>
    <3>1. iter.cur + 1 \in Nat /\ Last(past) = iter.cur /\ iter.cur \in Nat
      <4>1. Last(past) = iter.cur
        BY Zenon, <1>4, <2>3
      <4>2. iter.cur \in Nat
        BY Zenon, <1>2, KeysAreNat
      <4> QED
        BY <4>1, <4>2
    <3>2. iter.cur >= from
      <4>1. past[Len(past)] \in Range(past)
        BY <1>3, <2>3 DEF Range
      <4> QED
        BY Zenon, <1>4, <2>3, <4>1, <3>1 DEF Last
    <3> HIDE DEF c, past, from
    <3> QED
      BY <1>2, <1>3, <1>5, <2>1, <2>3, <3>1, <3>2, AtOrAfterIs
  <2> QED
    BY Zenon, <2>2, <2>3
<1> HIDE DEF c, past, from
<1>7. CASE c = 0
  <2>1. Range(past) = {k \in Present(iter.view) : k >= from}
    BY Zenon, <1>4, <1>6, <1>7
  <2> QED
    BY Zenon, <1>1, <1>4, <1>5, <1>7, <2>1 DEF IterOK, CursorOK, PassIsExact, Exact, Pass
<1>8. CASE c # 0
  <2>1. c \in Keys
    BY Zenon, <1>6, <1>8 DEF Present
  <2>2. \A k \in Range(past) : k < c
    <3> SUFFICES ASSUME NEW k \in Range(past) PROVE k < c
      BY Zenon
    <3>1. past # <<>> /\ k \in Keys /\ k <= Last(past) /\ Last(past) \in Keys
      BY Zenon, <1>2, <1>4 DEF Present
    <3>2. c > Last(past)
      BY Zenon, <1>6, <1>8, <3>1
    <3>3. k \in Nat /\ Last(past) \in Nat /\ c \in Nat
      BY Zenon, <2>1, <3>1, KeysAreNat
    <3> QED
      BY <3>1, <3>2, <3>3
  <2>3. /\ Append(past, c) # <<>> /\ Last(Append(past, c)) = c
        /\ Range(Append(past, c)) = Range(past) \cup {c}
        /\ \A i, j \in DOMAIN Append(past, c) : i < j
             => Append(past, c)[i] < Append(past, c)[j]
    BY Zenon, <1>3, <1>4, <2>1, <2>2, AppendIs
  <2>4. Range(past) \cup {c} = {k \in Present(iter.view) : k >= from /\ k <= c}
    <3>1. Present(iter.view) \subseteq Nat
      BY Zenon, LevelDbAssumption DEF Present
    <3> QED
      BY <1>3, <1>4, <1>6, <1>8, <2>1, <2>2, <3>1
  <2> QED
    BY ZenonT(60), <1>1, <1>5, <1>8, <2>3, <2>4 DEF IterOK, CursorOK, PassIsExact, Exact, Pass
<1> QED
  BY Zenon, <1>7, <1>8

(* The invariant holds in every reachable state. *)
LEMMA Invariance == Spec => []IInv
<1>1. IInv /\ [Next]_vars => IInv'
  <2> SUFFICES ASSUME IInv, [Next]_vars PROVE IInv'
    BY Zenon
  <2>1. TypeOK' /\ DelOK'
    BY Zenon, NextType, NextDel DEF IInv
  <2>2. ASSUME iter' = iter PROVE IterOK'
    BY Zenon, <2>2 DEF IInv, IterOK, CursorOK, PassIsExact
  <2>3. CASE iter' # iter
    <3>1. (\E k \in Keys : seek(k)) \/ iter_new \/ next
      BY Zenon, <2>3
         DEF Next, vars, put, BatchAdd, commit, DeleteRead, DeleteWrite, DeleteWhere, 
                  DeleteReturn, snapshot, GetWithSnapshot
    <3> QED
      BY Zenon, <2>1, <3>1, SeekKeeps, NewKeeps, NextKeeps DEF IInv
  <2> QED
    BY Zenon, <2>1, <2>2, <2>3 DEF IInv
<1> QED
  BY <1>1, InitIInv, PTL DEF Spec

(* For every set of keys and every number of threads: an iteration returns the
   keys of the database as it was, each once and in order, whatever is written
   meanwhile and however often next and seek are called. *)
THEOREM IteratorPassIsExact == Spec => []PassIsExact
<1>1. IInv => PassIsExact
  BY Zenon DEF IInv, IterOK
<1> QED
  BY <1>1, Invariance, PTL

(* For every number of threads that delete, put and commit: a delete that has
   returned Ok leaves its key without a value, unless it found an empty one or the
   key was written after its last library call. *)
THEOREM DeleteNonEmptyIsDeleted == Spec => []NonEmptyIsDeleted
<1>1. IInv => NonEmptyIsDeleted
  BY Zenon DEF IInv, DelOK, NonEmptyIsDeleted
<1> QED
  BY <1>1, Invariance, PTL

-----------------------------------------------------------------------------
(* The HTTP parsers *)

(* r is what is left of s when some bytes are taken off its front. *)
EndOf(r, s) ==
    /\ Len(r) <= Len(s)
    /\ \A i \in 1 .. Len(r) : r[i] = s[Len(s) - Len(r) + i]

(* q is found in w after o bytes. *)
PieceOf(q, w, o) == \A i \in 1 .. Len(q) : q[i] = w[o + i]

(* What is between two places of a sequence, *)
LEMMA PieceIs ==
    ASSUME NEW T, NEW s \in Seq(T), NEW m \in Nat, NEW n \in 0 .. Len(s), m <= n
    PROVE  /\ SubSeq(s, m + 1, n) \in Seq(T)
           /\ Len(SubSeq(s, m + 1, n)) = n - m
           /\ PieceOf(SubSeq(s, m + 1, n), s, m)
<1> DEFINE q == SubSeq(s, m + 1, n)
<1>1. q \in Seq(T) /\ Len(q) = n - m /\ \A i \in 1 .. n - m : q[i] = s[m + i]
  OBVIOUS
<1> HIDE DEF q
<1>2. PieceOf(q, s, m)
  BY Zenon, <1>1 DEF PieceOf
<1> QED
  BY Zenon, <1>1, <1>2 DEF q

(* and what split_to leaves. *)
LEMMA DropIs ==
    ASSUME NEW T, NEW s \in Seq(T), NEW k \in 0 .. Len(s)
    PROVE  /\ Drop(s, k) \in Seq(T)
           /\ Len(Drop(s, k)) = Len(s) - k
           /\ \A i \in 1 .. Len(s) - k : Drop(s, k)[i] = s[k + i]
           /\ EndOf(Drop(s, k), s)
<1>1. /\ Drop(s, k) \in Seq(T)
      /\ Len(Drop(s, k)) = Len(s) - k
      /\ \A i \in 1 .. Len(s) - k : Drop(s, k)[i] = s[k + i]
  BY DEF Drop
<1> HIDE DEF Drop
<1> QED
  BY <1>1 DEF EndOf

LEMMA EndOfEnd ==
    ASSUME NEW T, NEW q \in Seq(T), NEW r \in Seq(T), NEW s \in Seq(T), EndOf(q, r), EndOf(r, s)
    PROVE  EndOf(q, s)
<1>1. Len(q) <= Len(r) /\ Len(r) <= Len(s) /\ Len(q) \in Nat /\ Len(r) \in Nat /\ Len(s) \in Nat
  BY DEF EndOf
<1>2. ASSUME NEW i \in 1 .. Len(q) PROVE q[i] = s[Len(s) - Len(q) + i]
  <2> DEFINE j == Len(r) - Len(q) + i
  <2>1. j \in 1 .. Len(r) /\ Len(s) - Len(r) + j = Len(s) - Len(q) + i
    BY <1>1
  <2>2. q[i] = r[j]
    BY DEF EndOf
  <2>3. r[j] = s[Len(s) - Len(r) + j]
    BY Zenon, <2>1 DEF EndOf
  <2> QED
    BY Zenon, <2>1, <2>2, <2>3
<1> QED
  BY <1>1, <1>2 DEF EndOf

(* The scans: where the first byte of a kind is, *)
LEMMA OffsetIs ==
    ASSUME NEW T, NEW s \in Seq(T), NEW S, Found(s, S)
    PROVE  /\ Offset(s, S) \in 0 .. Len(s) - 1
           /\ \A i \in 1 .. Offset(s, S) : s[i] \notin S
<1> DEFINE at == {i \in 1 .. Len(s) : s[i] \in S}
<1>1. at # {} /\ at \in SUBSET Nat
  BY DEF Found, Offset
<1>2. Offset(s, S) = Min(at) - 1
  BY Zenon, <1>1 DEF Offset
<1>3. Min(at) \in at /\ \A j \in at : Min(at) <= j
  BY Zenon, <1>1, MinIs
<1>4. Min(at) \in 1 .. Len(s) /\ Len(s) \in Nat
  BY <1>3
<1>5. \A i \in 1 .. Len(s) : s[i] \in S => Min(at) <= i
  BY Zenon, <1>3
<1> HIDE DEF at
<1> QED
  BY <1>2, <1>4, <1>5

(* how many spaces come first, *)
LEMMA SkipSpacesIs ==
    ASSUME NEW T, NEW s \in Seq(T)
    PROVE  /\ skip_spaces(s) \in 0 .. Len(s)
           /\ SkipSpaces(s) \in Seq(T)
           /\ EndOf(SkipSpaces(s), s)
<1> DEFINE at == {i \in 1 .. Len(s) : s[i] \notin Space}
<1>1. at \in SUBSET Nat
  OBVIOUS
<1>2. at # {} => Min(at) \in at /\ \A j \in at : Min(at) <= j
  BY Zenon, <1>1, MinIs
<1>3. skip_spaces(s) = IF at = {} THEN Len(s) ELSE Min(at) - 1
  BY Zenon DEF skip_spaces
<1>4. skip_spaces(s) \in 0 .. Len(s)
  BY <1>2, <1>3
<1> QED
  BY Zenon, <1>4, DropIs DEF SkipSpaces

(* and what is left without the spaces at the end. *)
LEMMA TrimIs ==
    ASSUME NEW T, NEW s \in Seq(T)
    PROVE  /\ trim_suffix_spaces(s) \in Seq(T)
           /\ NoEol(s) => NoEol(trim_suffix_spaces(s))
<1> DEFINE at == {i \in 1 .. Len(s) : s[i] \notin Space}
<1>1. CASE at = {}
  BY Zenon, <1>1 DEF trim_suffix_spaces
<1>2. CASE at # {}
  <2>1. at \in SUBSET (0 .. Len(s)) /\ Len(s) \in Nat
    OBVIOUS
  <2>2. Max(at) \in at
    BY Zenon, <1>2, <2>1, MaxIs
  <2>3. trim_suffix_spaces(s) = SubSeq(s, 1, Max(at))
    BY Zenon, <1>2 DEF trim_suffix_spaces
  <2>4. \A n \in 1 .. Len(s) :
            /\ SubSeq(s, 1, n) \in Seq(T)
            /\ NoEol(s) => NoEol(SubSeq(s, 1, n))
    <3>1. \A n \in 1 .. Len(s) :
              /\ SubSeq(s, 1, n) \in Seq(T) /\ Len(SubSeq(s, 1, n)) = n
              /\ \A i \in 1 .. n : i \in 1 .. Len(s) /\ SubSeq(s, 1, n)[i] = s[i]
      OBVIOUS
    <3> QED
      BY Zenon, <3>1 DEF NoEol
  <2> QED
    BY Zenon, <2>2, <2>3, <2>4
<1> QED
  BY Zenon, <1>1, <1>2

(* skip_newlines takes off complete line ends, and if there is more than one a
   blank line is the last. *)
LEMMA SkipNewlinesIs ==
    ASSUME NEW T, NEW s \in Seq(T)
    PROVE  /\ SkipNewlines(s).len \in 0 .. Len(s)
           /\ SkipNewlines(s).is_break =>
                  LET k == SkipNewlines(s).len
                  IN  /\ k > 1 /\ s[k] = "n"
                      /\ \/ s[k - 1] = "n"
                         \/ k > 2 /\ s[k - 1] = "c" /\ s[k - 2] = "n"
<1> DEFINE runs == {k \in 0 .. Len(s) : \A i \in 1 .. k : NewlineAt(s, i) \in 1 .. k + 1 - i}
           k == Max(runs)
<1>1. Len(s) \in Nat /\ runs \in SUBSET (0 .. Len(s)) /\ 0 \in runs
  OBVIOUS
<1>2. k \in runs
  BY Zenon, <1>1, MaxIs
<1>3. SkipNewlines(s) = [is_break |-> \E i \in 1 .. k - 1 : s[i] = "n", len |-> k]
  BY Zenon DEF SkipNewlines
<1>4. k \in 0 .. Len(s) /\ \A i \in 1 .. k : NewlineAt(s, i) \in 1 .. k + 1 - i
  BY Zenon, <1>2
<1> HIDE DEF k
<1>5. ASSUME NEW i \in 1 .. k
      PROVE  s[i] = "n" \/ (i < k /\ s[i] = "c" /\ s[i + 1] = "n")
  BY <1>4 DEF NewlineAt
<1>6. ASSUME NEW i \in 1 .. k - 1, s[i] = "n"
      PROVE  /\ k > 1 /\ s[k] = "n"
             /\ \/ s[k - 1] = "n"
                \/ k > 2 /\ s[k - 1] = "c" /\ s[k - 2] = "n"
  <2>1. k > 1 /\ k \in 1 .. k /\ k - 1 \in 1 .. k
    BY <1>4
  <2>2. s[k] = "n"
    BY <1>5, <2>1
  <2>3. CASE s[k - 1] = "n"
    BY Zenon, <2>1, <2>2, <2>3
  <2>4. CASE s[k - 1] # "n"
    <3>1. s[k - 1] = "c" /\ i # k - 1
      BY Zenon, <1>5, <1>6, <2>1, <2>4
    <3>2. k > 2 /\ k - 2 \in 1 .. k /\ (k - 2) + 1 = k - 1
      BY <1>4, <3>1
    <3>3. s[k - 2] = "n"
      BY Zenon, <1>5, <2>4, <3>2
    <3> QED
      BY Zenon, <2>1, <2>2, <3>1, <3>2, <3>3
  <2> QED
    BY Zenon, <2>3, <2>4
<1>7. SkipNewlines(s).len = k /\ SkipNewlines(s).is_break = (\E i \in 1 .. k - 1 : s[i] = "n")
  BY <1>3
<1> QED
  BY Zenon, <1>4, <1>6, <1>7

(* parse_header leaves what follows the value, and the value ends with its line. *)
LEMMA HeaderIs ==
    ASSUME NEW T, NEW s \in Seq(T), parse_header(s).some
    PROVE  /\ parse_header(s).rest \in Seq(T)
           /\ EndOf(parse_header(s).rest, s)
           /\ parse_header(s).name \in Seq(T) /\ parse_header(s).value \in Seq(T)
           /\ NoEol(parse_header(s).value)
<1> DEFINE line == Drop(s, skip_spaces(s))
           nlen == Offset(line, {":"})
           tail == IF Found(line, {":"}) THEN Drop(line, nlen + 1) ELSE <<>>
           value == SkipSpaces(tail)
           vlen == Offset(value, Eol)
<1>1. /\ Found(line, {":"}) /\ Found(value, Eol)
      /\ parse_header(s).rest = Drop(value, vlen)
      /\ parse_header(s).name = trim_suffix_spaces(SubSeq(line, 1, nlen))
      /\ parse_header(s).value = trim_suffix_spaces(SubSeq(value, 1, vlen))
  BY Zenon DEF parse_header, HeaderIn
<1>2. line \in Seq(T) /\ EndOf(line, s)
  BY Zenon, SkipSpacesIs, DropIs
<1> HIDE DEF line
<1>3. nlen + 1 \in 0 .. Len(line) /\ tail = Drop(line, nlen + 1)
  <2>1. nlen \in 0 .. Len(line) - 1
    BY Zenon, <1>1, <1>2, OffsetIs
  <2> HIDE DEF nlen
  <2>2. nlen + 1 \in 0 .. Len(line)
    BY <1>2, <2>1
  <2> QED
    BY Zenon, <1>1, <2>2
<1>n. SubSeq(line, 1, nlen) \in Seq(T)
  <2>1. nlen \in 0 .. Len(line) - 1
    BY Zenon, <1>1, <1>2, OffsetIs
  <2> HIDE DEF nlen
  <2> QED
    BY <1>2, <2>1
<1> HIDE DEF nlen
<1>4. tail \in Seq(T) /\ EndOf(tail, line)
  BY Zenon, <1>2, <1>3, DropIs
<1> HIDE DEF tail
<1>5. value \in Seq(T) /\ EndOf(value, tail)
  BY Zenon, <1>4, SkipSpacesIs
<1> HIDE DEF value
<1>6. vlen \in 0 .. Len(value) - 1 /\ \A i \in 1 .. vlen : value[i] \notin Eol
  BY Zenon, <1>1, <1>5, OffsetIs
<1> HIDE DEF vlen
<1>7. vlen \in 0 .. Len(value)
  BY <1>5, <1>6
<1>8. Drop(value, vlen) \in Seq(T) /\ EndOf(Drop(value, vlen), value)
  BY Zenon, <1>5, <1>7, DropIs
<1>9. SubSeq(value, 1, vlen) \in Seq(T) /\ NoEol(SubSeq(value, 1, vlen))
  BY <1>5, <1>6, <1>7 DEF NoEol
<1>10. EndOf(Drop(value, vlen), s)
  BY Zenon, <1>2, <1>4, <1>5, <1>8, EndOfEnd
<1> QED
  BY Zenon, <1>1, <1>n, <1>8, <1>9, <1>10, TrimIs

-----------------------------------------------------------------------------
(* The bytes of the stream *)
Sym == {Whole(msg)[i] : i \in 1 .. cut}

(* What is buffered is what was read last, and before it comes what into_bytes
   has taken. *)
BytesOK ==
    /\ cut \in Nat /\ pos \in 0 .. cut
    /\ buf \in Seq(Sym) /\ body \in Seq(Sym)
    /\ Len(buf) + Len(body) <= pos
    /\ PieceOf(buf, Stream, pos - Len(buf)) /\ PieceOf(body, Stream, BodyStart)

(* The items of the first line come one by one, *)
ItemsOK ==
    /\ msg.first.kind \in {"request", "response"}
    /\ parts \in Seq(Seq(Sym))
    /\ Len(parts) \in 0 .. 3
    /\ state = States[Len(parts) + 1] \/ (Len(parts) = 3 /\ state = "Finished")

(* and the parser stops at a blank line, with all of them. *)
StopOK ==
    /\ pc \in {"read", "parse"} => result = "none" /\ body = <<>>
    /\ pc \in {"read", "parse", "body", "done"}
    /\ pc = "body" => result = "ok"
    /\ result = "ok" => Len(parts) = 3 /\ BlankLineEnds(BodyStart)
    /\ result = "ok" /\ pc = "done" => buf = <<>> /\ pos = cut

(* The inductive invariant *)
HttpOK ==
    /\ BytesOK /\ ItemsOK /\ StopOK
    /\ headers \in Seq(Seq(Sym) \X Seq(Sym)) /\ NothingSpansLines

LEMMA StreamIs ==
    ASSUME cut \in Nat
    PROVE  /\ Stream \in Seq(Sym) /\ Len(Stream) = cut
           /\ \A i \in 1 .. cut : Stream[i] = Whole(msg)[i]
<1>1. \A i \in 1 .. cut : Whole(msg)[i] \in Sym
  BY Zenon DEF Sym
<1> QED
  BY <1>1 DEF Stream
(* Every message is some stream of bytes, and nothing of it has been read. *)
LEMMA HttpOKInit == HttpInit => HttpOK
<1> SUFFICES ASSUME HttpInit PROVE HttpOK
  BY Zenon
<1>1. cut \in Nat /\ pos = 0 /\ buf = <<>> /\ body = <<>> /\ parts = <<>> /\ headers = <<>>
  BY DEF HttpInit
<1>2. msg.first \in Firsts
  BY DEF HttpInit
<1>3. msg.first.kind \in {"request", "response"}
  BY Zenon, <1>2, HttpAssumption
<1>4. pc = "read" /\ result = "none" /\ state = States[1]
  BY Zenon DEF HttpInit
<1>5. BytesOK
  BY <1>1 DEF BytesOK, PieceOf
<1>6. ItemsOK
  BY <1>1, <1>3, <1>4 DEF ItemsOK
<1>7. StopOK
  BY Zenon, <1>1, <1>4 DEF StopOK
<1>8. headers \in Seq(Seq(Sym) \X Seq(Sym)) /\ NothingSpansLines
  BY <1>1 DEF NothingSpansLines
<1> QED
  BY Zenon, <1>5, <1>6, <1>7, <1>8 DEF HttpOK

(* The stream stays the same. *)
LEMMA StreamStays ==
    ASSUME UNCHANGED <<msg, cut>>
    PROVE  Stream' = Stream /\ Sym' = Sym /\ States' = States
  BY Zenon DEF Stream, Sym, States

(* Taking bytes off the front of the buffer of the head leaves the last read. *)
LEMMA TakenKeeps ==
    ASSUME BytesOK, body = <<>>, NEW rest \in Seq(Sym), EndOf(rest, buf), buf' = rest,
           UNCHANGED <<msg, cut, pos, body>>
    PROVE  BytesOK'
<1>1. Stream' = Stream /\ Sym' = Sym
  BY Zenon, StreamStays
<1>2. /\ Len(rest) \in Nat /\ Len(buf) \in Nat /\ Len(rest) <= Len(buf) /\ Len(buf) <= pos
      /\ pos \in 0 .. cut /\ cut \in Nat /\ Len(body) = 0
  BY DEF BytesOK, EndOf
<1>3. ASSUME NEW i \in 1 .. Len(rest) PROVE rest[i] = Stream[pos - Len(rest) + i]
  <2> DEFINE j == Len(buf) - Len(rest) + i
  <2>1. j \in 1 .. Len(buf) /\ pos - Len(buf) + j = pos - Len(rest) + i
    BY <1>2
  <2>2. rest[i] = buf[j]
    BY Zenon DEF EndOf
  <2>3. buf[j] = Stream[pos - Len(buf) + j]
    BY Zenon, <2>1 DEF BytesOK, PieceOf
  <2> QED
    BY Zenon, <2>1, <2>2, <2>3
<1> QED
  BY <1>1, <1>2, <1>3 DEF BytesOK, PieceOf
(* The states of both parsers follow one another. *)
LEMMA FollowingIs ==
    ASSUME ItemsOK, state \notin {"Headers", "Finished"}
    PROVE  /\ Len(parts) \in 0 .. 2
           /\ Following(state) = States[Len(parts) + 2]
<1> DEFINE n == Len(parts) + 1
<1>1. n \in 1 .. 4 /\ n + 1 = Len(parts) + 2
  <2>1. Len(parts) \in 0 .. 3
    BY Zenon DEF ItemsOK
  <2>2. \A x \in 0 .. 3 : x + 1 \in 1 .. 4 /\ (x + 1) + 1 = x + 2
    OBVIOUS
  <2> QED
    BY Zenon, <2>1, <2>2
<1>2. state = States[n]
  BY Zenon DEF ItemsOK
<1> HIDE DEF n
<1>3. \A j, k \in 1 .. 5 : States[j] = States[k] => j = k
  BY DEF States
<1>4. States[4] = "Headers"
  BY DEF States
<1>5. n \in 1 .. 3 /\ n \in 1 .. 5
  <2>1. n # 4
    BY Zenon, <1>2, <1>4
  <2> QED
    BY <1>1, <2>1
<1>6. (CHOOSE k \in 1 .. 5 : States[k] = state) = n
  BY Zenon, <1>2, <1>3, <1>5
<1>7. Following(state) = States[n + 1]
  BY Zenon, <1>6 DEF Following
<1>8. Len(parts) \in 0 .. 2
  <2>1. n = Len(parts) + 1 /\ Len(parts) \in 0 .. 3
    BY Zenon DEF n, ItemsOK
  <2> QED
    BY <1>5, <2>1
<1> QED
  BY Zenon, <1>1, <1>7, <1>8

LEMMA HeadersIs ==
    ASSUME ItemsOK, state = "Headers"
    PROVE  Len(parts) = 3 /\ Following(state) = "Finished"
<1>1. /\ States[1] # "Headers" /\ States[2] # "Headers" /\ States[3] # "Headers"
      /\ States[4] = "Headers" /\ States[5] = "Finished"
  BY DEF States
<1>2. Len(parts) \in 0 .. 3 /\ state = States[Len(parts) + 1]
  BY Zenon DEF ItemsOK
<1>3. \A x \in 0 .. 3 : x = 3 \/ x + 1 = 1 \/ x + 1 = 2 \/ x + 1 = 3
  OBVIOUS
<1>4. Len(parts) = 3
  BY Zenon, <1>1, <1>2, <1>3
<1>5. \A k \in 1 .. 5 : States[k] = state <=> k = 4
  BY DEF States
<1>6. 4 \in 1 .. 5 /\ 4 + 1 = 5
  OBVIOUS
<1>7. (CHOOSE k \in 1 .. 5 : States[k] = state) = 4
  BY Zenon, <1>5, <1>6
<1>8. Following(state) = States[4 + 1]
  BY Zenon, <1>7 DEF Following
<1> QED
  BY Zenon, <1>1, <1>4, <1>6, <1>8

(* An item of the first line keeps the invariant, wherever it ends. *)
LEMMA ItemKeeps ==
    ASSUME HttpOK, NEW st, st \notin {"Headers", "Finished"},
           NEW rest \in Seq(Sym), EndOf(rest, buf), NEW found, NEW len, NEW valid,
           found => len \in 0 .. Len(rest),
           found /\ valid => NoEol(SubSeq(rest, 1, len)),
           Item(st, rest, found, len, valid)
    PROVE  HttpOK'
<1>0. /\ pc = "parse" /\ state = st /\ UNCHANGED <<msg, cut, pos, headers, body, room, torn>>
      /\ result = "none" /\ body = <<>>
  BY Zenon DEF Item, HttpOK, StopOK
<1>1. Stream' = Stream /\ Sym' = Sym /\ States' = States
  BY Zenon, <1>0, StreamStays
<1>2. CASE /\ found /\ valid
           /\ parts' = Append(parts, SubSeq(rest, 1, len))
           /\ state' = Following(state)
           /\ Again(Drop(rest, len))
  <2> DEFINE piece == SubSeq(rest, 1, len)
  <2>1. piece \in Seq(Sym) /\ NoEol(piece)
    <3>1. len \in 0 .. Len(rest)
      BY Zenon, <1>2
    <3>2. piece \in Seq(Sym)
      BY <3>1
    <3> QED
      BY Zenon, <1>2, <3>2
  <2> HIDE DEF piece
  <2>2. Drop(rest, len) \in Seq(Sym) /\ EndOf(Drop(rest, len), buf)
    <3>1. Drop(rest, len) \in Seq(Sym) /\ EndOf(Drop(rest, len), rest)
      BY Zenon, <1>2, DropIs
    <3>2. buf \in Seq(Sym)
      BY Zenon DEF HttpOK, BytesOK
    <3> QED
      BY Zenon, <3>1, <3>2, EndOfEnd
  <2>3. BytesOK'
    BY Zenon, <1>0, <1>2, <2>2, TakenKeeps DEF HttpOK, Again
  <2>4. Len(parts) \in 0 .. 2 /\ state' = States[Len(parts) + 2]
    BY Zenon, <1>0, <1>2, FollowingIs DEF HttpOK
  <2>5. parts' = Append(parts, piece) /\ parts \in Seq(Seq(Sym))
    BY Zenon, <1>2 DEF HttpOK, ItemsOK, piece
  <2>6. /\ parts' \in Seq(Seq(Sym)) /\ Len(parts') = Len(parts) + 1 /\ Len(parts) \in Nat
        /\ \A i \in 1 .. Len(parts) + 1 : parts'[i] = IF i <= Len(parts) THEN parts[i] ELSE piece
    <3> DEFINE Q == Seq(Sym)
    <3>0. parts \in Seq(Q) /\ piece \in Q
      BY Zenon, <2>1, <2>5
    <3> HIDE DEF Q
    <3>1. /\ Append(parts, piece) \in Seq(Q)
          /\ Len(Append(parts, piece)) = Len(parts) + 1 /\ Len(parts) \in Nat
          /\ \A i \in 1 .. Len(parts) + 1 :
                 Append(parts, piece)[i] = IF i <= Len(parts) THEN parts[i] ELSE piece
      BY <3>0
    <3> QED
      BY Zenon, <2>5, <3>1 DEF Q
  <2>7. ItemsOK'
    <3>1. Len(parts) \in 0 .. 2 /\ Len(parts') = Len(parts) + 1
      BY Zenon, <2>4, <2>6
    <3>2. Len(parts') \in 0 .. 3 /\ Len(parts') + 1 = Len(parts) + 2
      <4>1. \A x \in 0 .. 2 : x + 1 \in 0 .. 3 /\ (x + 1) + 1 = x + 2
        OBVIOUS
      <4> QED
        BY Zenon, <3>1, <4>1
    <3> QED
      BY Zenon, <1>0, <1>1, <2>4, <2>6, <3>2 DEF HttpOK, ItemsOK
  <2>8. StopOK'
    BY Zenon, <1>0, <1>2 DEF StopOK, Again
  <2>9. headers' \in Seq(Seq(Sym) \X Seq(Sym))' /\ NothingSpansLines'
    <3>1. \A i \in 1 .. Len(parts) + 1 : NoEol(parts'[i])
      <4> SUFFICES ASSUME NEW i \in 1 .. Len(parts) + 1 PROVE NoEol(parts'[i])
        BY Zenon
      <4>1. i \in 1 .. Len(parts) \/ ~ (i <= Len(parts))
        BY <2>6
      <4>2. CASE i \in 1 .. Len(parts)
        <5>1. i <= Len(parts)
          BY <4>2, <2>6
        <5> QED
          BY Zenon, <2>6, <4>2, <5>1 DEF HttpOK, NothingSpansLines
      <4>3. CASE ~ (i <= Len(parts))
        BY Zenon, <2>1, <2>6, <4>3
      <4> QED
        BY Zenon, <4>1, <4>2, <4>3
    <3> QED
      BY Zenon, <1>0, <1>1, <2>6, <3>1 DEF HttpOK, NothingSpansLines
  <2> QED
    BY Zenon, <2>3, <2>7, <2>8, <2>9 DEF HttpOK
<1>3. CASE Fail /\ UNCHANGED <<parts, state>>
  <2>1. BytesOK'
    BY Zenon, <1>0, <1>1, <1>3 DEF HttpOK, BytesOK, Fail, BodyStart
  <2>2. StopOK'
    BY Zenon, <1>3 DEF StopOK, Fail, Stop
  <2> QED
    BY Zenon, <1>0, <1>1, <1>3, <2>1, <2>2 DEF HttpOK, ItemsOK, NothingSpansLines
<1>4. CASE More(rest) /\ UNCHANGED <<parts, state>>
  <2>1. BytesOK'
    BY Zenon, <1>0, <1>4, TakenKeeps DEF HttpOK, More
  <2>2. StopOK'
    BY Zenon, <1>0, <1>4 DEF StopOK, More
  <2> QED
    BY Zenon, <1>0, <1>1, <1>4, <2>1, <2>2 DEF HttpOK, ItemsOK, NothingSpansLines
<1> QED
  BY Zenon, <1>2, <1>3, <1>4 DEF Item

(* parse_method and parse_uri, *)
LEMMA TokenKeeps ==
    ASSUME HttpOK, NEW st \in {"Method", "Uri"}, Token(st)
    PROVE  HttpOK'
<1> DEFINE rest == SkipSpaces(buf)
           len == Offset(rest, Space \cup Eol)
<1>1. rest \in Seq(Sym) /\ EndOf(rest, buf)
  BY Zenon, SkipSpacesIs DEF HttpOK, BytesOK
<1>2. Item(st, rest, Found(rest, Space \cup Eol), len, IsToken(SubSeq(rest, 1, len)))
  BY Zenon DEF Token
<1> HIDE DEF rest
<1>3. Found(rest, Space \cup Eol) => len \in 0 .. Len(rest)
  <2>1. Found(rest, Space \cup Eol) => len \in 0 .. Len(rest) - 1
    BY Zenon, <1>1, OffsetIs
  <2> HIDE DEF len
  <2> QED
    BY <1>1, <2>1
<1>4. IsToken(SubSeq(rest, 1, len)) => NoEol(SubSeq(rest, 1, len))
  BY Zenon DEF IsToken, NoEol
<1> HIDE DEF len
<1>5. st \notin {"Headers", "Finished"}
  BY Zenon
<1> QED
  BY Zenon, <1>1, <1>2, <1>3, <1>4, <1>5, ItemKeeps

(* parse_version and parse_status_code, *)
LEMMA FixedKeeps ==
    ASSUME HttpOK, NEW st \in {"Version", "StatusCode"}, NEW T, NEW text \in Seq(T), NoEol(text),
           Fixed(st, text)
    PROVE  HttpOK'
<1> DEFINE rest == SkipSpaces(buf)
<1>1. rest \in Seq(Sym) /\ EndOf(rest, buf)
  BY Zenon, SkipSpacesIs DEF HttpOK, BytesOK
<1>2. Item(st, rest, Len(rest) >= Len(text), Len(text), SubSeq(rest, 1, Len(text)) = text)
  BY Zenon DEF Fixed
<1> HIDE DEF rest
<1>3. Len(rest) >= Len(text) => Len(text) \in 0 .. Len(rest)
  BY <1>1
<1>4. SubSeq(rest, 1, Len(text)) = text => NoEol(SubSeq(rest, 1, Len(text)))
  BY Zenon
<1>5. st \notin {"Headers", "Finished"}
  BY Zenon
<1> QED
  BY Zenon, <1>1, <1>2, <1>3, <1>4, <1>5, ItemKeeps

(* and parse_reason. *)
LEMMA ReasonKeeps == ASSUME HttpOK, ParseReason PROVE HttpOK'
<1> DEFINE rest == SkipSpaces(buf)
           len == Offset(rest, Eol)
<1>1. rest \in Seq(Sym) /\ EndOf(rest, buf)
  BY Zenon, SkipSpacesIs DEF HttpOK, BytesOK
<1>2. Item("Reason", rest, Found(rest, Eol), len, TRUE)
  BY Zenon DEF ParseReason
<1> HIDE DEF rest
<1>3. Found(rest, Eol) => len \in 0 .. Len(rest) - 1 /\ \A i \in 1 .. len : rest[i] \notin Eol
  BY Zenon, <1>1, OffsetIs
<1> HIDE DEF len
<1>4. Found(rest, Eol) => len \in 0 .. Len(rest)
  BY <1>1, <1>3
<1>5. Found(rest, Eol) => NoEol(SubSeq(rest, 1, len))
  <2> SUFFICES ASSUME len \in 0 .. Len(rest), \A i \in 1 .. len : rest[i] \notin Eol
               PROVE  NoEol(SubSeq(rest, 1, len))
    BY Zenon, <1>3, <1>4
  <2> QED
    BY <1>1 DEF NoEol
<1> QED
  BY Zenon, <1>1, <1>2, <1>4, <1>5, ItemKeeps
(* A step of parse_header keeps the invariant; at a blank line the parser stops. *)
LEMMA HeaderKeeps == ASSUME HttpOK, ParseHeader PROVE HttpOK'
<1> DEFINE k == SkipNewlines(buf).len
           rest == Drop(buf, k)
           h == parse_header(rest)
<1>0. /\ pc = "parse" /\ state = "Headers" /\ UNCHANGED <<msg, cut, pos, parts, body, torn>>
      /\ result = "none" /\ body = <<>> /\ Len(parts) = 3 /\ Following(state) = "Finished"
  BY Zenon, HeadersIs DEF ParseHeader, HttpOK, StopOK
<1>1. Stream' = Stream /\ Sym' = Sym /\ States' = States
  BY Zenon, <1>0, StreamStays
<1>2. buf \in Seq(Sym)
  BY Zenon DEF HttpOK, BytesOK
<1>3. /\ k \in 0 .. Len(buf)
      /\ SkipNewlines(buf).is_break =>
             /\ k > 1 /\ buf[k] = "n"
             /\ \/ buf[k - 1] = "n"
                \/ k > 2 /\ buf[k - 1] = "c" /\ buf[k - 2] = "n"
  BY Zenon, <1>2, SkipNewlinesIs
<1>4. \/ /\ SkipNewlines(buf).is_break /\ state' = Following(state)
         /\ buf' = rest /\ pc' = "body" /\ result' = "ok" /\ UNCHANGED headers
      \/ /\ h.some /\ IsToken(h.name) /\ headers' = Append(headers, <<h.name, h.value>>)
         /\ Again(h.rest) /\ UNCHANGED state
      \/ Fail /\ UNCHANGED <<headers, state>>
      \/ More(rest) /\ UNCHANGED <<headers, state>>
  BY Zenon DEF ParseHeader
<1> HIDE DEF k
<1>5. rest \in Seq(Sym) /\ Len(rest) = Len(buf) - k /\ EndOf(rest, buf)
  BY Zenon, <1>2, <1>3, DropIs
<1> HIDE DEF rest
<1>6. CASE /\ SkipNewlines(buf).is_break /\ state' = Following(state)
           /\ buf' = rest /\ pc' = "body" /\ result' = "ok" /\ UNCHANGED headers
  <2>1. BytesOK'
    BY Zenon, <1>0, <1>5, <1>6, TakenKeeps DEF HttpOK
  <2> DEFINE o == pos - Len(buf)
  <2>2. /\ o \in Nat /\ BodyStart' = o + k /\ Len(buf) \in Nat
    <3>1. /\ Len(buf) \in Nat /\ pos \in Nat /\ Len(buf) + Len(body) <= pos /\ Len(body) = 0
          /\ k \in Nat
      BY <1>0, <1>2, <1>3 DEF HttpOK, BytesOK
    <3>2. BodyStart' = pos - Len(rest) - Len(body)
      BY Zenon, <1>0, <1>6 DEF BodyStart
    <3> HIDE DEF rest
    <3> QED
      BY <1>5, <3>1, <3>2
  <2>3. \A i \in 1 .. Len(buf) : buf[i] = Stream[o + i]
    BY Zenon DEF HttpOK, BytesOK, PieceOf
  <2> HIDE DEF o
  <2>4. \A i \in 1 .. k : i \in 1 .. Len(buf) /\ o + i - 1 = o + (i - 1) /\ o + i - 2 = o + (i - 2)
    BY <1>3, <2>2
  <2>5. /\ k > 1 /\ k \in 1 .. k /\ k - 1 \in 1 .. k /\ o + k > 1
        /\ k > 2 => k - 2 \in 1 .. k /\ o + k > 2
    BY <1>3, <1>6, <2>2
  <2>6. BlankLineEnds(BodyStart)'
    <3>1. Stream[o + k] = "n"
      BY Zenon, <1>3, <1>6, <2>3, <2>4, <2>5
    <3>2. buf[k - 1] = Stream[o + k - 1]
      BY Zenon, <2>3, <2>4, <2>5
    <3>3. k > 2 => buf[k - 2] = Stream[o + k - 2]
      BY Zenon, <2>3, <2>4, <2>5
    <3>4. \/ Stream[o + k - 1] = "n"
          \/ o + k > 2 /\ Stream[o + k - 1] = "c" /\ Stream[o + k - 2] = "n"
      BY Zenon, <1>3, <1>6, <2>5, <3>2, <3>3
    <3> QED
      BY SMTT(30), <1>1, <2>2, <2>5, <3>1, <3>4 DEF BlankLineEnds
  <2>7. ItemsOK' /\ StopOK'
    BY Zenon, <1>0, <1>1, <1>6, <2>6 DEF HttpOK, ItemsOK, StopOK
  <2> QED
    BY Zenon, <1>0, <1>1, <1>6, <2>1, <2>7 DEF HttpOK, NothingSpansLines
<1>7. CASE /\ h.some /\ IsToken(h.name) /\ headers' = Append(headers, <<h.name, h.value>>)
           /\ Again(h.rest) /\ UNCHANGED state
  <2>1. /\ h.rest \in Seq(Sym) /\ EndOf(h.rest, rest) /\ h.name \in Seq(Sym)
        /\ h.value \in Seq(Sym) /\ NoEol(h.value)
    BY Zenon, <1>5, <1>7, HeaderIs
  <2> HIDE DEF h
  <2>2. EndOf(h.rest, buf)
    BY Zenon, <1>2, <1>5, <2>1, EndOfEnd
  <2>3. BytesOK'
    BY Zenon, <1>0, <1>7, <2>1, <2>2, TakenKeeps DEF HttpOK, Again
  <2>4. ItemsOK' /\ StopOK'
    BY Zenon, <1>0, <1>1, <1>7 DEF HttpOK, ItemsOK, StopOK, Again
  <2> DEFINE Q == Seq(Sym) \X Seq(Sym)
             x == <<h.name, h.value>>
  <2>5. headers \in Seq(Q) /\ x \in Q /\ x[1] = h.name /\ x[2] = h.value
    BY <2>1 DEF HttpOK
  <2>6. headers' = Append(headers, x)
    BY Zenon, <1>7
  <2>7. \A i \in 1 .. Len(headers) : IsToken(headers[i][1]) /\ NoEol(headers[i][2])
    BY Zenon DEF HttpOK, NothingSpansLines
  <2>8. IsToken(x[1]) /\ NoEol(x[2])
    BY Zenon, <1>7, <2>1, <2>5
  <2> HIDE DEF Q, x
  <2>9. /\ headers' \in Seq(Q) /\ Len(headers') = Len(headers) + 1 /\ Len(headers) \in Nat
        /\ \A i \in 1 .. Len(headers) + 1 :
               headers'[i] = IF i <= Len(headers) THEN headers[i] ELSE x
    BY <2>5, <2>6
  <2>10. ASSUME NEW i \in 1 .. Len(headers')
         PROVE  IsToken(headers'[i][1]) /\ NoEol(headers'[i][2])
    <3>1. i \in 1 .. Len(headers) + 1
      BY Zenon, <2>9
    <3>2. i \in 1 .. Len(headers) \/ ~ (i <= Len(headers))
      BY <2>9, <3>1
    <3>3. i \in 1 .. Len(headers) => i <= Len(headers)
      BY <2>9
    <3> QED
      BY Zenon, <2>7, <2>8, <2>9, <3>1, <3>2, <3>3
  <2>11. headers' \in Seq(Seq(Sym) \X Seq(Sym))'
    BY Zenon, <1>1, <2>9 DEF Q
  <2>12. NothingSpansLines'
    BY Zenon, <1>0, <2>10 DEF HttpOK, NothingSpansLines
  <2> QED
    BY Zenon, <2>3, <2>4, <2>11, <2>12 DEF HttpOK
<1>8. CASE Fail /\ UNCHANGED <<headers, state>>
  <2>1. BytesOK'
    BY Zenon, <1>0, <1>1, <1>8 DEF HttpOK, BytesOK, Fail, BodyStart
  <2>2. StopOK'
    BY Zenon, <1>8 DEF StopOK, Fail, Stop
  <2> QED
    BY Zenon, <1>0, <1>1, <1>8, <2>1, <2>2 DEF HttpOK, ItemsOK, NothingSpansLines
<1>9. CASE More(rest) /\ UNCHANGED <<headers, state>>
  <2>1. BytesOK'
    BY Zenon, <1>0, <1>5, <1>9, TakenKeeps DEF HttpOK, More
  <2>2. StopOK'
    BY Zenon, <1>0, <1>9 DEF StopOK, More
  <2> QED
    BY Zenon, <1>0, <1>1, <1>9, <2>1, <2>2 DEF HttpOK, ItemsOK, NothingSpansLines
<1> QED
  BY Zenon, <1>4, <1>6, <1>7, <1>8, <1>9
(* Two pieces that follow one another in a sequence make one. *)
LEMMA JoinIs ==
    ASSUME NEW T, NEW w, NEW q \in Seq(T), NEW r \in Seq(T), NEW o \in Nat,
           PieceOf(q, w, o), PieceOf(r, w, o + Len(q))
    PROVE  /\ q \o r \in Seq(T) /\ Len(q \o r) = Len(q) + Len(r)
           /\ PieceOf(q \o r, w, o)
<1>1. /\ q \o r \in Seq(T) /\ Len(q \o r) = Len(q) + Len(r)
      /\ Len(q) \in Nat /\ Len(r) \in Nat
  OBVIOUS
<1>2. ASSUME NEW i \in 1 .. Len(q \o r) PROVE (q \o r)[i] = w[o + i]
  <2>1. CASE i <= Len(q)
    <3>1. (q \o r)[i] = q[i] /\ i \in 1 .. Len(q)
      BY <1>1, <1>2, <2>1
    <3> QED
      BY Zenon, <3>1 DEF PieceOf
  <2>2. CASE ~ (i <= Len(q))
    <3> DEFINE j == i - Len(q)
    <3>1. (q \o r)[i] = r[j]
      BY <1>1, <1>2, <2>2
    <3>2. j \in 1 .. Len(r) /\ o + Len(q) + j = o + i
      BY <1>1, <1>2, <2>2
    <3> QED
      BY Zenon, <3>1, <3>2 DEF PieceOf
  <2> QED
    BY Zenon, <2>1, <2>2
<1> QED
  BY Zenon, <1>1, <1>2 DEF PieceOf

(* What is read from the stream is appended to what was read last. *)
LEMMA ReadKeeps == ASSUME HttpOK, Read PROVE HttpOK'
<1>0. /\ pc = "read" /\ UNCHANGED <<msg, cut, state, parts, headers, body>>
      /\ result = "none" /\ body = <<>>
  BY Zenon DEF Read, HttpOK, StopOK
<1>1. Stream' = Stream /\ Sym' = Sym /\ States' = States
  BY Zenon, <1>0, StreamStays
<1>2. ASSUME NEW why \in {"overflow", "eof", "io"}, Stop(why), UNCHANGED <<pos, buf, room, torn>>
      PROVE  HttpOK'
  <2>1. BytesOK'
    BY Zenon, <1>0, <1>1, <1>2 DEF HttpOK, BytesOK, BodyStart
  <2>2. StopOK'
    BY Zenon, <1>2 DEF StopOK, Stop
  <2> QED
    BY Zenon, <1>0, <1>1, <1>2, <2>1, <2>2 DEF HttpOK, ItemsOK, NothingSpansLines
<1>3. ASSUME NEW n \in 1 .. Len(Stream) - pos,
             pos' = pos + n, buf' = buf \o SubSeq(Stream, pos + 1, pos + n),
             pc' = "parse", UNCHANGED result
      PROVE  HttpOK'
  <2> DEFINE piece == SubSeq(Stream, pos + 1, pos + n)
             o == pos - Len(buf)
  <2>1. /\ Stream \in Seq(Sym) /\ Len(Stream) = cut /\ cut \in Nat /\ pos \in 0 .. cut
        /\ buf \in Seq(Sym) /\ Len(buf) + Len(body) <= pos
        /\ PieceOf(buf, Stream, o)
    BY Zenon, StreamIs DEF HttpOK, BytesOK
  <2>2. /\ Len(buf) \in Nat /\ Len(body) = 0 /\ n \in Nat /\ pos + n \in 0 .. cut /\ pos \in Nat
    BY <1>0, <2>1
  <2>3. o \in Nat /\ o + Len(buf) = pos
    BY <2>1, <2>2
  <2>4. /\ piece \in Seq(Sym) /\ Len(piece) = n
        /\ PieceOf(piece, Stream, pos)
    <3>1. /\ pos \in Nat /\ pos + n \in 0 .. Len(Stream) /\ pos <= pos + n
          /\ (pos + n) - pos = n
      BY <2>1, <2>2
    <3>2. Stream \in Seq(Sym)
      BY Zenon, <2>1
    <3>3. /\ piece \in Seq(Sym) /\ Len(piece) = (pos + n) - pos
          /\ PieceOf(piece, Stream, pos)
      BY Zenon, <3>1, <3>2, PieceIs
    <3> QED
      BY Zenon, <3>1, <3>3
  <2> HIDE DEF piece, o
  <2>5. /\ buf \o piece \in Seq(Sym) /\ Len(buf \o piece) = Len(buf) + Len(piece)
        /\ PieceOf(buf \o piece, Stream, o)
    <3>1. PieceOf(piece, Stream, o + Len(buf))
      BY Zenon, <2>3, <2>4
    <3> QED
      BY Zenon, <2>1, <2>3, <2>4, <3>1, JoinIs
  <2>6. buf' = buf \o piece
    BY Zenon, <1>3 DEF piece
  <2>7. /\ Len(buf') = Len(buf) + n /\ pos' - Len(buf') = o /\ Len(body') = 0
        /\ Len(buf') + Len(body') <= pos' /\ pos' \in 0 .. cut
    <3>1. Len(buf') = Len(buf) + n /\ pos' = pos + n /\ Len(body') = Len(body)
      BY Zenon, <1>0, <1>3, <2>4, <2>5, <2>6
    <3> QED
      BY <2>1, <2>2, <3>1 DEF o
  <2>8. PieceOf(body', Stream', BodyStart')
    BY <2>7 DEF PieceOf
  <2>9. PieceOf(buf', Stream', pos' - Len(buf'))
    BY Zenon, <1>1, <2>5, <2>6, <2>7
  <2>10. BytesOK'
    BY Zenon, <1>0, <1>1, <2>1, <2>5, <2>6, <2>7, <2>8, <2>9 DEF HttpOK, BytesOK
  <2>11. StopOK'
    BY Zenon, <1>0, <1>3 DEF StopOK
  <2> QED
    BY Zenon, <1>0, <1>1, <2>10, <2>11 DEF HttpOK, ItemsOK, NothingSpansLines
<1>4. (IF Spare(room) = 0 THEN "overflow" ELSE "eof") \in {"overflow", "eof", "io"}
  BY Zenon
<1> QED
  BY Zenon, <1>2, <1>3, <1>4 DEF Read

(* What into_bytes takes follows what it has, and the body still starts where the
   head ended. *)
LEMMA BodyKeeps == ASSUME HttpOK, ReadBody PROVE HttpOK' /\ BodyStart' = BodyStart
<1> DEFINE o == BodyStart
<1>0. /\ pc = "body" /\ UNCHANGED <<msg, cut, state, parts, headers>> /\ result = "ok"
  BY Zenon DEF ReadBody, HttpOK, StopOK
<1>1. Stream' = Stream /\ Sym' = Sym /\ States' = States
  BY Zenon, <1>0, StreamStays
<1>2. /\ Stream \in Seq(Sym) /\ Len(Stream) = cut /\ cut \in Nat /\ pos \in 0 .. cut
      /\ buf \in Seq(Sym) /\ body \in Seq(Sym) /\ Len(buf) + Len(body) <= pos
      /\ PieceOf(buf, Stream, pos - Len(buf)) /\ PieceOf(body, Stream, o)
  BY Zenon, StreamIs DEF HttpOK, BytesOK
<1>3. /\ Len(buf) \in Nat /\ Len(body) \in Nat /\ pos \in Nat
      /\ o \in Nat /\ o + Len(body) = pos - Len(buf)
  BY <1>2 DEF BodyStart
<1>4. BlankLineEnds(BodyStart) /\ Len(parts) = 3
  BY Zenon, <1>0 DEF HttpOK, StopOK
<1>5. ASSUME BodyStart' = BodyStart PROVE BlankLineEnds(BodyStart)'
  BY <1>1, <1>4, <1>5 DEF BlankLineEnds
<1>6. ASSUME NEW n \in 1 .. Len(buf), body' = body \o SubSeq(buf, 1, n), buf' = Drop(buf, n),
             UNCHANGED <<pos, pc, result>>
      PROVE  HttpOK' /\ BodyStart' = BodyStart
  <2> DEFINE piece == SubSeq(buf, 1, n)
  <2>1. /\ piece \in Seq(Sym) /\ Len(piece) = n /\ n \in 0 .. Len(buf) /\ n \in Nat
        /\ \A i \in 1 .. Len(piece) : i \in 1 .. Len(buf) /\ piece[i] = buf[i]
    BY <1>2
  <2>2. /\ Drop(buf, n) \in Seq(Sym) /\ Len(Drop(buf, n)) = Len(buf) - n
        /\ \A i \in 1 .. Len(buf) - n : Drop(buf, n)[i] = buf[n + i]
    BY Zenon, <1>2, <2>1, DropIs
  <2>3. body' = body \o piece
    BY Zenon, <1>6
  <2> HIDE DEF piece, o
  <2>4. PieceOf(piece, Stream, o + Len(body))
    BY Zenon, <1>2, <1>3, <2>1 DEF PieceOf
  <2>5. /\ body' \in Seq(Sym) /\ Len(body') = Len(body) + n
        /\ PieceOf(body', Stream, o)
    <3>1. /\ body \o piece \in Seq(Sym) /\ Len(body \o piece) = Len(body) + Len(piece)
          /\ PieceOf(body \o piece, Stream, o)
      BY Zenon, <1>2, <1>3, <2>1, <2>4, JoinIs
    <3> QED
      BY Zenon, <2>1, <2>3, <3>1
  <2>6. /\ buf' \in Seq(Sym) /\ Len(buf') = Len(buf) - n /\ pos' = pos
        /\ \A i \in 1 .. Len(buf') : buf'[i] = buf[n + i]
    BY Zenon, <1>6, <2>2
  <2>7. Len(buf') + Len(body') <= pos' /\ BodyStart' = o
    BY <1>2, <1>3, <2>1, <2>5, <2>6 DEF BodyStart, o
  <2>8. PieceOf(buf', Stream, pos' - Len(buf'))
    <3> SUFFICES ASSUME NEW i \in 1 .. Len(buf')
                 PROVE  buf'[i] = Stream[pos' - Len(buf') + i]
      BY Zenon DEF PieceOf
    <3>1. \A l \in Nat : l = Len(buf) - n /\ i \in 1 .. l =>
              n + i \in 1 .. Len(buf) /\ pos - Len(buf) + (n + i) = pos - l + i
      BY <1>3, <2>1
    <3>2. Len(buf') \in Nat /\ Len(buf') = Len(buf) - n /\ pos' = pos
      BY <2>6
    <3>3. n + i \in 1 .. Len(buf) /\ pos - Len(buf) + (n + i) = pos' - Len(buf') + i
      BY Zenon, <3>1, <3>2
    <3> QED
      BY Zenon, <1>2, <2>6, <3>3 DEF PieceOf
  <2>9. BytesOK'
    BY Zenon, <1>0, <1>1, <1>2, <2>5, <2>6, <2>7, <2>8 DEF BytesOK
  <2>10. StopOK'
    BY Zenon, <1>0, <1>4, <1>5, <1>6, <2>7 DEF StopOK, o
  <2> QED
    BY Zenon, <1>0, <1>1, <2>7, <2>9, <2>10 DEF HttpOK, ItemsOK, NothingSpansLines, o
<1>7. ASSUME NEW n \in 1 .. Len(Stream) - pos, buf = <<>>,
             body' = body \o SubSeq(Stream, pos + 1, pos + n), pos' = pos + n,
             UNCHANGED <<buf, pc, result>>
      PROVE  HttpOK' /\ BodyStart' = BodyStart
  <2> DEFINE piece == SubSeq(Stream, pos + 1, pos + n)
  <2>0. n \in Nat /\ pos + n \in 0 .. cut /\ Len(buf) = 0 /\ Len(buf') = 0
    BY <1>2, <1>7
  <2>1. /\ piece \in Seq(Sym) /\ Len(piece) = n
        /\ PieceOf(piece, Stream, pos)
    <3>1. /\ pos \in Nat /\ pos + n \in 0 .. Len(Stream) /\ pos <= pos + n
          /\ (pos + n) - pos = n
      BY <1>2, <1>3, <2>0
    <3>2. Stream \in Seq(Sym)
      BY Zenon, <1>2
    <3>3. /\ piece \in Seq(Sym) /\ Len(piece) = (pos + n) - pos
          /\ PieceOf(piece, Stream, pos)
      BY Zenon, <3>1, <3>2, PieceIs
    <3> QED
      BY Zenon, <3>1, <3>3
  <2>2. o + Len(body) = pos
    BY <1>3, <2>0
  <2>3. body' = body \o piece
    BY Zenon, <1>7
  <2> HIDE DEF piece, o
  <2>4. PieceOf(piece, Stream, o + Len(body))
    BY Zenon, <2>1, <2>2
  <2>5. /\ body' \in Seq(Sym) /\ Len(body') = Len(body) + n
        /\ PieceOf(body', Stream, o)
    <3>1. /\ body \o piece \in Seq(Sym) /\ Len(body \o piece) = Len(body) + Len(piece)
          /\ PieceOf(body \o piece, Stream, o)
      BY Zenon, <1>2, <1>3, <2>1, <2>4, JoinIs
    <3> QED
      BY Zenon, <2>1, <2>3, <3>1
  <2>6. Len(buf') + Len(body') <= pos' /\ BodyStart' = o
    <3>1. BodyStart' = pos' - Len(buf') - Len(body')
      BY Zenon DEF BodyStart
    <3>2. Len(body') = Len(body) + n /\ Len(buf') = 0 /\ pos' = pos + n
      BY Zenon, <1>7, <2>0, <2>5
    <3> QED
      BY <1>3, <2>0, <2>2, <3>1, <3>2
  <2>7. PieceOf(buf', Stream, pos' - Len(buf'))
    BY <2>0 DEF PieceOf
  <2>8. BytesOK'
    BY Zenon, <1>0, <1>1, <1>2, <1>7, <2>0, <2>5, <2>6, <2>7 DEF BytesOK
  <2>9. StopOK'
    BY Zenon, <1>0, <1>4, <1>5, <1>7, <2>6 DEF StopOK, o
  <2> QED
    BY Zenon, <1>0, <1>1, <2>6, <2>8, <2>9 DEF HttpOK, ItemsOK, NothingSpansLines, o
<1>8. CASE /\ Spare(room) = 0 \/ (buf = <<>> /\ pos = Len(Stream))
           /\ Stop(IF Spare(room) = 0 THEN "overflow" ELSE "ok")
           /\ UNCHANGED <<body, buf, pos, room>>
  <2>0. BodyStart' = BodyStart
    BY Zenon, <1>8 DEF BodyStart
  <2>1. BytesOK'
    BY Zenon, <1>0, <1>1, <1>2, <1>8, <2>0 DEF BytesOK
  <2>2. StopOK'
    BY Zenon, <1>0, <1>2, <1>4, <1>5, <1>8, <2>0 DEF StopOK, Stop
  <2> QED
    BY Zenon, <1>0, <1>1, <2>0, <2>1, <2>2 DEF HttpOK, ItemsOK, NothingSpansLines
<1>9. CASE Stop("io") /\ UNCHANGED <<body, buf, pos, room>>
  <2>0. BodyStart' = BodyStart
    BY Zenon, <1>9 DEF BodyStart
  <2>1. BytesOK'
    BY Zenon, <1>0, <1>1, <1>2, <1>9, <2>0 DEF BytesOK
  <2>2. StopOK'
    BY Zenon, <1>9 DEF StopOK, Stop
  <2> QED
    BY Zenon, <1>0, <1>1, <2>0, <2>1, <2>2 DEF HttpOK, ItemsOK, NothingSpansLines
<1> QED
  BY Zenon, <1>6, <1>7, <1>8, <1>9 DEF ReadBody

(* The invariant holds in every reachable state. *)
LEMMA HttpInvariance == HttpSpec => []HttpOK
<1>1. HttpOK /\ [HttpNext]_httpVars => HttpOK'
  <2> SUFFICES ASSUME HttpOK, [HttpNext]_httpVars PROVE HttpOK'
    BY Zenon
  <2>1. CASE UNCHANGED httpVars
    <3>1. Stream' = Stream /\ Sym' = Sym /\ States' = States
      BY Zenon, <2>1, StreamStays DEF httpVars
    <3>2. UNCHANGED <<msg, cut, pos, buf, state, parts, headers, pc, result, body>>
      BY Zenon, <2>1 DEF httpVars
    <3>3. BodyStart' = BodyStart
      BY Zenon, <3>2 DEF BodyStart
    <3>4. BytesOK' /\ ItemsOK' /\ NothingSpansLines'
      BY Zenon, <3>1, <3>2, <3>3 DEF HttpOK, BytesOK, ItemsOK, NothingSpansLines
    <3>5. BlankLineEnds(BodyStart) => BlankLineEnds(BodyStart)'
      BY <3>1, <3>3 DEF BlankLineEnds
    <3>6. StopOK'
      BY Zenon, <3>2, <3>5 DEF HttpOK, StopOK
    <3> QED
      BY Zenon, <3>1, <3>2, <3>4, <3>6 DEF HttpOK
  <2>2. CASE ParseMethod \/ ParseUri
    BY Zenon, <2>2, TokenKeeps DEF ParseMethod, ParseUri
  <2>3. CASE ParseVersion \/ ParseStatusCode
    <3> DEFINE T == {"H", "1", "2", "0"}
    <3>1. /\ <<"H", "1">> \in Seq(T) /\ NoEol(<<"H", "1">>)
          /\ <<"2", "0">> \in Seq(T) /\ NoEol(<<"2", "0">>)
      BY DEF NoEol, Eol
    <3> QED
      BY Zenon, <2>3, <3>1, FixedKeeps DEF ParseVersion, ParseStatusCode
  <2> QED
    BY Zenon, <2>1, <2>2, <2>3, ReadKeeps, ReasonKeeps, HeaderKeeps, BodyKeeps DEF HttpNext
<1> QED
  BY <1>1, HttpOKInit, PTL DEF HttpSpec

(* For every message, every limit and however the stream is cut into reads: a
   parser that finishes has the three items of the first line and has stopped
   behind a blank line, and the body is all of the stream that follows. *)
THEOREM HttpBodyFollowsBlankLine == HttpSpec => []BodyFollowsBlankLine
<1>1. HttpOK => BodyFollowsBlankLine
  <2> SUFFICES ASSUME HttpOK, result = "ok" PROVE BodyFollowsBlankLine
    BY Zenon DEF BodyFollowsBlankLine
  <2> DEFINE o == BodyStart
             piece == SubSeq(Stream, o + 1, pos)
  <2>1. /\ Stream \in Seq(Sym) /\ Len(Stream) = cut /\ cut \in Nat /\ pos \in 0 .. cut
        /\ buf \in Seq(Sym) /\ body \in Seq(Sym) /\ Len(buf) + Len(body) <= pos
        /\ PieceOf(buf, Stream, pos - Len(buf)) /\ PieceOf(body, Stream, o)
    BY Zenon, StreamIs DEF HttpOK, BytesOK
  <2>2. /\ Len(buf) \in Nat /\ Len(body) \in Nat /\ pos \in Nat
        /\ o \in Nat /\ o + Len(body) = pos - Len(buf) /\ pos - o = Len(body) + Len(buf)
    BY <2>1 DEF BodyStart
  <2> HIDE DEF o
  <2>3. /\ body \o buf \in Seq(Sym) /\ Len(body \o buf) = Len(body) + Len(buf)
        /\ PieceOf(body \o buf, Stream, o)
    <3>1. PieceOf(buf, Stream, o + Len(body))
      BY Zenon, <2>1, <2>2
    <3> QED
      BY Zenon, <2>1, <2>2, <3>1, JoinIs
  <2>4. /\ piece \in Seq(Sym) /\ Len(piece) = pos - o
        /\ PieceOf(piece, Stream, o)
    <3>1. pos \in 0 .. Len(Stream) /\ o <= pos
      BY <2>1, <2>2
    <3> QED
      BY Zenon, <2>1, <2>2, <3>1, PieceIs
  <2> HIDE DEF piece
  <2>5. body \o buf = piece
    <3> DEFINE q == body \o buf
    <3>1. q \in Seq(Sym) /\ Len(q) = Len(piece) /\ \A i \in 1 .. Len(q) : q[i] = piece[i]
      BY Zenon, <2>2, <2>3, <2>4 DEF PieceOf
    <3> HIDE DEF q
    <3>2. q = piece
      BY <2>4, <3>1
    <3> QED
      BY Zenon, <3>2 DEF q
  <2> QED
    BY Zenon, <2>1, <2>5 DEF HttpOK, StopOK, BodyFollowsBlankLine, o, piece
<1> QED
  BY <1>1, HttpInvariance, PTL

(* For every message: once the head has ended, no read of the body changes the
   place where the body begins, so that the body is what follows this blank line
   and no other. *)
THEOREM HttpBodyStartIsFinal == HttpSpec => BodyStartIsFinal
<1>1. HttpOK /\ [HttpNext]_httpVars => [result = "ok" => BodyStart' = BodyStart]_httpVars
  <2> SUFFICES ASSUME HttpOK, HttpNext, result = "ok" PROVE BodyStart' = BodyStart
    BY Zenon
  <2>1. pc \notin {"read", "parse"}
    BY Zenon DEF HttpOK, StopOK
  <2>2. ReadBody
    BY Zenon, <2>1
       DEF HttpNext, Read, ParseMethod, ParseUri, Token, ParseVersion, ParseStatusCode, Fixed,
           ParseReason, Item, ParseHeader
  <2> QED
    BY Zenon, <2>2, BodyKeeps
<1> QED
  BY <1>1, HttpInvariance, PTL DEF HttpSpec, BodyStartIsFinal

(* For every message and however the stream is cut into reads: no item of the
   first line and no header that the builder is given spans the end of a line,
   and every header's name is a token. *)
THEOREM HttpNothingSpansLines == HttpSpec => []NothingSpansLines
<1>1. HttpOK => NothingSpansLines
  BY Zenon DEF HttpOK
<1> QED
  BY <1>1, HttpInvariance, PTL

=============================================================================
