------------------------------ MODULE LevelDb ------------------------------
(***************************************************************************)
(* The LevelDB binding of crates/leveldb/src/lib.rs: Database (put, get,   *)
(* delete, write, snapshot, iter), WriteBatch, Snapshot and                *)
(* KeyValueIterator.  The C library is external: its database is a map, a  *)
(* write is atomic, an iterator reads the map as it was when it was        *)
(* created.  delete is two library calls, so that other threads run        *)
(* between them; the iterator is Rust code over the library's cursor.      *)
(***************************************************************************)
EXTENDS Naturals, Sequences, FiniteSetsExt

CONSTANTS
    Keys,        \* keys, as numbers in the library's order
    Values,      \* values; Empty is the value of length zero
    Empty,
    Absent,      \* no value stored
    Deleters,    \* threads that call delete
    MaxWrites,   \* bound on put and commit calls
    MaxBatch,    \* bound on the operations of a batch
    Calls        \* what the run uses besides put and delete

ASSUME LevelDbAssumption ==
    /\ Keys \subseteq Nat \ {0}
    /\ Empty \in Values /\ Absent \notin Values
    /\ MaxWrites \in Nat /\ MaxBatch \in Nat
    /\ Calls \subseteq {"snapshot", "iter"}

VARIABLES
    store,       \* the database
    writes,      \* number of put and commit calls so far
    batch,       \* operations of the open WriteBatch
    del,         \* delete call of each thread
    snap,        \* the database when snapshot() was called, or Absent
    got,         \* what the last get with ReadOps::new_with returned
    iter         \* the iterator

vars == <<store, writes, batch, del, snap, got, iter>>

Stored == Values \cup {Absent}
Idle == [at |-> "idle", key |-> 0, read |-> Absent, ok |-> FALSE, rewritten |-> FALSE]

(* cur is the library's cursor (0: not valid), seek the Rust flag.  from,  *)
(* missed, out and ended are history: the key the pass starts at, whether  *)
(* the seek found no key, what the pass returned, whether it returned None. *)
NoIter == [open |-> FALSE, view |-> [k \in Keys |-> Absent], cur |-> 0,
           seek |-> FALSE, from |-> 1, missed |-> FALSE, out |-> <<>>,
           ended |-> FALSE]

Init ==
    /\ store = [k \in Keys |-> Absent] /\ writes = 0 /\ batch = <<>>
    /\ del = [d \in Deleters |-> Idle]
    /\ snap = Absent /\ got = Absent /\ iter = NoIter

-----------------------------------------------------------------------------
(* History: a delete call whose key is written after its last library call. *)
MarkRewritten(ks) ==
    del' = [d \in Deleters |->
              IF del[d].at # "idle" /\ del[d].key \in ks
              THEN [del[d] EXCEPT !.rewritten = TRUE] ELSE del[d]]

put(k, v) ==
    /\ writes < MaxWrites
    /\ store' = [store EXCEPT ![k] = v]
    /\ writes' = writes + 1
    /\ MarkRewritten({k})
    /\ UNCHANGED <<batch, snap, got, iter>>

(* WriteBatch::put and WriteBatch::delete only record the operation. *)
BatchAdd(k, v) ==
    /\ Len(batch) < MaxBatch
    /\ batch' = Append(batch, <<k, v>>)
    /\ UNCHANGED <<store, writes, del, snap, got, iter>>

(* leveldb_write applies the batch in order: on each key, the last one counts. *)
commit ==
    /\ writes < MaxWrites /\ batch # <<>>
    /\ LET ops(k) == {i \in 1..Len(batch) : batch[i][1] = k}
       IN  store' = [k \in Keys |-> IF ops(k) = {} THEN store[k] ELSE batch[Max(ops(k))][2]]
    /\ MarkRewritten({batch[i][1] : i \in 1..Len(batch)})
    /\ writes' = writes + 1 /\ batch' = <<>>
    /\ UNCHANGED <<snap, got, iter>>

(* delete: leveldb_get, then leveldb_delete of a value that is not empty,  *)
(* and Ok(true) if it was.  Either call may fail, which ends delete with   *)
(* an error, and a leveldb_delete that failed may or may not be done.      *)
DeleteRead(d, k) ==
    /\ del[d].at \in {"idle", "done"}
    /\ \/ del' = [del EXCEPT ![d] = [at |-> "read", key |-> k, read |-> store[k],
                                     ok |-> FALSE, rewritten |-> FALSE]]
       \/ del' = [del EXCEPT ![d] = Idle]
    /\ UNCHANGED <<store, writes, batch, snap, got, iter>>

Returned(call, exists) ==
    [at |-> "done", key |-> call.key, read |-> call.read, ok |-> exists,
     rewritten |-> call.rewritten /\ ~exists]

DeleteWhere(d, exists) ==
    /\ del[d].at = "read"
    /\ \/ /\ store' = IF exists THEN [store EXCEPT ![del[d].key] = Absent] ELSE store
          /\ del' = [del EXCEPT ![d] = Returned(del[d], exists)]
       \/ /\ exists
          /\ store' \in {store, [store EXCEPT ![del[d].key] = Absent]}
          /\ del' = [del EXCEPT ![d] = Idle]
    /\ UNCHANGED <<writes, batch, snap, got, iter>>

(* A mutant: the null check is the wrong way round. *)
DeleteWriteNull(d) == DeleteWhere(d, del[d].read = Absent)

DeleteWrite(d) == DeleteWhere(d, del[d].read \notin {Absent, Empty})

(* The call returned and its caller has taken the result. *)
DeleteReturn(d) ==
    /\ del[d].at = "done"
    /\ del' = [del EXCEPT ![d] = Idle]
    /\ UNCHANGED <<store, writes, batch, snap, got, iter>>

(* snapshot, and a get whose ReadOps were created with it: new_with keeps  *)
(* the snapshot alive and does not hand it to the library.                 *)
snapshot ==
    /\ "snapshot" \in Calls /\ snap = Absent
    /\ snap' = store
    /\ UNCHANGED <<store, writes, batch, del, got, iter>>

ValueOf(v) == IF v = Absent THEN Empty ELSE v

GetWithSnapshot(k) ==
    /\ snap # Absent
    /\ got' = [value |-> ValueOf(store[k]), snapshot |-> ValueOf(snap[k])]
    /\ UNCHANGED <<store, writes, batch, del, snap, iter>>

-----------------------------------------------------------------------------
(* The iterator. *)

Present(view) == {k \in Keys : view[k] # Absent}

(* The library's cursor: the least key of S, or not valid. *)
Least(S) == IF S = {} THEN 0 ELSE Min(S)

AtOrAfter(view, k) == Least({j \in Present(view) : j >= k})

iter_new ==
    /\ "iter" \in Calls /\ ~iter.open
    /\ iter' = [NoIter EXCEPT !.open = TRUE, !.view = store]
    /\ UNCHANGED <<store, writes, batch, del, snap, got>>

seek(k) ==
    /\ iter.open
    /\ iter' = [iter EXCEPT !.cur = AtOrAfter(iter.view, k), !.seek = TRUE,
                            !.from = k, !.out = <<>>, !.ended = FALSE,
                            !.missed = AtOrAfter(iter.view, k) = 0]
    /\ UNCHANGED <<store, writes, batch, del, snap, got>>

(* A mutant: the cursor always advances. *)
AdvanceAlways(it) ==
    IF it.cur = 0 THEN [cur |-> AtOrAfter(it.view, 1), seek |-> FALSE]
    ELSE [cur |-> AtOrAfter(it.view, it.cur + 1), seek |-> FALSE]

(* next: an invalid cursor goes to the first key, a cursor that was just   *)
(* placed by seek stays, any other advances.                               *)
Advance(it) ==
    CASE it.cur = 0 -> [cur |-> AtOrAfter(it.view, 1), seek |-> it.seek]
      [] it.cur # 0 /\ it.seek -> [cur |-> it.cur, seek |-> FALSE]
      [] OTHER -> [cur |-> AtOrAfter(it.view, it.cur + 1), seek |-> it.seek]

(* A new pass begins when next is called after it returned None. *)
next ==
    /\ iter.open
    /\ LET a    == Advance(iter)
           past == IF iter.ended THEN <<>> ELSE iter.out
           from == IF iter.ended THEN 1 ELSE iter.from
       IN  iter' = [iter EXCEPT !.cur = a.cur, !.seek = a.seek, !.from = from,
                                !.out = IF a.cur = 0 THEN past
                                        ELSE Append(past, a.cur),
                                !.ended = a.cur = 0]
    /\ UNCHANGED <<store, writes, batch, del, snap, got>>

Next ==
    \/ \E k \in Keys, v \in Values : put(k, v)
    \/ \E k \in Keys, v \in Stored : BatchAdd(k, v)
    \/ commit
    \/ \E d \in Deleters, k \in Keys : DeleteRead(d, k)
    \/ \E d \in Deleters : DeleteWrite(d) \/ DeleteReturn(d)
    \/ snapshot
    \/ \E k \in Keys : GetWithSnapshot(k) \/ seek(k)
    \/ iter_new
    \/ next

Spec == Init /\ [][Next]_vars

-----------------------------------------------------------------------------
(* Properties. *)

DeleteCalls ==
    [at : {"idle", "read", "done"}, key : Keys \cup {0}, read : Stored, ok : BOOLEAN,
     rewritten : BOOLEAN]

Iterators ==
    [open : BOOLEAN, view : [Keys -> Stored], cur : Keys \cup {0}, seek : BOOLEAN,
     from : Nat, missed : BOOLEAN, out : Seq(Keys), ended : BOOLEAN]

TypeOK ==
    /\ store \in [Keys -> Stored] /\ writes \in 0..MaxWrites
    /\ batch \in Seq(Keys \X Stored)
    /\ del \in [Deleters -> DeleteCalls]
    /\ iter \in Iterators

(* The key returned last *)
Last(out) == out[Len(out)]

(* What a pass from a key returns: the keys at or after it, *)
Pass(it) == {k \in Present(it.view) : k >= it.from}

(* in order: those up to the last one returned, and in the end all of them. *)
Exact(it) ==
    /\ \A i, j \in DOMAIN it.out : i < j => it.out[i] < it.out[j]
    /\ Range(it.out) = {k \in Pass(it) : it.ended \/ (it.out # <<>> /\ k <= Last(it.out))}

(* An iteration returns every key of the database at its creation, or      *)
(* every one from the key it was sought to, once and in order, whatever is *)
(* written meanwhile and however often the iterator is reused; only a seek *)
(* that finds no key is left out (see SeekIsExact).                        *)
PassIsExact == ~iter.missed => Exact(iter)

(* The same for every seek: after a key past the last one nothing follows. *)
(* It does not hold: next starts again at the first key.                   *)
SeekIsExact == Exact(iter)

(* A delete that has returned Ok leaves its key without a value, also when *)
(* two of them race.  After Ok(true) only a write that came after its      *)
(* leveldb_delete may have given it one, as a put between its two library  *)
(* calls is deleted with the value it found; after Ok(false) a write that  *)
(* came after its leveldb_get.  A value of length zero that it found is    *)
(* left out (see DeleteIsDone).                                            *)
NonEmptyIsDeleted ==
    \A d \in Deleters :
        /\ del[d].at = "done" /\ ~del[d].rewritten
        /\ del[d].ok \/ del[d].read # Empty
        => store[del[d].key] = Absent

(* The same for every value.  It does not hold: delete takes a value of    *)
(* length zero for no value and leaves it.                                 *)
DeleteIsDone ==
    \A d \in Deleters :
        del[d].at = "done" /\ ~del[d].rewritten => store[del[d].key] = Absent

(* A get with a snapshot returns what was stored when it was taken.  It    *)
(* does not hold: the snapshot is not set in the options of the read.      *)
SnapshotIsRead == got # Absent => got.value = got.snapshot
=============================================================================
