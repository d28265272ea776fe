------------------------------- MODULE Queue --------------------------------
(***************************************************************************)
(* hala-lockfree, src/queue.rs: the multi-producer multi-consumer queue.   *)
(*                                                                         *)
(* A push first reserves an offset (tail.fetch_add) and only then stores   *)
(* its value under that offset; a pop first claims an offset (CAS on head) *)
(* and then spins until the value is there.  One action is one access to   *)
(* shared state: an atomic operation, or an operation of the concurrent    *)
(* map `slots`, which is linearizable.  The counters are usize and do not  *)
(* wrap in the life of a process; MaxPush bounds them.                     *)
(***************************************************************************)
EXTENDS Integers

CONSTANTS Threads,  \* the threads sharing the queue
          Values,   \* the values they push
          None,     \* Option::None; also an absent key of the map
          MaxPush   \* how many pushes are considered in all

ASSUME MaxPushAssumption == MaxPush \in Nat \ {0}
ASSUME NoneAssumption == None \notin Values

VARIABLES head,     \* head: AtomicUsize, the next offset to pop
          tail,     \* tail: AtomicUsize, the next offset to push
          slots,    \* slots: DashMap<usize, T>, None where there is no entry
          qpc,      \* the next step of each thread
          off,      \* the offset (or counter) a thread has read or reserved
          arg,      \* the value a pushing thread carries
          ret,      \* what the last pop of each thread returned
          item,     \* history: the value pushed at each offset
          delivered \* history: the offsets whose value a pop has removed

queueVars == <<head, tail, slots, qpc, off, arg, ret, item, delivered>>

Offsets == 0 .. MaxPush - 1

(* idle: in no call; insert: push has its offset; load_head, load_tail and
   cas: inside pop's loop; spin: in spin_pop_by_offset; len_head: len has
   read tail. *)
QueueSteps == {"idle", "insert", "load_head", "load_tail", "cas", "spin", "len_head"}

QueueTypeOK ==
    /\ head \in 0 .. MaxPush
    /\ tail \in 0 .. MaxPush
    /\ slots \in [Offsets -> Values \cup {None}]
    /\ qpc \in [Threads -> QueueSteps]
    /\ off \in [Threads -> 0 .. MaxPush]
    /\ arg \in [Threads -> Values \cup {None}]
    /\ ret \in [Threads -> Values \cup {None}]
    /\ item \in [Offsets -> Values \cup {None}]
    /\ delivered \in SUBSET Offsets

QueueInit ==
    /\ head = 0
    /\ tail = 0
    /\ slots = [o \in Offsets |-> None]
    /\ qpc = [t \in Threads |-> "idle"]
    /\ off = [t \in Threads |-> 0]
    /\ arg = [t \in Threads |-> None]
    /\ ret = [t \in Threads |-> None]
    /\ item = [o \in Offsets |-> None]
    /\ delivered = {}

(* Thread t is at step `from` and goes on to step `to`. *)
QueueGoto(t, from, to) ==
    /\ qpc[t] = from
    /\ qpc' = [qpc EXCEPT ![t] = to]

-----------------------------------------------------------------------------
(* push *)

(* let offset = self.tail.fetch_add(1) *)
PushReserve(t, v) ==
    /\ tail < MaxPush
    /\ QueueGoto(t, "idle", "insert")
    /\ off' = [off EXCEPT ![t] = tail]
    /\ tail' = tail + 1
    /\ arg' = [arg EXCEPT ![t] = v]
    /\ item' = [item EXCEPT ![tail] = v]
    /\ UNCHANGED <<head, slots, ret, delivered>>

(* Mutant: the value is not stored when a pop has already claimed the offset. *)
PushInsertIfUnclaimed(t) ==
    /\ QueueGoto(t, "insert", "idle")
    /\ slots' = IF off[t] < head THEN slots ELSE [slots EXCEPT ![off[t]] = arg[t]]
    /\ arg' = [arg EXCEPT ![t] = None]
    /\ UNCHANGED <<head, tail, off, ret, item, delivered>>

(* self.slots.insert(offset, value) *)
PushInsert(t) ==
    /\ QueueGoto(t, "insert", "idle")
    /\ slots' = [slots EXCEPT ![off[t]] = arg[t]]
    /\ arg' = [arg EXCEPT ![t] = None]
    /\ UNCHANGED <<head, tail, off, ret, item, delivered>>

-----------------------------------------------------------------------------
(* pop *)

PopCall(t) ==
    /\ QueueGoto(t, "idle", "load_head")
    /\ UNCHANGED <<head, tail, slots, off, arg, ret, item, delivered>>

(* let header = self.head.load() *)
PopLoadHead(t) ==
    /\ QueueGoto(t, "load_head", "load_tail")
    /\ off' = [off EXCEPT ![t] = head]
    /\ UNCHANGED <<head, tail, slots, arg, ret, item, delivered>>

(* Mutant: the test for the empty queue is left out. *)
PopLoadTailUnchecked(t) ==
    /\ QueueGoto(t, "load_tail", "cas")
    /\ UNCHANGED <<head, tail, slots, off, arg, ret, item, delivered>>

(* let tail = self.tail.load(): equal counters mean an empty queue *)
PopLoadTail(t) ==
    /\ IF off[t] = tail
       THEN /\ QueueGoto(t, "load_tail", "idle")
            /\ ret' = [ret EXCEPT ![t] = None]
       ELSE /\ QueueGoto(t, "load_tail", "cas")
            /\ UNCHANGED ret
    /\ UNCHANGED <<head, tail, slots, off, arg, item, delivered>>

(* self.head.compare_exchange(header, header + 1): on failure, once more *)
PopCas(t) ==
    /\ IF head = off[t]
       THEN QueueGoto(t, "cas", "spin") /\ head' = head + 1
       ELSE QueueGoto(t, "cas", "load_head") /\ UNCHANGED head
    /\ UNCHANGED <<tail, slots, off, arg, ret, item, delivered>>

(* Mutant: the value is cloned out of the map and its entry stays. *)
SpinPopKeeps(t) ==
    /\ QueueGoto(t, "spin", "idle")
    /\ slots[off[t]] # None
    /\ ret' = [ret EXCEPT ![t] = slots[off[t]]]
    /\ delivered' = delivered \cup {off[t]}
    /\ UNCHANGED <<head, tail, slots, off, arg, item>>

(* spin_pop_by_offset: self.slots.remove(&index), tried until it succeeds *)
SpinPop(t) ==
    /\ QueueGoto(t, "spin", "idle")
    /\ slots[off[t]] # None
    /\ ret' = [ret EXCEPT ![t] = slots[off[t]]]
    /\ slots' = [slots EXCEPT ![off[t]] = None]
    /\ delivered' = delivered \cup {off[t]}
    /\ UNCHANGED <<head, tail, off, arg, item>>

-----------------------------------------------------------------------------
(* len: tail and head are read one after the other *)

LenLoadTail(t) ==
    /\ QueueGoto(t, "idle", "len_head")
    /\ off' = [off EXCEPT ![t] = tail]
    /\ UNCHANGED <<head, tail, slots, arg, ret, item, delivered>>

(* off[t] - head is returned *)
LenLoadHead(t) ==
    /\ QueueGoto(t, "len_head", "idle")
    /\ UNCHANGED <<head, tail, slots, off, arg, ret, item, delivered>>

-----------------------------------------------------------------------------

(* The steps of a call in progress. *)
QueueResume(t) ==
    \/ PushInsert(t)
    \/ PopLoadHead(t)
    \/ PopLoadTail(t)
    \/ PopCas(t)
    \/ SpinPop(t)
    \/ LenLoadHead(t)

QueueNext ==
    \E t \in Threads :
        \/ \E v \in Values : PushReserve(t, v)
        \/ PopCall(t)
        \/ LenLoadTail(t)
        \/ QueueResume(t)

QueueSpec == QueueInit /\ [][QueueNext]_queueVars

(* Every thread that is in a call is scheduled again and again: the operating
   system's threads are not suspended for ever. *)
QueueFairSpec == QueueSpec /\ \A t \in Threads : WF_queueVars(QueueResume(t))

-----------------------------------------------------------------------------
(* A push has reserved offset o and has not yet stored its value there. *)
Inserting(o) == \E t \in Threads : qpc[t] = "insert" /\ off[t] = o

(* Every reserved offset is in exactly one place: in the hands of the push
   that reserved it, in the map, or delivered; and it is delivered only
   after a pop has claimed it.  No value is lost between push's fetch_add and
   its insert, whatever pops happen in between. *)
NoValueLost ==
    \A o \in Offsets :
        /\ o < tail =>
              \/ Inserting(o) /\ slots[o] = None /\ o \notin delivered
              \/ ~Inserting(o) /\ slots[o] = item[o] /\ item[o] # None
                    /\ o \notin delivered
              \/ ~Inserting(o) /\ slots[o] = None /\ o \in delivered
        /\ o >= tail => ~Inserting(o) /\ slots[o] = None /\ o \notin delivered
        /\ o \in delivered => o < head

(* Pops claim only reserved offsets, every claimed offset belongs to exactly one
   pop until that pop has removed its value, and so spin_pop_by_offset never
   waits for a value that another pop has taken. *)
ClaimIsExclusive ==
    /\ head <= tail
    /\ \A t, u \in Threads :
          qpc[t] = "spin" /\ qpc[u] = "spin" /\ off[t] = off[u] => t = u
    /\ \A t \in Threads :
          qpc[t] = "spin" => off[t] < head /\ off[t] \notin delivered
    /\ \A o \in Offsets :
          o < head /\ o \notin delivered =>
              \E t \in Threads : qpc[t] = "spin" /\ off[t] = o

(* The queue refines a FIFO queue whose push takes effect at the fetch_add,
   and whose pop takes effect at the successful CAS, or at the load of tail
   that finds the queue empty. *)
QueueSeq == [i \in 1 .. tail - head |-> item[head + i - 1]]
Phase(step) ==
    CASE step \in {"idle", "len_head"} -> "idle"
      [] step = "insert" -> "pushing"
      [] step \in {"load_head", "load_tail", "cas"} -> "popping"
      [] OTHER -> "taken"

F == INSTANCE Fifo WITH
        queue <- QueueSeq,
        phase <- [t \in Threads |-> Phase(qpc[t])],
        taken <- [t \in Threads |-> IF qpc[t] = "spin" THEN item[off[t]] ELSE None]

(* Every interleaving of pushes and pops is a behaviour of a FIFO queue. *)
RefinesFifo == F!Spec

(* Every call returns, as long as pushes come to an end: the loop of pop ends,
   because a failed CAS means that
   another pop has claimed an offset, and the spin ends, because the push that
   reserved the offset stores its value. *)
EveryCallReturns ==
    \A t \in Threads : qpc[t] # "idle" ~> qpc[t] = "idle"

(* len's subtraction of head from the tail it has read does not underflow.  It
   does not hold: head may pass that tail between the two loads. *)
LenNeverUnderflows ==
    \A t \in Threads : qpc[t] = "len_head" => head <= off[t]
=============================================================================
