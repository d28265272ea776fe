--------------------------- MODULE ProfilerProofs ---------------------------
(***************************************************************************)
(* Proofs about the profilers of hala-pprof, for any threads, blocks and   *)
(* sizes: the allocator and the two profilers cannot deadlock, and the     *)
(* statistics and the map of the heap profiler follow the heap.  And about *)
(* their reports, for any frames, symbols and labels: the profile that a   *)
(* report builds is sound.                                                 *)
(***************************************************************************)
EXTENDS Profiler, GperfReport, FiniteSetTheorems, TLAPS

Steps == {"idle", "allocated", "trace", "tracing", "insert", "inserting", "count",
          "add_size", "unregister", "uncount", "sub_size", "free"}

Calls == {"idle", "snapshotting", "heap_report", "heap_resolving", "sample",
          "sampling", "push", "pushing", "drain", "draining", "report", "resolving"}

TypeOK ==
    /\ pc \in [Threads -> Steps]
    /\ call \in [Threads -> Calls]
    /\ arg \in [Threads -> [ptr : Pointers \cup {Null}, size : Sizes \cup {0}]]
    /\ \A p \in DOMAIN live : live[p] \in Sizes \cup {0}
    /\ DOMAIN live \subseteq Pointers \ {Null}
    /\ DOMAIN blocks \subseteq Pointers \cup {Null}
    /\ counter \in Int
    /\ failed \in BOOLEAN
    /\ started \in BOOLEAN

(* The steps of register *)
Registering == {"trace", "tracing", "insert", "inserting", "count", "add_size"}

(* A nested alloc or dealloc is where the profiler allocates, register is
   never nested in the heap profiler's report, and a lock has one holder. *)
LocksOK ==
    /\ \A t \in Threads : pc[t] # "idle" => call[t] \in Allocates
    /\ \A t \in Threads : pc[t] \in Registering => call[t] \notin HeapReport
    /\ \A l \in Locks : \A t, u \in Threads : Holds(t, l) /\ Holds(u, l) => t = u

(* The types hold initially. *)
LEMMA TypeInit == Init => TypeOK
<1> SUFFICES ASSUME Init PROVE TypeOK
    BY Zenon
<1>1. DOMAIN live = {} /\ DOMAIN blocks = {}
  BY Zenon DEF Init
<1>2. arg \in [Threads -> [ptr : Pointers \cup {Null}, size : Sizes \cup {0}]]
  BY Zenon DEF Init, NoArg
<1>3. failed \in BOOLEAN /\ started \in BOOLEAN
  BY Zenon DEF Init
<1>4. pc \in [Threads -> Steps] /\ call \in [Threads -> Calls] /\ counter \in Int
  BY DEF Init, Steps, Calls
<1> QED BY Zenon, <1>1, <1>2, <1>3, <1>4 DEF TypeOK

(* Every step of an allocation, a free and a profiler call keeps the types. *)
LEMMA TypeStep == TypeOK /\ [Next]_vars => TypeOK'
<1> SUFFICES ASSUME TypeOK, [Next]_vars PROVE TypeOK'
    BY Zenon
<1> USE DEF TypeOK, Steps, Calls
<1>1. ASSUME NEW t \in Threads, Alloc(t) PROVE TypeOK'
  <2>1. ASSUME NEW p \in Pointers \cup {Null}, NEW s \in Sizes, SystemAlloc(t, p, s)
        PROVE  TypeOK'
    BY Zenon, <2>1 DEF SystemAlloc, Goto, cpu, stats
  <2>2. CASE AllocReturns(t)
    BY ZenonT(60), <2>2 DEF AllocReturns, Return, With, NoArg, Goto, cpu, stats
  <2>3. CASE Register(t) \/ Backtrace(t) \/ BacktraceEnds(t) \/ LockBlocks(t)
    BY ZenonT(60), <2>3 DEF Register, Backtrace, BacktraceEnds, LockBlocks, Goto, cpu, stats
  <2>4. CASE Insert(t)
    BY ZenonT(60), <2>4 DEF Insert, With, Goto, cpu, stats
  <2>5. CASE AddCounter(t)
    BY <2>5 DEF AddCounter, Goto, cpu
  <2>6. CASE AddSize(t)
    BY Zenon, <2>6 DEF AddSize, Return, With, NoArg, Goto, cpu
  <2> QED BY Zenon, <1>1, <2>1, <2>2, <2>3, <2>4, <2>5, <2>6 DEF Alloc
<1>2. ASSUME NEW t \in Threads, Free(t) PROVE TypeOK'
  <2>1. ASSUME NEW p \in Pointers, Dealloc(t, p) PROVE TypeOK'
    BY Zenon, <2>1 DEF Dealloc, Without, Goto, cpu, stats
  <2>2. CASE Remove(t)
    BY Zenon, <2>2 DEF Remove, Without, Goto, cpu, stats
  <2>3. CASE SubCounter(t) \/ SubSize(t)
    BY <2>3 DEF SubCounter, SubSize, Goto, cpu
  <2>4. CASE SystemDealloc(t)
    BY Zenon, <2>4 DEF SystemDealloc, NoArg, Goto, cpu, stats
  <2> QED BY Zenon, <1>2, <2>1, <2>2, <2>3, <2>4 DEF Free
<1>3. ASSUME NEW t \in Threads, Call(t) PROVE TypeOK'
  BY ZenonT(60), <1>3 DEF Call, Snapshot, SnapshotEnds, Resolve, ResolveEnds, ReportEnds, Sample,
              SampleTrace, SampleTraceEnds, PushLock, Push, Stop, DrainLock, Drain,
              CallGoto, heap, stats
<1>4. CASE heap_profiler_start \/ Start \/ UNCHANGED vars
  BY Zenon, <1>4 DEF heap_profiler_start, Start, vars, heap, cpu, stats
<1> QED BY Zenon, <1>1, <1>2, <1>3, <1>4 DEF Next

(* No lock is held initially. *)
LEMMA LocksInit == Init => LocksOK
BY DEF Init, LocksOK, Holds, Registering, Locks

(* A lock is taken only when nobody else holds it, and register is entered
   outside the heap profiler's report only. *)
LEMMA LocksStep == TypeOK /\ LocksOK /\ [Next]_vars => LocksOK'
<1> SUFFICES ASSUME TypeOK, LocksOK, [Next]_vars PROVE LocksOK'
    BY Zenon
<1> USE DEF TypeOK, Steps, Calls, LocksOK, Locks, Holds, Registering, Allocates, HeapReport
<1>1. ASSUME NEW t \in Threads, Alloc(t) PROVE LocksOK'
  <2>1. ASSUME NEW p \in Pointers \cup {Null}, NEW s \in Sizes, SystemAlloc(t, p, s)
        PROVE  LocksOK'
    BY <2>1 DEF SystemAlloc, Goto, cpu
  <2>2. CASE AllocReturns(t) \/ Register(t)
    BY <2>2 DEF AllocReturns, Register, IsOk, Goto, cpu
  <2>3. CASE Backtrace(t)
    BY <2>3 DEF Backtrace, MayLock, Goto, cpu
  <2>4. CASE BacktraceEnds(t)
    BY <2>4 DEF BacktraceEnds, Goto, cpu
  <2>5. CASE LockBlocks(t)
    BY <2>5 DEF LockBlocks, MayLock, Goto, cpu
  <2>6. CASE Insert(t) \/ AddCounter(t) \/ AddSize(t)
    BY <2>6 DEF Insert, AddCounter, AddSize, Goto, cpu
  <2> QED BY Zenon, <1>1, <2>1, <2>2, <2>3, <2>4, <2>5, <2>6 DEF Alloc
<1>2. ASSUME NEW t \in Threads, Free(t) PROVE LocksOK'
  <2>1. ASSUME NEW p \in Pointers, Dealloc(t, p) PROVE LocksOK'
    BY <2>1 DEF Dealloc, Goto, cpu
  <2>2. CASE Remove(t)
    BY <2>2 DEF Remove, Goto, cpu
  <2>3. CASE SubCounter(t) \/ SubSize(t)
    BY <2>3 DEF SubCounter, SubSize, Goto, cpu
  <2>4. CASE SystemDealloc(t)
    BY <2>4 DEF SystemDealloc, Goto, cpu
  <2> QED BY Zenon, <1>2, <2>1, <2>2, <2>3, <2>4 DEF Free
<1>3. ASSUME NEW t \in Threads, Call(t) PROVE LocksOK'
  <2> USE DEF CallGoto, heap
  <2>1. CASE Snapshot(t)
    BY <2>1 DEF Snapshot, MayLock
  <2>2. CASE Resolve(t, "heap_report", "heap_resolving")
    BY <2>2 DEF Resolve, MayLock
  <2>3. CASE Resolve(t, "report", "resolving")
    BY <2>3 DEF Resolve, MayLock
  <2>4. CASE SampleTrace(t)
    BY <2>4 DEF SampleTrace, MayLock
  <2>5. CASE PushLock(t)
    BY <2>5 DEF PushLock, MayLock
  <2>10. CASE DrainLock(t)
    BY <2>10 DEF DrainLock, MayLock
  <2>6. CASE SnapshotEnds(t) \/ ReportEnds(t, "heap_report") \/ ReportEnds(t, "report")
    BY SMTT(30), <2>6 DEF SnapshotEnds, ReportEnds
  <2>7. CASE ResolveEnds(t, "heap_report", "heap_resolving")
    BY <2>7 DEF ResolveEnds
  <2>8. CASE ResolveEnds(t, "report", "resolving")
    BY <2>8 DEF ResolveEnds
  <2>9. CASE Sample(t) \/ SampleTraceEnds(t) \/ Push(t) \/ Stop(t) \/ Drain(t)
    BY SMTT(30), <2>9 DEF Sample, SampleTraceEnds, Push, Stop, Drain
  <2> QED BY ZenonT(60), <1>3, <2>1, <2>2, <2>3, <2>4, <2>5, <2>6, <2>7, <2>8, <2>9, <2>10
       DEF Call
<1>4. CASE heap_profiler_start \/ Start \/ UNCHANGED vars
  BY <1>4 DEF heap_profiler_start, Start, vars, heap, cpu
<1> QED BY Zenon, <1>1, <1>2, <1>3, <1>4 DEF Next

(* A thread that holds the map waits for nothing, one that holds the backtrace
   mutex for the map at most, and one that holds the samples not for them. *)
LEMMA LockOrder ==
    TypeOK /\ LocksOK =>
        \A t \in Threads :
            /\ Holds(t, "map") => Needs(t) \subseteq {"map"}
            /\ Holds(t, "backtrace") => Needs(t) \subseteq {"backtrace", "map"}
            /\ Holds(t, "samples") => Needs(t) \subseteq {"backtrace", "map"}
            /\ Needs(t) \subseteq Locks
            /\ \A l \in Locks : Holds(t, l) => Busy(t)
BY DEF TypeOK, LocksOK, Holds, Needs, Steps, Calls, Allocates, HeapReport, Registering,
       Locks, Busy

(* The order of the locks rules out that all busy threads wait: the holder of the
   last lock that is held can go on. *)
LEMMA OrderSuffices == TypeOK /\ LocksOK => SomeoneRuns
<1> SUFFICES ASSUME TypeOK, LocksOK, NEW b \in Threads, Busy(b)
             PROVE  \E t \in Threads : Busy(t) /\ ~Blocked(t)
    BY Zenon DEF SomeoneRuns
<1>1. \A l \in Locks : \A t, u \in Threads : Holds(t, l) /\ Holds(u, l) => t = u
  BY Zenon DEF LocksOK
<1>2. "map" \in Locks /\ "backtrace" \in Locks /\ "samples" \in Locks
  BY Zenon DEF Locks
<1>3. CASE \E t \in Threads : Holds(t, "map")
  BY <1>1, <1>2, <1>3, LockOrder DEF Blocked, MayLock
<1>4. CASE (\E t \in Threads : Holds(t, "backtrace"))
      /\ ~(\E t \in Threads : Holds(t, "map"))
  BY <1>1, <1>2, <1>4, LockOrder DEF Blocked, MayLock
<1>5. CASE /\ \E t \in Threads : Holds(t, "samples")
           /\ ~\E t \in Threads : Holds(t, "map") \/ Holds(t, "backtrace")
  BY <1>1, <1>2, <1>5, LockOrder DEF Blocked, MayLock
<1>6. CASE ~\E t \in Threads, l \in Locks : Holds(t, l)
  BY Zenon, <1>6, LockOrder DEF Blocked, MayLock
<1> QED BY Zenon, <1>3, <1>4, <1>5, <1>6 DEF Locks

(* No deadlock between the allocator and the profilers. *)
THEOREM ProfilersSomeoneRuns == Spec => []SomeoneRuns
<1>1. Init => TypeOK /\ LocksOK
  BY Zenon, TypeInit, LocksInit
<1>2. TypeOK /\ LocksOK /\ [Next]_vars => TypeOK' /\ LocksOK'
  BY Zenon, TypeStep, LocksStep
<1>3. TypeOK /\ LocksOK => SomeoneRuns
  BY Zenon, OrderSuffices
<1> QED BY <1>1, <1>2, <1>3, PTL DEF Spec

-----------------------------------------------------------------------------
(* A pointer in the hands of alloc or dealloc is no live block's and no other
   call's, unless the allocation failed. *)
ArgsOK ==
    /\ \A t \in Threads : pc[t] # "idle" => arg[t].ptr \notin DOMAIN live
    /\ \A t, u \in Threads :
           pc[t] # "idle" /\ pc[u] # "idle" /\ arg[t].ptr = arg[u].ptr /\ arg[t].ptr # Null
               => t = u
    /\ \A t \in Threads : pc[t] # "idle" /\ arg[t].ptr = Null => failed
    /\ \A t \in Threads :
           pc[t] \in {"unregister", "uncount", "sub_size", "free"} => arg[t].ptr # Null

(* Before the start nothing is registered; a block is seen from its alloc to
   the end of its dealloc. *)
SeenOK ==
    /\ ~started => /\ DOMAIN blocks = {}
                   /\ seen = {}
                   /\ \A t \in Threads : pc[t] \in {"idle", "allocated", "free"}
    /\ \A p \in seen : \/ p \in DOMAIN live
                       \/ p = Null
                       \/ \E t \in Threads : pc[t] # "idle" /\ arg[t].ptr = p
    /\ \A t \in Threads : pc[t] = "allocated" /\ arg[t].ptr # Null => arg[t].ptr \notin seen

(* MapIsLive, for the blocks in the hands of alloc and dealloc as well *)
MapOK ==
    /\ MapIsLive
    /\ \A p \in DOMAIN live \cap DOMAIN blocks : blocks[p] = live[p]
    /\ \A t \in Threads : pc[t] \in {"count", "add_size"} /\ arg[t].ptr # Null =>
           arg[t].ptr \in DOMAIN blocks /\ blocks[arg[t].ptr] = arg[t].size

HeapOK == ArgsOK /\ SeenOK /\ MapOK

(* The heap and the map are empty initially. *)
LEMMA HeapInit == Init => HeapOK
<1> SUFFICES ASSUME Init PROVE HeapOK
    BY Zenon
<1>1. DOMAIN live = {} /\ DOMAIN blocks = {}
  BY Zenon DEF Init
<1> QED BY Zenon, <1>1 DEF Init, HeapOK, ArgsOK, SeenOK, MapOK, MapIsLive

(* Every step keeps heap, map and the calls' pointers in agreement. *)
LEMMA HeapStep == TypeOK /\ HeapOK /\ [Next]_vars => HeapOK'
<1> SUFFICES ASSUME TypeOK, HeapOK, [Next]_vars PROVE HeapOK'
    BY Zenon
<1> USE DEF TypeOK, Steps, HeapOK
<1>1. ASSUME NEW t \in Threads, NEW p \in Pointers \cup {Null}, NEW s \in Sizes,
             SystemAlloc(t, p, s)
      PROVE  HeapOK'
  <2>1. /\ pc[t] = "idle" /\ pc'[t] = "allocated"
        /\ arg'[t] = [ptr |-> p, size |-> s]
        /\ \A u \in Threads \ {t} : pc'[u] = pc[u] /\ arg'[u] = arg[u]
    BY Zenon, <1>1 DEF SystemAlloc, Goto
  <2>2. UNCHANGED <<started, live, blocks, seen>>
    BY Zenon, <1>1 DEF SystemAlloc
  <2>3. /\ p \notin DOMAIN live
        /\ \A u \in Threads : p # Null /\ pc[u] # "idle" => arg[u].ptr # p
    BY Zenon, <1>1 DEF SystemAlloc, Taken
  <2>4. (failed => failed') /\ (p = Null => failed')
    BY Zenon, <1>1 DEF SystemAlloc
  <2>5. ArgsOK'
    <3>1. arg'[t].ptr = p
      BY <2>1
    <3>2. \A u \in Threads : pc'[u] # "idle" => arg'[u].ptr \notin DOMAIN live'
      BY Zenon, <2>1, <2>2, <2>3, <3>1 DEF ArgsOK
    <3>3. \A u, v \in Threads :
              pc'[u] # "idle" /\ pc'[v] # "idle" /\ arg'[u].ptr = arg'[v].ptr
                  /\ arg'[u].ptr # Null => u = v
      BY <2>1, <2>3, <3>1 DEF ArgsOK
    <3>4. \A u \in Threads : pc'[u] # "idle" /\ arg'[u].ptr = Null => failed'
      BY Zenon, <2>1, <2>4, <3>1 DEF ArgsOK
    <3>5. \A u \in Threads :
              pc'[u] \in {"unregister", "uncount", "sub_size", "free"} => arg'[u].ptr # Null
      BY Zenon, <2>1 DEF ArgsOK
    <3> QED BY Zenon, <3>2, <3>3, <3>4, <3>5 DEF ArgsOK
  <2>6. SeenOK'
    <3>1. p # Null => p \notin seen
      BY Zenon, <2>3 DEF SeenOK
    <3> QED BY <2>1, <2>2, <3>1 DEF SeenOK
  <2>7. MapOK'
    BY <2>1, <2>2 DEF MapOK, MapIsLive
  <2> QED BY Zenon, <2>5, <2>6, <2>7
<1>2. ASSUME NEW t \in Threads, AllocReturns(t) \/ AddSize(t)
      PROVE  HeapOK'
  <2>1. /\ pc[t] \in {"allocated", "add_size"}
        /\ pc'[t] = "idle"
        /\ \A u \in Threads \ {t} : pc'[u] = pc[u] /\ arg'[u] = arg[u]
    BY Zenon, <1>2 DEF AllocReturns, AddSize, Return, Goto
  <2>2. /\ arg[t].ptr = Null => live' = live
        /\ arg[t].ptr # Null =>
               /\ DOMAIN live' = DOMAIN live \cup {arg[t].ptr}
               /\ live'[arg[t].ptr] = arg[t].size
               /\ \A q \in DOMAIN live \ {arg[t].ptr} : live'[q] = live[q]
    BY <1>2 DEF AllocReturns, AddSize, Return, With
  <2>3. UNCHANGED <<started, blocks, seen, failed>>
    BY Zenon, <1>2 DEF AllocReturns, AddSize
  <2>4. ArgsOK'
    BY SMTT(30), <2>1, <2>2, <2>3 DEF ArgsOK
  <2>5. SeenOK'
    BY <2>1, <2>2, <2>3 DEF SeenOK
  <2>6. MapOK'
    <3>1. CASE arg[t].ptr = Null
      BY <2>1, <2>2, <2>3, <3>1 DEF MapOK, MapIsLive
    <3>2. CASE arg[t].ptr # Null
      BY <2>1, <2>2, <2>3, <3>2 DEF ArgsOK, SeenOK, MapOK, MapIsLive
    <3> QED BY Zenon, <3>1, <3>2
  <2> QED BY Zenon, <2>4, <2>5, <2>6
<1>3. ASSUME NEW t \in Threads,
             \/ Register(t) \/ Backtrace(t) \/ BacktraceEnds(t) \/ LockBlocks(t)
             \/ AddCounter(t) \/ SubCounter(t) \/ SubSize(t)
      PROVE  HeapOK'
  <2>1. /\ UNCHANGED <<started, live, blocks, arg, failed>>
        /\ \A u \in Threads \ {t} : pc'[u] = pc[u]
        /\ \/ pc[t] = "allocated" /\ pc'[t] = "trace" /\ started
                /\ seen' = seen \cup {arg[t].ptr}
           \/ pc[t] = "count" /\ pc'[t] = "add_size" /\ UNCHANGED seen
           \/ pc[t] \in {"trace", "tracing", "insert"}
              /\ pc'[t] \in {"tracing", "insert", "inserting"}
              /\ UNCHANGED seen
           \/ pc[t] \in {"uncount", "sub_size"} /\ pc'[t] \in {"sub_size", "free"}
              /\ UNCHANGED seen
    BY Zenon, <1>3 DEF Register, Backtrace, BacktraceEnds, LockBlocks, AddCounter, SubCounter,
                SubSize, Goto
  <2>2. ArgsOK'
    BY <2>1 DEF ArgsOK
  <2>3. SeenOK'
    BY ZenonT(60), <2>1 DEF ArgsOK, SeenOK
  <2>4. MapOK'
    BY SMTT(30), <2>1 DEF ArgsOK, MapOK, MapIsLive
  <2> QED BY Zenon, <2>2, <2>3, <2>4
<1>4. ASSUME NEW t \in Threads, Insert(t)
      PROVE  HeapOK'
  <2> USE <1>4 DEF Insert, With, Goto, stats, cpu
  <2>1. ArgsOK'
    BY ZenonT(60) DEF ArgsOK
  <2>2. SeenOK'
    BY Zenon DEF SeenOK
  <2>3. MapOK'
    BY DEF ArgsOK, MapOK, MapIsLive
  <2> QED BY Zenon, <2>1, <2>2, <2>3
<1>5. ASSUME NEW t \in Threads, NEW p \in Pointers, Dealloc(t, p)
      PROVE  HeapOK'
  <2>1. /\ p \in DOMAIN live
        /\ pc[t] = "idle"
        /\ pc' \in [Threads -> Steps]
        /\ pc'[t] \in {"unregister", "free"}
        /\ started <=> pc'[t] = "unregister"
        /\ arg'[t].ptr = p
        /\ arg'[t].size = live[p]
        /\ \A u \in Threads \ {t} : pc'[u] = pc[u] /\ arg'[u] = arg[u]
    BY Zenon, <1>5 DEF Dealloc, Goto
  <2>2. /\ DOMAIN live' = DOMAIN live \ {p}
        /\ \A q \in DOMAIN live' : live'[q] = live[q]
    BY Zenon, <1>5 DEF Dealloc, Without
  <2>3. UNCHANGED <<started, blocks, seen, failed>>
    BY Zenon, <1>5 DEF Dealloc
  <2>4. ArgsOK'
    <3>1. p # Null /\ \A u \in Threads : pc[u] # "idle" => arg[u].ptr # p
      BY Zenon, <2>1 DEF ArgsOK
    <3>2. \A u \in Threads : pc'[u] # "idle" => arg'[u].ptr \notin DOMAIN live'
      BY Zenon, <2>1, <2>2 DEF ArgsOK
    <3>3. \A u, v \in Threads :
              pc'[u] # "idle" /\ pc'[v] # "idle" /\ arg'[u].ptr = arg'[v].ptr
              /\ arg'[u].ptr # Null
                  => u = v
      BY <2>1, <3>1 DEF ArgsOK
    <3>4. \A u \in Threads : pc'[u] # "idle" /\ arg'[u].ptr = Null => failed'
      BY Zenon, <2>1, <2>3, <3>1 DEF ArgsOK
    <3>5. \A u \in Threads :
              pc'[u] \in {"unregister", "uncount", "sub_size", "free"} => arg'[u].ptr # Null
      BY Zenon, <2>1, <3>1 DEF ArgsOK
    <3> QED BY Zenon, <3>2, <3>3, <3>4, <3>5 DEF ArgsOK
  <2>5. SeenOK'
    BY <2>1, <2>2, <2>3 DEF SeenOK
  <2>6. MapOK'
    <3>1. ~started => DOMAIN blocks = {}
      BY Zenon DEF SeenOK
    <3>2. MapIsLive'
      BY <2>1, <2>2, <2>3, <3>1 DEF MapOK, MapIsLive
    <3> QED BY <2>1, <2>2, <2>3, <3>2 DEF MapOK
  <2> QED BY Zenon, <2>4, <2>5, <2>6
<1>6. ASSUME NEW t \in Threads, Remove(t)
      PROVE  HeapOK'
  <2>1. /\ pc[t] = "unregister"
        /\ pc' \in [Threads -> Steps]
        /\ pc'[t] \in {"uncount", "free"}
        /\ \A u \in Threads \ {t} : pc'[u] = pc[u]
    BY Zenon, <1>6 DEF Remove, Goto
  <2>2. /\ DOMAIN blocks' = DOMAIN blocks \ {arg[t].ptr}
        /\ \A q \in DOMAIN blocks' : blocks'[q] = blocks[q]
    BY Zenon, <1>6 DEF Remove, Without
  <2>3. UNCHANGED <<started, live, arg, seen, failed>>
    BY Zenon, <1>6 DEF Remove
  <2>4. ArgsOK'
    BY <2>1, <2>3 DEF ArgsOK
  <2>5. SeenOK'
    BY SMTT(30), <2>1, <2>2, <2>3 DEF SeenOK
  <2>6. MapOK'
    <3>1. /\ arg[t].ptr \notin DOMAIN live
          /\ \A u \in Threads \ {t} : pc[u] # "idle" => arg[u].ptr # arg[t].ptr
      BY Zenon, <2>1 DEF ArgsOK
    <3>2. MapIsLive'
      BY <2>1, <2>2, <2>3, <3>1 DEF MapOK, MapIsLive
    <3> QED BY <2>1, <2>2, <2>3, <3>1, <3>2 DEF MapOK
  <2> QED BY Zenon, <2>4, <2>5, <2>6
<1>7. ASSUME NEW t \in Threads, SystemDealloc(t)
      PROVE  HeapOK'
  <2> USE <1>7 DEF SystemDealloc, NoArg, Goto, stats, cpu
  <2>1. ArgsOK'
    BY ZenonT(60) DEF ArgsOK
  <2>2. SeenOK'
    BY DEF ArgsOK, SeenOK
  <2>3. MapOK'
    BY DEF ArgsOK, MapOK, MapIsLive
  <2> QED BY Zenon, <2>1, <2>2, <2>3
<1>8. CASE heap_profiler_start
  <2>1. ArgsOK' /\ SeenOK'
    BY Zenon, <1>8 DEF heap_profiler_start, ArgsOK, SeenOK
  <2>2. MapOK'
    BY Zenon, <1>8 DEF heap_profiler_start, MapOK, MapIsLive
  <2> QED BY Zenon, <2>1, <2>2
<1>9. ASSUME UNCHANGED heap PROVE HeapOK'
  <2>1. ArgsOK' /\ SeenOK'
    BY Zenon, <1>9 DEF heap, ArgsOK, SeenOK
  <2>2. MapOK'
    BY Zenon, <1>9 DEF heap, MapOK, MapIsLive
  <2> QED BY Zenon, <2>1, <2>2
<1>10. ASSUME NEW t \in Threads, Call(t) PROVE UNCHANGED heap
  BY Zenon, <1>10
     DEF Call, Snapshot, SnapshotEnds, Resolve, ResolveEnds, ReportEnds, Sample, 
               SampleTrace, SampleTraceEnds, PushLock, Push, Stop, DrainLock, Drain
<1>11. ASSUME Start \/ UNCHANGED vars PROVE UNCHANGED heap
  BY Zenon, <1>11 DEF Start, vars
<1> QED BY Zenon, <1>1, <1>2, <1>3, <1>4, <1>5, <1>6, <1>7, <1>8, <1>9, <1>10, <1>11
        DEF Next, Alloc, Free

-----------------------------------------------------------------------------
(* The counter is zero initially. *)
LEMMA CountInit == Init => StatsFollowMap
<1> SUFFICES ASSUME Init PROVE StatsFollowMap
    BY Zenon
<1>1. Counted = {}
  BY Zenon DEF Init, Counted
<1> QED BY Zenon, <1>1, FS_EmptySet DEF Init, StatsFollowMap

(* insert and remove leave the counted blocks alone, and fetch_add and fetch_sub
   change the counter with them. *)
LEMMA CountStep == TypeOK /\ HeapOK /\ StatsFollowMap /\ [Next]_vars => StatsFollowMap'
<1> SUFFICES ASSUME TypeOK, HeapOK, StatsFollowMap, [Next]_vars, ~failed'
             PROVE  IsFiniteSet(Counted') /\ counter' = Cardinality(Counted')
    BY Zenon DEF StatsFollowMap
<1>1. \/ failed' = failed
      \/ \E t \in Threads, p \in Pointers \cup {Null}, s \in Sizes : SystemAlloc(t, p, s)
  BY ZenonT(60)
     DEF Next, Alloc, Free, Call, AllocReturns, Register, Backtrace, BacktraceEnds,
         LockBlocks, 
         Insert, AddCounter, AddSize, Dealloc, Remove, SubCounter, SubSize, SystemDealloc,
         heap_profiler_start, Start, vars, Snapshot, SnapshotEnds, Resolve, ResolveEnds,
         ReportEnds, Sample, SampleTrace, SampleTraceEnds, PushLock, Push, Stop, DrainLock,
         Drain, heap
<1>2. ~failed
  BY Zenon, <1>1 DEF SystemAlloc
<1>3. IsFiniteSet(Counted) /\ counter = Cardinality(Counted)
  BY Zenon, <1>2 DEF StatsFollowMap
<1>4. /\ \A t \in Threads : pc[t] # "idle" => arg[t].ptr # Null
      /\ \A t, u \in Threads :
             pc[t] # "idle" /\ pc[u] # "idle" /\ arg[t].ptr = arg[u].ptr => t = u
  BY Zenon, <1>2 DEF HeapOK, ArgsOK
<1>5. \A t \in Threads :
          pc[t] \notin {"idle", "count", "add_size", "unregister"} =>
              arg[t].ptr \notin DOMAIN blocks
  BY <1>2, <1>4 DEF HeapOK, ArgsOK, MapOK, MapIsLive, TypeOK
<1> DEFINE Goal == IsFiniteSet(Counted') /\ counter' = Cardinality(Counted')
<1>6. ASSUME Counted' = Counted, counter' = counter PROVE Goal
  BY Zenon, <1>3, <1>6
<1>7. ASSUME NEW t \in Threads, AddCounter(t) PROVE Goal
  <2>1. arg[t].ptr \in DOMAIN blocks
    BY Zenon, <1>4, <1>7 DEF AddCounter, Goto, HeapOK, MapOK
  <2>2. arg[t].ptr \notin Counted
    BY ZenonT(60), <1>4, <1>7 DEF AddCounter, Goto, Counted
  <2>3. Counted' = Counted \cup {arg[t].ptr}
    BY <1>4, <1>7, <2>1 DEF AddCounter, Goto, Counted, TypeOK
  <2> QED BY Zenon, <1>3, <1>7, <2>2, <2>3, FS_AddElement DEF AddCounter
<1>8. ASSUME NEW t \in Threads, SubCounter(t) PROVE Goal
  <2>1. arg[t].ptr \in Counted
    BY Zenon, <1>8 DEF SubCounter, Goto, Counted
  <2>2. Counted' = Counted \ {arg[t].ptr}
    BY <1>4, <1>5, <1>8 DEF SubCounter, Goto, Counted, TypeOK
  <2> QED BY Zenon, <1>3, <1>8, <2>1, <2>2, FS_RemoveElement DEF SubCounter
<1>9. ASSUME NEW t \in Threads, Insert(t) PROVE Goal
  <2>1. Counted' = Counted
    BY <1>4, <1>5, <1>9 DEF Insert, With, Goto, Counted, TypeOK
  <2> QED BY ZenonT(60), <1>6, <1>9, <2>1 DEF Insert, stats
<1>10. ASSUME NEW t \in Threads, Remove(t) PROVE Goal
  <2>1. CASE arg[t].ptr \in DOMAIN blocks
    BY SMTT(30), <1>4, <1>6, <1>10, <2>1 DEF Remove, Without, Goto, Counted, TypeOK, stats
  <2>2. CASE arg[t].ptr \notin DOMAIN blocks
    BY <1>4, <1>6, <1>10, <2>2 DEF Remove, Without, Goto, Counted, TypeOK, stats
  <2> QED BY ZenonT(60), <2>1, <2>2
<1>11. ASSUME NEW t \in Threads,
              \/ \E p \in Pointers \cup {Null}, s \in Sizes : SystemAlloc(t, p, s)
              \/ \E p \in Pointers : Dealloc(t, p)
       PROVE  Goal
  <2>1. /\ UNCHANGED <<blocks, counter>>
        /\ pc[t] = "idle"
        /\ pc'[t] \in {"allocated", "unregister", "free"}
        /\ \A u \in Threads \ {t} : pc'[u] = pc[u] /\ arg'[u] = arg[u]
    BY ZenonT(60), <1>11 DEF SystemAlloc, Dealloc, Goto, TypeOK, stats
  <2> QED BY <1>6, <2>1 DEF Counted
<1>12. ASSUME NEW t \in Threads,
              \/ AllocReturns(t) \/ Register(t) \/ Backtrace(t) \/ BacktraceEnds(t)
              \/ LockBlocks(t) \/ AddSize(t) \/ SubSize(t) \/ SystemDealloc(t)
       PROVE  Goal
  <2>1. /\ UNCHANGED <<blocks, counter>>
        /\ pc[t] \notin {"count", "uncount"}
        /\ pc'[t] \notin {"count", "uncount"}
        /\ \A u \in Threads \ {t} : pc'[u] = pc[u] /\ arg'[u] = arg[u]
    BY Zenon, <1>12 DEF AllocReturns, Register, Backtrace, BacktraceEnds, LockBlocks, AddSize,
                 SubSize, SystemDealloc, Return, Goto, TypeOK, stats
  <2> QED BY <1>6, <2>1 DEF Counted
<1>13. ASSUME \/ heap_profiler_start \/ Start \/ UNCHANGED vars
              \/ \E t \in Threads : Call(t)
       PROVE  Goal
  <2>1. UNCHANGED <<blocks, counter, pc, arg>>
    BY Zenon, <1>13
       DEF heap_profiler_start, Start, vars, heap, stats, Call, Snapshot, SnapshotEnds, 
                 Resolve, ResolveEnds, ReportEnds, Sample, SampleTrace, SampleTraceEnds,
                 PushLock, Push, Stop, DrainLock, Drain
  <2> QED BY Zenon, <1>6, <2>1 DEF Counted
<1> QED BY Zenon, <1>7, <1>8, <1>9, <1>10, <1>11, <1>12, <1>13 DEF Next, Alloc, Free

(* The inductive invariant of the heap profiler *)
LEMMA HeapInvariance == Spec => [](TypeOK /\ HeapOK /\ StatsFollowMap)
<1>1. Init => TypeOK /\ HeapOK /\ StatsFollowMap
  BY Zenon, TypeInit, HeapInit, CountInit
<1>2. TypeOK /\ HeapOK /\ StatsFollowMap /\ [Next]_vars
          => (TypeOK /\ HeapOK /\ StatsFollowMap)'
  BY Zenon, TypeStep, HeapStep, CountStep
<1> QED BY <1>1, <1>2, PTL DEF Spec

(* The counter of heap_profiler_stats follows the map of registered blocks. *)
THEOREM HeapStatsFollowMap == Spec => []StatsFollowMap
BY HeapInvariance, PTL

(* The map of the heap profiler is the heap. *)
THEOREM HeapMapIsLive == Spec => []MapIsLive
<1>1. HeapOK => MapIsLive
  BY Zenon DEF HeapOK, MapOK
<1> QED BY <1>1, HeapInvariance, PTL

-----------------------------------------------------------------------------
(* The reports *)

(* The empty sequence is one of any set. *)
LEMMA EmptyIs == \A S : <<>> \in Seq(S) /\ Len(<<>>) = 0
OBVIOUS

Texts == Strings \cup {NameOf[y] : y \in Symbols} \cup {FileOf[y] : y \in Symbols}
         \cup {"", "block", "cpu_times", "space", "bytes", "cpu", "nanoseconds"}

Functions == [id : Nat, system_name : Int, filename : Int]
Locations == [id : Nat, function_id : Nat, address : {AddressOf[y] : y \in Symbols}, symbol : Symbols]
Samples == [location_id : Seq(Nat), key : Int, str : Int, frames : Seq(Symbols),
            label : Texts \X Texts]

(* The index of a string table names the place of each string. *)
StringsOK(st) ==
    /\ st.table \in Seq(Texts)
    /\ \A s \in DOMAIN st.index : Reads(st.table, st.index[s], s)

TableTypes ==
    /\ func_table.funcs \in Seq(Functions)
    /\ loc_table \in Seq(Locations)
    /\ report \in Seq(Samples)
    /\ frames \in Seq(Symbols)
    /\ ids \in Seq(Nat)
    /\ StringsOK(string_table)

(* The index of the functions and the ids of the block at hand name the
   locations of their addresses. *)
FramesOK ==
    /\ \A a \in DOMAIN func_table.index :
           /\ func_table.index[a] \in 1..Len(loc_table)
           /\ loc_table[func_table.index[a]].address = a
    /\ Len(ids) = Len(frames)
    /\ \A j \in 1..Len(frames) :
           /\ ids[j] \in 1..Len(loc_table)
           /\ loc_table[ids[j]].address = AddressOf[frames[j]]

TablesSound == Sound(string_table.table, func_table.funcs, loc_table, report)

(* What holds until the first build, and of its profile until the next *)
ReportOK ==
    /\ builds \in {0, 1, 2}
    /\ builds = 0 => TableTypes /\ FramesOK /\ TablesSound
    /\ FirstProfileIsSound

(* An offset at which a string is read is an integer. *)
LEMMA ReadsInt == ASSUME NEW t, NEW o, NEW s, Reads(t, o, s) PROVE o \in Int
BY DEF Reads

(* StringTable::insert keeps the index right and every string where it is. *)
LEMMA InsertStringOK ==
    ASSUME NEW st, NEW s \in Texts, StringsOK(st)
    PROVE  LET new == InsertString(st, s)
           IN  /\ StringsOK(new)
               /\ s \in DOMAIN new.index
               /\ \A v \in DOMAIN st.index : v \in DOMAIN new.index
               /\ \A o, v : Reads(st.table, o, v) => Reads(new.table, o, v)
<1>1. CASE s \in DOMAIN st.index
  BY Zenon, <1>1 DEF InsertString
<1>2. CASE s \notin DOMAIN st.index
  <2> DEFINE new == InsertString(st, s)
  <2>1. /\ new.table = Append(st.table, s)
        /\ new.index = Put(st.index, s, Len(st.table))
    BY Zenon, <1>2 DEF InsertString
  <2>2. new.table \in Seq(Texts) /\ Len(new.table) = Len(st.table) + 1
    BY <2>1 DEF StringsOK
  <2>3. \A o, v : Reads(st.table, o, v) => Reads(new.table, o, v)
    BY <2>1 DEF StringsOK, Reads
  <2>4. /\ DOMAIN new.index = DOMAIN st.index \cup {s}
        /\ new.index[s] = Len(st.table)
        /\ \A v \in DOMAIN st.index : new.index[v] = st.index[v]
    BY Zenon, <1>2, <2>1 DEF Put
  <2>5. Reads(new.table, new.index[s], s)
    BY <2>1, <2>2, <2>4 DEF StringsOK, Reads
  <2> QED BY Zenon, <2>2, <2>3, <2>4, <2>5 DEF StringsOK
<1> QED BY Zenon, <1>1, <1>2

(* The same for two strings in a row, which can both be read back *)
LEMMA InsertTwoOK ==
    ASSUME NEW st, NEW s \in Texts, NEW v \in Texts, StringsOK(st)
    PROVE  LET new == InsertString(InsertString(st, s), v)
           IN  /\ StringsOK(new)
               /\ Reads(new.table, new.index[s], s)
               /\ Reads(new.table, new.index[v], v)
               /\ \A o, w : Reads(st.table, o, w) => Reads(new.table, o, w)
<1>1. LET one == InsertString(st, s)
      IN  /\ StringsOK(one)
          /\ s \in DOMAIN one.index
          /\ \A o, w : Reads(st.table, o, w) => Reads(one.table, o, w)
  BY Zenon, InsertStringOK
<1>2. LET one == InsertString(st, s)
          new == InsertString(one, v)
      IN  /\ StringsOK(new)
          /\ v \in DOMAIN new.index
          /\ s \in DOMAIN new.index
          /\ \A o, w : Reads(one.table, o, w) => Reads(new.table, o, w)
  BY Zenon, <1>1, InsertStringOK
<1> QED BY Zenon, <1>1, <1>2 DEF StringsOK

(* A sequence of one element *)
LEMMA SingletonIsSeq == ASSUME NEW S, NEW x \in S PROVE <<x>> \in Seq(S)
OBVIOUS

(* A new report is sound. *)
LEMMA ReportOKInit == ReportInit => ReportOK
<1> SUFFICES ASSUME ReportInit PROVE ReportOK
    BY Zenon
<1>1. DOMAIN string_table.index = {} /\ DOMAIN func_table.index = {}
  BY Zenon DEF ReportInit
<1>2. /\ func_table.funcs = <<>> /\ loc_table = <<>> /\ report = <<>>
      /\ frames = <<>> /\ ids = <<>>
  BY Zenon DEF ReportInit
<1>3. string_table.table \in Seq(Texts)
  <2>1. string_table.table = <<"">> /\ "" \in Texts
    BY Zenon DEF ReportInit, Texts
  <2> QED BY Zenon, <2>1, SingletonIsSeq
<1>4. TableTypes
  BY Zenon, <1>1, <1>2, <1>3, EmptyIs DEF TableTypes, StringsOK
<1>5. FramesOK /\ TablesSound
  BY <1>1, <1>2 DEF FramesOK, TablesSound, Sound
<1>6. builds = 0
  BY Zenon DEF ReportInit
<1> QED BY <1>4, <1>5, <1>6 DEF ReportOK, FirstProfileIsSound

(* Nothing is built: the first profile stays what it is. *)
LEMMA ProfileKept ==
    ASSUME ReportOK, UNCHANGED <<profile, builds>>,
           builds = 0 => (TableTypes /\ FramesOK /\ TablesSound)'
    PROVE  ReportOK'
BY Zenon DEF ReportOK, FirstProfileIsSound, Sound, Reads

(* Appending to a sequence *)
LEMMA Appended ==
    ASSUME NEW S, NEW s \in Seq(S), NEW e \in S
    PROVE  /\ Append(s, e) \in Seq(S)
           /\ Len(s) \in Nat
           /\ Len(Append(s, e)) = Len(s) + 1
           /\ Append(s, e)[Len(s) + 1] = e
           /\ \A j \in 1..Len(s) : Append(s, e)[j] = s[j]
OBVIOUS

(* A frame whose function is known refers to its location. *)
LEMMA KnownFrameOK ==
    ASSUME ReportOK, NEW y \in Symbols, KnownFrame(y)
    PROVE  ReportOK'
<1> SUFFICES ASSUME builds = 0 PROVE (TableTypes /\ FramesOK /\ TablesSound)'
    BY Zenon, ProfileKept DEF KnownFrame
<1> USE DEF KnownFrame, tables
<1>1. TableTypes /\ FramesOK /\ TablesSound
  BY Zenon DEF ReportOK
<1> DEFINE a == AddressOf[y]
<1>2. func_table.index[a] \in 1..Len(loc_table)
      /\ loc_table[func_table.index[a]].address = a
  BY Zenon, <1>1 DEF FramesOK
<1>3. func_table.index[a] \in Nat
  BY <1>2
<1>4. TableTypes'
  BY <1>1, <1>3 DEF TableTypes, StringsOK, Reads
<1>5. FramesOK'
  BY SMTT(30), <1>1, <1>2, <1>3, Appended DEF FramesOK, TableTypes
<1>6. TablesSound'
  BY Zenon, <1>1, ZenonT(30) DEF TablesSound, Sound, Reads
<1> QED BY Zenon, <1>4, <1>5, <1>6

(* A frame with a new function gets the next id in all three tables. *)
LEMMA NewFrameOK ==
    ASSUME ReportOK, NEW y \in Symbols, NewFrame(y)
    PROVE  ReportOK'
<1> SUFFICES ASSUME builds = 0 PROVE (TableTypes /\ FramesOK /\ TablesSound)'
    BY Zenon, ProfileKept DEF NewFrame
<1> DEFINE f == [id |-> FnId, system_name |-> FnStrings(y).index[NameOf[y]],
                 filename |-> FnStrings(y).index[FileOf[y]]]
           a == AddressOf[y]
           l == [id |-> FnId, function_id |-> FnId, address |-> a, symbol |-> y]
<1>1. TableTypes /\ FramesOK /\ TablesSound
  BY Zenon DEF ReportOK
<1>2. /\ string_table' = FnStrings(y)
      /\ func_table'.funcs = Append(func_table.funcs, f)
      /\ func_table'.index = Put(func_table.index, a, FnId)
      /\ loc_table' = Append(loc_table, l)
      /\ ids' = Append(ids, FnId)
      /\ frames' = Append(frames, y)
      /\ UNCHANGED report
  BY Zenon DEF NewFrame, FnPush
<1>3. FnId = Len(loc_table) + 1 /\ FnId = Len(func_table.funcs) + 1 /\ FnId \in Nat
  BY <1>1 DEF FnId, TableTypes, TablesSound, Sound
<1>4. /\ StringsOK(string_table')
      /\ Reads(string_table'.table, f.system_name, NameOf[y])
      /\ Reads(string_table'.table, f.filename, FileOf[y])
      /\ \A o, s : Reads(string_table.table, o, s) => Reads(string_table'.table, o, s)
  <2>1. NameOf[y] \in Texts /\ FileOf[y] \in Texts /\ StringsOK(string_table)
    BY Zenon, <1>1 DEF Texts, TableTypes
  <2> QED BY Zenon, <1>2, <2>1, InsertTwoOK DEF FnStrings
<1>5. f \in Functions /\ l \in Locations
  <2>1. f.system_name \in Int /\ f.filename \in Int
    BY Zenon, <1>4, ReadsInt
  <2>2. FnStrings(y).index[NameOf[y]] \in Int /\ FnStrings(y).index[FileOf[y]] \in Int
    BY Zenon, <2>1
  <2>3. f \in Functions
    BY Zenon, <1>3, <2>2 DEF Functions
  <2>4. l \in Locations
    BY Zenon, <1>3 DEF Locations
  <2> QED BY Zenon, <2>3, <2>4
<1> HIDE DEF f, l
<1>6. /\ func_table'.funcs \in Seq(Functions)
      /\ Len(func_table'.funcs) = FnId
      /\ func_table'.funcs[FnId] = f
      /\ \A i \in 1..Len(loc_table) : func_table'.funcs[i] = func_table.funcs[i]
  BY <1>1, <1>2, <1>3, <1>5, Appended DEF TableTypes
<1>7. /\ loc_table' \in Seq(Locations)
      /\ Len(loc_table') = FnId
      /\ loc_table'[FnId] = l
      /\ \A i \in 1..Len(loc_table) : loc_table'[i] = loc_table[i]
  BY <1>1, <1>2, <1>3, <1>5, Appended DEF TableTypes
<1>8. TableTypes'
  BY Zenon, <1>1, <1>2, <1>3, <1>4, <1>6, <1>7, Appended DEF TableTypes
<1>9. FramesOK'
  <2>1. /\ DOMAIN func_table'.index = DOMAIN func_table.index \cup {a}
        /\ func_table'.index[a] = FnId
        /\ \A b \in DOMAIN func_table.index : b # a
             => func_table'.index[b] = func_table.index[b]
    BY Zenon, <1>2 DEF Put
  <2>2. /\ Len(ids') = Len(ids) + 1 /\ ids'[Len(ids) + 1] = FnId
        /\ \A j \in 1..Len(ids) : ids'[j] = ids[j]
        /\ Len(frames') = Len(frames) + 1 /\ frames'[Len(frames) + 1] = y
        /\ \A j \in 1..Len(frames) : frames'[j] = frames[j]
        /\ Len(frames) \in Nat
    <3>1. ids \in Seq(Nat) /\ frames \in Seq(Symbols)
      BY Zenon, <1>1 DEF TableTypes
    <3>2. /\ Len(ids') = Len(ids) + 1 /\ ids'[Len(ids) + 1] = FnId
          /\ \A j \in 1..Len(ids) : ids'[j] = ids[j]
      BY <1>2, <1>3, <3>1
    <3>3. /\ Len(frames') = Len(frames) + 1 /\ frames'[Len(frames) + 1] = y
          /\ \A j \in 1..Len(frames) : frames'[j] = frames[j]
          /\ Len(frames) \in Nat
      BY <1>2, <3>1
    <3> QED BY Zenon, <3>2, <3>3
  <2>3. l.address = a
    BY Zenon DEF l
  <2>4. \A b \in DOMAIN func_table'.index :
            func_table'.index[b] \in 1..FnId /\ loc_table'[func_table'.index[b]].address = b
    <3> TAKE b \in DOMAIN func_table'.index
    <3>1. CASE b = a
      BY <1>3, <1>7, <2>1, <2>3, <3>1
    <3>2. CASE b # a
      <4>1. /\ b \in DOMAIN func_table.index
            /\ func_table'.index[b] = func_table.index[b]
        BY Zenon, <2>1, <3>2
      <4>2. /\ func_table.index[b] \in 1..Len(loc_table)
            /\ loc_table[func_table.index[b]].address = b
        BY Zenon, <1>1, <4>1 DEF FramesOK
      <4>3. Len(loc_table) \in Nat
        BY <1>3, <1>1 DEF TableTypes
      <4>4. func_table.index[b] \in 1..FnId
        BY <1>3, <4>2, <4>3
      <4> QED BY Zenon, <1>7, <4>1, <4>2, <4>4
    <3> QED BY Zenon, <3>1, <3>2
  <2>5. \A j \in 1..Len(frames') :
            ids'[j] \in 1..FnId /\ loc_table'[ids'[j]].address = AddressOf[frames'[j]]
    <3> TAKE j \in 1..Len(frames')
    <3>1. Len(ids) = Len(frames)
      BY Zenon, <1>1 DEF FramesOK
    <3>2. CASE j = Len(frames) + 1
      BY <1>3, <1>7, <2>2, <2>3, <3>1, <3>2
    <3>3. CASE j \in 1..Len(frames)
      <4>1. ids'[j] = ids[j] /\ frames'[j] = frames[j]
        BY Zenon, <2>2, <3>1, <3>3
      <4>2. ids[j] \in 1..Len(loc_table) /\ loc_table[ids[j]].address = AddressOf[frames[j]]
        BY Zenon, <1>1, <3>3 DEF FramesOK
      <4>3. Len(loc_table) \in Nat
        BY <1>1 DEF TableTypes
      <4>4. ids[j] \in 1..FnId
        BY <1>3, <4>2, <4>3
      <4> QED BY Zenon, <1>7, <4>1, <4>2, <4>4
    <3> QED BY <2>2, <3>2, <3>3
  <2> QED BY Zenon, <1>1, <1>7, <2>2, <2>4, <2>5 DEF FramesOK
<1>10. TablesSound'
  <2>1. /\ f.id = FnId /\ l.id = FnId /\ l.function_id = FnId
        /\ l.address = AddressOf[y] /\ l.symbol = y
    BY Zenon DEF f, l
  <2>2. \A i \in 1..FnId : i = FnId \/ i \in 1..Len(loc_table)
    BY <1>3
  <2>3. \A i \in 1..Len(loc_table') :
            /\ loc_table'[i].id = i
            /\ loc_table'[i].function_id = i
            /\ func_table'.funcs[i].id = i
            /\ loc_table'[i].symbol \in Symbols
            /\ loc_table'[i].address = AddressOf[loc_table'[i].symbol]
            /\ Reads(string_table'.table, func_table'.funcs[i].system_name,
                     NameOf[loc_table'[i].symbol])
            /\ Reads(string_table'.table, func_table'.funcs[i].filename,
                     FileOf[loc_table'[i].symbol])
    <3> TAKE i \in 1..Len(loc_table')
    <3>1. CASE i = FnId
      <4>1. loc_table'[i] = l /\ func_table'.funcs[i] = f
        BY Zenon, <1>6, <1>7, <3>1
      <4> QED BY Zenon, <1>4, <2>1, <3>1, <4>1
    <3>2. CASE i \in 1..Len(loc_table)
      <4>1. loc_table'[i] = loc_table[i] /\ func_table'.funcs[i] = func_table.funcs[i]
        BY Zenon, <1>6, <1>7, <3>2
      <4>2. /\ loc_table[i].id = i
            /\ loc_table[i].function_id = i
            /\ func_table.funcs[i].id = i
            /\ loc_table[i].symbol \in Symbols
            /\ loc_table[i].address = AddressOf[loc_table[i].symbol]
            /\ Reads(string_table.table, func_table.funcs[i].system_name,
                     NameOf[loc_table[i].symbol])
            /\ Reads(string_table.table, func_table.funcs[i].filename,
                     FileOf[loc_table[i].symbol])
        BY Zenon, <1>1, <3>2 DEF TablesSound, Sound
      <4> QED BY Zenon, <1>4, <4>1, <4>2
    <3> QED BY ZenonT(60), <1>7, <2>2, <3>1, <3>2
  <2>4. \A n \in 1..Len(report') :
            /\ Reads(string_table'.table, report'[n].key, report'[n].label[1])
            /\ Reads(string_table'.table, report'[n].str, report'[n].label[2])
            /\ Len(report'[n].location_id) = Len(report'[n].frames)
            /\ \A j \in 1..Len(report'[n].frames) :
                   /\ report'[n].location_id[j] \in 1..Len(loc_table')
                   /\ loc_table'[report'[n].location_id[j]].address = AddressOf[report'[n].frames[j]]
    <3> TAKE n \in 1..Len(report')
    <3>1. report' = report
      BY Zenon, <1>2
    <3>2. /\ Reads(string_table.table, report[n].key, report[n].label[1])
          /\ Reads(string_table.table, report[n].str, report[n].label[2])
          /\ Len(report[n].location_id) = Len(report[n].frames)
          /\ \A j \in 1..Len(report[n].frames) :
                 /\ report[n].location_id[j] \in 1..Len(loc_table)
                 /\ loc_table[report[n].location_id[j]].address = AddressOf[report[n].frames[j]]
      BY Zenon, <1>1, <3>1 DEF TablesSound, Sound
    <3>3. \A i \in 1..Len(loc_table) :
              i \in 1..Len(loc_table') /\ loc_table'[i] = loc_table[i]
      BY <1>3, <1>7
    <3>4. /\ Reads(string_table'.table, report[n].key, report[n].label[1])
          /\ Reads(string_table'.table, report[n].str, report[n].label[2])
      BY Zenon, <1>4, <3>2
    <3>5. \A j \in 1..Len(report[n].frames) :
              /\ report[n].location_id[j] \in 1..Len(loc_table')
              /\ loc_table'[report[n].location_id[j]].address = AddressOf[report[n].frames[j]]
      BY Zenon, <3>2, <3>3
    <3> QED BY ZenonT(60), <3>1, <3>2, <3>4, <3>5
  <2> QED BY Zenon, <1>6, <1>7, <2>3, <2>4 DEF TablesSound, Sound
<1> QED BY Zenon, <1>8, <1>9, <1>10

(* The sample at the end of report_block_info or report_cpu_sample is sound. *)
LEMMA AddSampleOK ==
    ASSUME ReportOK, NEW key \in Texts, NEW value \in Texts, AddSample(key, value)
    PROVE  ReportOK'
<1> SUFFICES ASSUME builds = 0 PROVE (TableTypes /\ FramesOK /\ TablesSound)'
    BY Zenon, ProfileKept DEF AddSample
<1> DEFINE st == InsertString(InsertString(string_table, key), value)
           s == [location_id |-> ids, key |-> st.index[key], str |-> st.index[value],
                 frames |-> frames, label |-> <<key, value>>]
<1>1. TableTypes /\ FramesOK /\ TablesSound
  BY Zenon DEF ReportOK
<1>2. /\ string_table' = st
      /\ report' = Append(report, s)
      /\ ids' = <<>>
      /\ frames' = <<>>
      /\ UNCHANGED <<func_table, loc_table>>
  BY Zenon DEF AddSample
<1>3. /\ StringsOK(st)
      /\ Reads(st.table, st.index[key], key)
      /\ Reads(st.table, st.index[value], value)
      /\ \A o, v : Reads(string_table.table, o, v) => Reads(st.table, o, v)
  BY Zenon, <1>1, InsertTwoOK DEF TableTypes
<1>4. s \in Samples
  <2>1. st.index[key] \in Int /\ st.index[value] \in Int
    BY Zenon, <1>3, ReadsInt
  <2>2. ids \in Seq(Nat) /\ frames \in Seq(Symbols)
    BY Zenon, <1>1 DEF TableTypes
  <2> HIDE DEF st
  <2>3. <<key, value>> \in Texts \X Texts
    BY Zenon
  <2> QED BY Zenon, <2>1, <2>2, <2>3 DEF Samples
<1>5. /\ s.location_id = ids /\ s.frames = frames
      /\ Reads(st.table, s.key, s.label[1]) /\ Reads(st.table, s.str, s.label[2])
  BY Zenon, <1>3
<1> HIDE DEF s, st
<1>6. /\ report' \in Seq(Samples)
      /\ Len(report) \in Nat
      /\ Len(report') = Len(report) + 1
      /\ report'[Len(report) + 1] = s
      /\ \A n \in 1..Len(report) : report'[n] = report[n]
  <2>1. report \in Seq(Samples)
    BY Zenon, <1>1 DEF TableTypes
  <2> HIDE DEF Samples
  <2> QED BY <1>2, <1>4, <2>1
<1>7. TableTypes'
  BY ZenonT(60), <1>1, <1>2, <1>3, <1>6, EmptyIs DEF TableTypes
<1>8. FramesOK'
  BY SMTT(30), <1>1, <1>2 DEF FramesOK
<1>9. TablesSound'
  <2>1. \A i \in 1..Len(loc_table) :
            /\ loc_table[i].id = i
            /\ loc_table[i].function_id = i
            /\ func_table.funcs[i].id = i
            /\ loc_table[i].symbol \in Symbols
            /\ loc_table[i].address = AddressOf[loc_table[i].symbol]
            /\ Reads(st.table, func_table.funcs[i].system_name, NameOf[loc_table[i].symbol])
            /\ Reads(st.table, func_table.funcs[i].filename, FileOf[loc_table[i].symbol])
    BY ZenonT(60), <1>1, <1>3 DEF TablesSound, Sound
  <2> DEFINE OK(x) == /\ Reads(st.table, x.key, x.label[1])
                      /\ Reads(st.table, x.str, x.label[2])
                      /\ Len(x.location_id) = Len(x.frames)
                      /\ \A j \in 1..Len(x.frames) :
                             /\ x.location_id[j] \in 1..Len(loc_table)
                             /\ loc_table[x.location_id[j]].address = AddressOf[x.frames[j]]
  <2>2. OK(s)
    BY ZenonT(60), <1>1, <1>5 DEF FramesOK
  <2>3. \A n \in 1..Len(report) : OK(report[n])
    BY SMTT(30), <1>1, <1>3 DEF TablesSound, Sound
  <2>4. \A n \in 1..Len(report') : OK(report'[n])
    <3> HIDE DEF OK
    <3> QED BY <1>6, <2>2, <2>3
  <2>5. Len(func_table.funcs) = Len(loc_table)
    BY Zenon, <1>1 DEF TablesSound, Sound
  <2> QED BY SMTT(30), <1>2, <2>1, <2>4, <2>5 DEF TablesSound, Sound
<1> QED BY Zenon, <1>7, <1>8, <1>9

(* build hands out sound tables the first time. *)
LEMMA BuildOK ==
    ASSUME ReportOK, NEW type \in Texts, NEW unit \in Texts, Build(type, unit)
    PROVE  ReportOK'
<1> DEFINE st == InsertString(InsertString(string_table, type), unit)
<1>1. /\ builds' = IF builds = 0 THEN 1 ELSE 2
      /\ profile'.string_table = st.table
      /\ profile'.function = func_table.funcs
      /\ profile'.location = loc_table
      /\ profile'.sample = report
  BY Zenon DEF Build
<1>2. builds' \in {1, 2}
  BY Zenon, <1>1
<1>3. CASE builds = 0
  <2>1. TableTypes /\ TablesSound
    BY Zenon, <1>3 DEF ReportOK
  <2>2. \A o, s : Reads(string_table.table, o, s) => Reads(st.table, o, s)
    BY ZenonT(60), <2>1, InsertTwoOK DEF TableTypes
  <2> HIDE DEF st
  <2>3. Sound(st.table, func_table.funcs, loc_table, report)
    BY <2>1, <2>2 DEF TablesSound, Sound
  <2>4. FirstProfileIsSound'
    BY Zenon, <1>1, <2>3 DEF FirstProfileIsSound
  <2> QED BY <1>2, <2>4 DEF ReportOK
<1>4. CASE builds # 0
  <2>1. builds' = 2
    BY Zenon, <1>1, <1>4
  <2> QED BY <2>1 DEF ReportOK, FirstProfileIsSound
<1> QED BY Zenon, <1>3, <1>4

(* Whatever is reported, until the first build and after it *)
LEMMA ReportInvariance == ReportSpec => []ReportOK
<1>1. ReportInit => ReportOK
  BY Zenon, ReportOKInit
<1>2. ReportOK /\ [ReportNext]_reportVars => ReportOK'
  <2> SUFFICES ASSUME ReportOK, [ReportNext]_reportVars PROVE ReportOK'
      BY Zenon
  <2>1. ASSUME NEW y \in Symbols, KnownFrame(y) \/ NewFrame(y) PROVE ReportOK'
    BY Zenon, <2>1, KnownFrameOK, NewFrameOK
  <2>2. ASSUME NEW s \in Strings, report_block_info(s) \/ report_cpu_sample(s)
        PROVE  ReportOK'
    <3>1. s \in Texts /\ "block" \in Texts /\ "cpu_times" \in Texts
      BY Zenon DEF Texts
    <3> QED BY Zenon, <2>2, <3>1, AddSampleOK DEF report_block_info, report_cpu_sample
  <2>3. ASSUME BuildHeap \/ BuildCpu PROVE ReportOK'
    <3>1. "space" \in Texts /\ "bytes" \in Texts /\ "cpu" \in Texts
          /\ "nanoseconds" \in Texts
      BY Zenon DEF Texts
    <3> QED BY Zenon, <2>3, <3>1, BuildOK DEF BuildHeap, BuildCpu
  <2>4. ASSUME UNCHANGED reportVars PROVE ReportOK'
    BY <2>4, ZenonT(30)
       DEF reportVars, tables, ReportOK, TableTypes, StringsOK, FramesOK, TablesSound,
                Sound, Reads, FirstProfileIsSound
  <2> QED BY Zenon, <2>1, <2>2, <2>3, <2>4 DEF ReportNext
<1> QED BY <1>1, <1>2, PTL DEF ReportSpec

(* For any symbols and labels: in the profile of the first build every id and every
   offset names an entry, and a frame's location has the frame's address. *)
THEOREM ReportFirstProfileIsSound == ReportSpec => []FirstProfileIsSound
<1>1. ReportOK => FirstProfileIsSound
  BY Zenon DEF ReportOK
<1> QED BY <1>1, ReportInvariance, PTL

(* For any symbols and labels: in the profile of the first build a frame has the
   name and the file of its symbol, unless another symbol has its address. *)
THEOREM ReportFirstProfileNamesFrames == ReportSpec => []FirstProfileNamesFrames
<1>1. FirstProfileIsSound => FirstProfileNamesFrames
  <2> SUFFICES ASSUME FirstProfileIsSound, builds = 1, NEW n \in 1..Len(profile.sample),
                      NEW j \in 1..Len(profile.sample[n].frames),
                      OwnAddress(profile.sample[n].frames[j])
               PROVE  LET y == profile.sample[n].frames[j]
                          f == profile.function[profile.sample[n].location_id[j]]
                      IN  /\ Reads(profile.string_table, f.system_name, NameOf[y])
                          /\ Reads(profile.string_table, f.filename, FileOf[y])
    BY Zenon DEF FirstProfileNamesFrames
  <2> DEFINE y == profile.sample[n].frames[j]
             i == profile.sample[n].location_id[j]
             l == profile.location[i]
             f == profile.function[i]
  <2>1. i \in 1..Len(profile.location) /\ l.address = AddressOf[y]
    BY Zenon DEF FirstProfileIsSound, Sound
  <2>2. /\ l.symbol \in Symbols /\ l.address = AddressOf[l.symbol]
        /\ Reads(profile.string_table, f.system_name, NameOf[l.symbol])
        /\ Reads(profile.string_table, f.filename, FileOf[l.symbol])
    BY Zenon, <2>1 DEF FirstProfileIsSound, Sound
  <2>3. NameOf[l.symbol] = NameOf[y] /\ FileOf[l.symbol] = FileOf[y]
    BY Zenon, <2>1, <2>2 DEF OwnAddress
  <2> QED BY Zenon, <2>2, <2>3
<1> QED BY <1>1, ReportFirstProfileIsSound, PTL

=============================================================================
