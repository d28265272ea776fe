------------------------------ MODULE Profiler ------------------------------
(***************************************************************************)
(* hala-pprof: the heap profiler (profiler/heap.rs), an allocator that     *)
(* registers every block in a map and counts blocks and bytes beside it,   *)
(* and the cpu profiler (profiler/cpu.rs), which collects samples.  Both   *)
(* take backtraces and resolve symbols (profiler/frames.rs).  They share   *)
(* the locks of c/mod.rs, and both allocate: a call of the profiler comes  *)
(* back into the allocator while it holds a lock.                          *)
(*                                                                         *)
(* A thread has two positions: `call`, in a call of cpu.rs or in the       *)
(* report of heap.rs, and `pc`, in an alloc or a dealloc, which may be     *)
(* nested in that call.  The allocations that alloc and dealloc make       *)
(* themselves are not registered, and are seen as the locks they need.     *)
(***************************************************************************)
EXTENDS Integers, FiniteSets

CONSTANTS Threads,
          Pointers,  \* the addresses of blocks
          Null,      \* what System.alloc returns when it fails
          Sizes      \* the sizes of layouts

VARIABLES started,     \* GLOBAL_HEAP_PROFILER is set
          live,        \* external: the allocated blocks, with their sizes
          blocks,      \* HeapProfiler: the registered blocks, with their sizes
          counter,     \* HeapProfiler::counter
          memory_size, \* HeapProfiler::memory_size
          pc,          \* the next step of a thread's alloc or dealloc
          arg,         \* its pointer and layout
          seen,        \* history: blocks whose alloc was registered
          failed,      \* history: System.alloc has failed
          flag,        \* CpuProfiler::flag
          samples,     \* CpuProfiler: how many samples there are
          call         \* the next step of a thread's call of the profiler

stats == <<counter, memory_size>>
heap == <<started, live, blocks, stats, pc, arg, seen, failed>>
cpu == <<flag, samples, call>>
vars == <<heap, cpu>>

-----------------------------------------------------------------------------
(* The locks: the spin lock of the samples, and two recursive mutexes.  A
   thread holds one between the steps that lock and unlock it. *)

Locks == {"samples", "backtrace", "map"}

Holds(t, l) ==
    \/ l = "samples" /\ call[t] \in {"pushing", "draining"}
    \/ l = "backtrace" /\ (\/ pc[t] = "tracing"
                           \/ call[t] \in {"sampling", "resolving", "heap_resolving"})
    \/ l = "map" /\ (pc[t] = "inserting" \/ call[t] = "snapshotting")

MayLock(t, l) == \A u \in Threads \ {t} : ~Holds(u, l)

(* The heap profiler's report, within one Reentrancy guard *)
HeapReport == {"snapshotting", "heap_report", "heap_resolving"}

(* Reentrancy::is_ok, for the value the thread's counter gets in register *)
IsOk(t) == call[t] \notin HeapReport

(* Where a call of the profiler allocates and frees memory: collecting
   frames, samples, blocks and symbols, and in the caller's report. *)
Allocates == {"idle", "sampling", "pushing", "draining", "report", "resolving"}
             \cup HeapReport

NoArg == [ptr |-> Null, size |-> 0]
With(f, p, s) == [q \in DOMAIN f \cup {p} |-> IF q = p THEN s ELSE f[q]]
Without(f, p) == [q \in DOMAIN f \ {p} |-> f[q]]

Init ==
    /\ started = FALSE
    /\ live = [p \in {} |-> 0]
    /\ blocks = [p \in {} |-> 0]
    /\ counter = 0
    /\ memory_size = 0
    /\ pc = [t \in Threads |-> "idle"]
    /\ arg = [t \in Threads |-> NoArg]
    /\ seen = {}
    /\ failed = FALSE
    /\ flag = FALSE
    /\ samples = 0
    /\ call = [t \in Threads |-> "idle"]

Goto(t, from, to) ==
    /\ pc[t] = from
    /\ pc' = [pc EXCEPT ![t] = to]

CallGoto(t, from, to) ==
    /\ pc[t] = "idle"
    /\ call[t] = from
    /\ call' = [call EXCEPT ![t] = to]

(* A second call panics. *)
heap_profiler_start ==
    /\ ~started
    /\ started' = TRUE
    /\ UNCHANGED <<live, blocks, stats, pc, arg, seen, failed, cpu>>

-----------------------------------------------------------------------------
(* alloc and register *)

(* The addresses System.alloc does not return: those of live blocks, and of
   blocks being allocated or not yet freed. *)
Taken == DOMAIN live \cup {arg[t].ptr : t \in {u \in Threads : pc[u] # "idle"}}

SystemAlloc(t, p, s) ==
    /\ p \notin Taken \/ p = Null
    /\ call[t] \in Allocates
    /\ Goto(t, "idle", "allocated")
    /\ arg' = [arg EXCEPT ![t] = [ptr |-> p, size |-> s]]
    /\ failed' = (failed \/ p = Null)
    /\ UNCHANGED <<started, live, blocks, stats, seen, cpu>>

(* The block is the caller's. *)
Return(t) ==
    /\ live' = IF arg[t].ptr = Null THEN live ELSE With(live, arg[t].ptr, arg[t].size)
    /\ arg' = [arg EXCEPT ![t] = NoArg]

(* No profiler, or one that this thread is in: ptr is returned. *)
AllocReturns(t) ==
    /\ ~started \/ ~IsOk(t)
    /\ Goto(t, "allocated", "idle")
    /\ Return(t)
    /\ UNCHANGED <<started, blocks, stats, seen, failed, cpu>>

Register(t) ==
    /\ started
    /\ IsOk(t)
    /\ Goto(t, "allocated", "trace")
    /\ seen' = seen \cup {arg[t].ptr}
    /\ UNCHANGED <<started, live, blocks, stats, arg, failed, cpu>>

(* get_backtrace *)
Backtrace(t) ==
    /\ MayLock(t, "backtrace")
    /\ Goto(t, "trace", "tracing")
    /\ UNCHANGED <<started, live, blocks, stats, arg, seen, failed, cpu>>

(* The end of get_backtrace: its vector has grown, which freed memory, and a
   nested unregister has locked the map. *)
BacktraceEnds(t) ==
    /\ MayLock(t, "map")
    /\ Goto(t, "tracing", "insert")
    /\ UNCHANGED <<started, live, blocks, stats, arg, seen, failed, cpu>>

(* blocks.lock() *)
LockBlocks(t) ==
    /\ MayLock(t, "map")
    /\ Goto(t, "insert", "inserting")
    /\ UNCHANGED <<started, live, blocks, stats, arg, seen, failed, cpu>>

(* insert, which may have to grow the map *)
Insert(t) ==
    /\ Goto(t, "inserting", "count")
    /\ blocks' = With(blocks, arg[t].ptr, arg[t].size)
    /\ UNCHANGED <<started, live, stats, arg, seen, failed, cpu>>

AddCounter(t) ==
    /\ Goto(t, "count", "add_size")
    /\ counter' = counter + 1
    /\ UNCHANGED <<started, live, blocks, memory_size, arg, seen, failed, cpu>>

AddSize(t) ==
    /\ Goto(t, "add_size", "idle")
    /\ memory_size' = memory_size + arg[t].size
    /\ Return(t)
    /\ UNCHANGED <<started, blocks, counter, seen, failed, cpu>>

-----------------------------------------------------------------------------
(* dealloc and unregister, by the one thread that owns the block *)

Dealloc(t, p) ==
    /\ p \in DOMAIN live
    /\ call[t] \in Allocates
    /\ Goto(t, "idle", IF started THEN "unregister" ELSE "free")
    /\ live' = Without(live, p)
    /\ arg' = [arg EXCEPT ![t] = [ptr |-> p, size |-> live[p]]]
    /\ UNCHANGED <<started, blocks, stats, seen, failed, cpu>>

(* remove; the frames of the block are freed before the guard is dropped, by
   a nested unregister that locks the map again. *)
Remove(t) ==
    /\ MayLock(t, "map")
    /\ Goto(t, "unregister", IF arg[t].ptr \in DOMAIN blocks THEN "uncount" ELSE "free")
    /\ blocks' = Without(blocks, arg[t].ptr)
    /\ UNCHANGED <<started, live, stats, arg, seen, failed, cpu>>

SubCounter(t) ==
    /\ Goto(t, "uncount", "sub_size")
    /\ counter' = counter - 1
    /\ UNCHANGED <<started, live, blocks, memory_size, arg, seen, failed, cpu>>

SubSize(t) ==
    /\ Goto(t, "sub_size", "free")
    /\ memory_size' = memory_size - arg[t].size
    /\ UNCHANGED <<started, live, blocks, counter, arg, seen, failed, cpu>>

SystemDealloc(t) ==
    /\ Goto(t, "free", "idle")
    /\ seen' = seen \ {arg[t].ptr}
    /\ arg' = [arg EXCEPT ![t] = NoArg]
    /\ UNCHANGED <<started, live, blocks, stats, failed, cpu>>

-----------------------------------------------------------------------------
(* HeapProfiler::report *)

Snapshot(t) ==
    /\ started
    /\ MayLock(t, "map")
    /\ CallGoto(t, "idle", "snapshotting")
    /\ UNCHANGED <<heap, flag, samples>>

SnapshotEnds(t) ==
    /\ CallGoto(t, "snapshotting", "heap_report")
    /\ UNCHANGED <<heap, flag, samples>>

(* frames_to_symbols of the next block, or of the next sample of the cpu
   profiler's report *)
Resolve(t, report, resolving) ==
    /\ MayLock(t, "backtrace")
    /\ CallGoto(t, report, resolving)
    /\ UNCHANGED <<heap, flag, samples>>

(* Its end, and the call of the caller's report *)
ResolveEnds(t, report, resolving) ==
    /\ CallGoto(t, resolving, report)
    /\ UNCHANGED <<heap, flag, samples>>

(* All are reported, or the report has asked to stop. *)
ReportEnds(t, report) ==
    /\ CallGoto(t, report, "idle")
    /\ UNCHANGED <<heap, flag, samples>>

-----------------------------------------------------------------------------
(* CpuProfiler: start, sample and report *)

(* A second start without a stop panics. *)
Start ==
    /\ ~flag
    /\ flag' = TRUE
    /\ UNCHANGED <<heap, samples, call>>

(* The profiler is on. *)
Sample(t) ==
    /\ flag
    /\ CallGoto(t, "idle", "sample")
    /\ UNCHANGED <<heap, flag, samples>>

(* get_backtrace *)
SampleTrace(t) ==
    /\ MayLock(t, "backtrace")
    /\ CallGoto(t, "sample", "sampling")
    /\ UNCHANGED <<heap, flag, samples>>

SampleTraceEnds(t) ==
    /\ CallGoto(t, "sampling", "push")
    /\ UNCHANGED <<heap, flag, samples>>

(* samples.lock().push(sample), which may grow the vector *)
PushLock(t) ==
    /\ MayLock(t, "samples")
    /\ CallGoto(t, "push", "pushing")
    /\ UNCHANGED <<heap, flag, samples>>

Push(t) ==
    /\ CallGoto(t, "pushing", "idle")
    /\ samples' = samples + 1
    /\ UNCHANGED <<heap, flag>>

(* A stop without a start panics. *)
Stop(t) ==
    /\ flag
    /\ flag' = FALSE
    /\ CallGoto(t, "idle", "drain")
    /\ UNCHANGED <<heap, samples>>

(* samples.lock().drain(..).collect() *)
DrainLock(t) ==
    /\ MayLock(t, "samples")
    /\ CallGoto(t, "drain", "draining")
    /\ UNCHANGED <<heap, flag, samples>>

Drain(t) ==
    /\ CallGoto(t, "draining", "report")
    /\ samples' = 0
    /\ UNCHANGED <<heap, flag>>

-----------------------------------------------------------------------------
Alloc(t) ==
    \/ \E p \in Pointers \cup {Null}, s \in Sizes : SystemAlloc(t, p, s)
    \/ AllocReturns(t) \/ Register(t) \/ Backtrace(t) \/ BacktraceEnds(t)
    \/ LockBlocks(t) \/ Insert(t) \/ AddCounter(t) \/ AddSize(t)

Free(t) ==
    \/ \E p \in Pointers : Dealloc(t, p)
    \/ Remove(t) \/ SubCounter(t) \/ SubSize(t) \/ SystemDealloc(t)

Call(t) ==
    \/ Snapshot(t) \/ SnapshotEnds(t)
    \/ Resolve(t, "heap_report", "heap_resolving")
    \/ ResolveEnds(t, "heap_report", "heap_resolving")
    \/ ReportEnds(t, "heap_report")
    \/ Sample(t) \/ SampleTrace(t) \/ SampleTraceEnds(t) \/ PushLock(t) \/ Push(t)
    \/ Stop(t) \/ DrainLock(t) \/ Drain(t)
    \/ Resolve(t, "report", "resolving") \/ ResolveEnds(t, "report", "resolving")
    \/ ReportEnds(t, "report")

Next ==
    \/ heap_profiler_start
    \/ Start
    \/ \E t \in Threads : Alloc(t) \/ Free(t) \/ Call(t)

Spec == Init /\ [][Next]_vars

-----------------------------------------------------------------------------
(* The blocks the counter stands for: the registered ones whose fetch_add is
   done, and those that are removed and whose fetch_sub is not. *)
Counted ==
    {p \in DOMAIN blocks : \A t \in Threads : pc[t] = "count" => arg[t].ptr # p}
    \cup {arg[t].ptr : t \in {u \in Threads : pc[u] = "uncount"}}

(* The statistics follow the map: unless an allocation has failed, the counter
   is the number of registered blocks, but for the calls between insert or
   remove and their fetch_add or fetch_sub.  So it is exact at rest, and
   fetch_sub never takes it below zero. *)
StatsFollowMap ==
    ~failed => /\ IsFiniteSet(Counted)
               /\ counter = Cardinality(Counted)

(* The map is the heap: every block registered and not yet freed is in it with
   its size, and nothing else is but blocks still in the hands of alloc or
   dealloc.  That dealloc unregisters a block before it frees it ensures that
   no entry outlives its block, or takes the place of another block's. *)
MapIsLive ==
    /\ \A p \in seen \cap DOMAIN live : p \in DOMAIN blocks /\ blocks[p] = live[p]
    /\ \A p \in DOMAIN blocks :
           \/ p \in DOMAIN live
           \/ p = Null
           \/ \E t \in Threads : pc[t] \in {"count", "add_size", "unregister"} /\ arg[t].ptr = p

(* The locks the next step of a thread needs *)
Needs(t) ==
    CASE pc[t] = "trace" -> {"backtrace"}
      [] pc[t] \in {"tracing", "insert", "unregister"} -> {"map"}
      [] pc[t] = "idle" /\ call[t] \in {"sample", "report", "heap_report"} -> {"backtrace"}
      [] pc[t] = "idle" /\ call[t] \in {"push", "drain"} -> {"samples"}
      [] OTHER -> {}

Busy(t) == pc[t] # "idle" \/ call[t] # "idle"
Blocked(t) == \E l \in Needs(t) : ~MayLock(t, l)

(* No deadlock: of the threads inside the allocator or the profiler, however
   their calls are nested, one can always go on.  The order of the locks
   (samples, backtrace, map) ensures it, and so does the reentrancy guard:
   it keeps a thread that holds the map from taking a backtrace. *)
SomeoneRuns ==
    (\E t \in Threads : Busy(t)) => \E t \in Threads : Busy(t) /\ ~Blocked(t)
=============================================================================
