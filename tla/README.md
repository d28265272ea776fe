# A TLA+ verification of hala-rs

hala-rs is a Rust workspace of asynchronous networking crates. Its hard parts are concurrent:
lock-free structures, wakers that must not be lost, edge-triggered readiness, timers, and QUIC
state machines driven by several tasks. This directory models those parts in TLA+, checks them on
small instances with TLC, and proves the most important properties for every instance with TLAPS.

All paths below are relative to `src/crates/`. `PROJECT.json` has, for every definition, the lines
it models (`map`), and for every hazard of the code the properties that would catch it (`hazards`).

## 1. The system and its parts

| Part | State | Operations | What makes it hard |
|---|---|---|---|
| `lockfree/src/queue.rs` Queue | `head`, `tail`, map of slots | push, pop, len | an offset is reserved before its value is stored, and claimed before it is read |
| `lockfree/src/timewheel.rs` HashedTimeWheel | ticks, slots | new_timer, next_tick | a late new_timer races the tick that drains its slot |
| `sync/src/spin.rs` SpinMutex | flag, guard address | lock, try_lock, drop | two words for one lock, each update checked by a panic |
| `sync/src/maker.rs` async mutex | inner lock, map of wakers and its lock | lock, poll, cancel, drop | lock freed between the failed try and the registration |
| `future/src/event_map.rs` EventMap | one waker per event | wait, notify_one, notify_all, notify_any, cancel | event between the test of the state and the wait |
| `future/src/batching.rs` FutureBatcher | pending futures, queue of woken ids, host waker | push, wait, close, wakers | wake-ups that come before the future is back in the map |
| `io/src/mio/*`, `io/src/context.rs` | registry, read and write wakers | open, register, nonblocking_call, shutdown, poll_once, close | edge-triggered events, each reported once |
| `io/src/timeout.rs`, `sleep.rs`, `mio/timer.rs` | timer, waker, tick | timeout, Sleep::poll, drop | expiry between the test and the insertion of the waker; rounding to ticks |
| `net/udp/src/group.rs` UdpGroup | a shared pointer to the caller's buffer | recv_from, send_to | a caller that gives up leaves its pointer behind |
| `net/quic/src/conn.rs`, `state/connector.rs` | quiche, addresses left | connect, client receive loop | timeouts that drop recv_from half way |
| `net/quic/src/state/conn.rs` QuicConnState | streams, half-closed streams, waiters | read, write, stream_send, stream_recv, stream_shutdown, accept, open, close | each packet hands on one event; close notifies nobody |
| `net/quic/src/state/listener.rs`, `listener.rs` | handshakes, connections, incoming queue | write, read, accept, close | close between the steps that publish a connection |
| `net/http/src/parse.rs`, `body.rs` | buffer, state of the parser | parse, into_bytes | reads end anywhere |
| `leveldb/src/lib.rs` | external database, cursor, snapshot | put, get, delete, write, iter, snapshot | delete is two calls; the cursor's invalid state has two meanings |
| `net/tcp`, `net/udp/src/udp.rs` | one descriptor | thin wrappers of the io operations | as io |
| `net/quic/src/conn_pool.rs` QuicConnPool | connections, behind the async mutex | open_stream | what was seen of a connection is stale at the next await; calls are dropped half way |
| `rproxy/src` Rproxy, Session, listeners | channel, sessions, counters | accept, poll, closed_with | a channel that unparks the oldest sender, whoever's item was taken; close before, during and after the poll |
| `pprof/src/profiler` heap and cpu profilers | map of blocks, counters, samples, three recursive locks | alloc, dealloc, sample, report | the profiler allocates while it holds its locks |
| `pprof/src/profiler/report.rs` | tables of a profile | frames, samples, build | tables that refer to each other by id and by offset |
| `net/tls`, `future/src/executor.rs` | none of their own | see section 9 | |

How they interact. Queue is FutureBatcher's queue of woken ids. A Lockable (SpinMutex or
parking_lot's) is what the async mutex is made of, and the async mutex guards QuicConnState, whose
operations wait in an EventMap. The FutureBatcher drives UdpGroup's sockets and the listener's
connections. Poller wakes the tasks of every socket and of every timer, and finds the timers in the
time wheel. connect races UdpGroup's recv_from against timeout. The pool opens its streams on
QuicConnStates while it holds an async mutex, and rproxy awaits streams of any kind. The two
profilers share their locks, and each calls the allocator that the other one hooks.

## 2. Modules

A component that uses another takes it at the promise which the other's module checks.

| Module | Models | How state and actions correspond to the code |
|---|---|---|
| `Queue` | Queue | `head`, `tail`, `slots` as in the code; one action per atomic access or map operation |
| `Fifo` | what Queue promises | a sequence; push and pop take effect at one instant between call and return |
| `TimeWheel` | HashedTimeWheel | `ticks`, `timers`, `timer_count`; one action per access of new_timer and next_tick, by any number of threads |
| `SpinMutex` | SpinMutex | `flag`, `guard`; one action per atomic access; a failed check leads to `panic` |
| `Mutex` | what the Lockable trait promises, and AsyncLockable (`AsyncSpec`) | an owner, the waiting, the refused; a future that waits may be dropped |
| `AsyncMutex` | AsyncLockableMaker | owners of the two inner locks, count of wakers per task, steps of poll and drop |
| `EventMap` | EventMap and the protocol of its clients | one flag per event stands for the shared state; steps of wait, its polls, notifiers |
| `FutureBatcher` | FutureBatcher | `pending`, `queue`, `host`, `counter`, `closed`; one agent per push, waker call and close |
| `Poller` | sockets over mio | life of a handle, wakers per direction, steps of nonblocking_call and of poll_once |
| `Timeout` | timeout, Sleep, MioTimer, composed with TimeWheel | EXTENDS TimeWheel: a new_timer call is that module's steps, poll_once its tickers; a clock finer than the wheel's tick |
| `UdpGroup` | UdpGroup | `buf` is batching_read_buf, `heap` the boxes; steps of recv_from and of the read futures |
| `QuicConnect` | connect and the client's receive loop, composed with UdpGroup | EXTENDS UdpGroup: recv_from is that module's steps, TimedOut its GiveUp; quiche's timer expires at any time |
| `QuicConn` | QuicConnState | an action is a stretch under the state's lock, up to a return or a wait |
| `ConnPool` | QuicConnPool, composed with AsyncMutex | EXTENDS AsyncMutex: the owner of the mutex takes the steps of open_stream between its awaits, and may be dropped at each; `streams` is what became of each stream of a connection, in the order of the ids by which quiche counts |
| `QuicListener` | listener state machine and loops | steps of write, read, accept and close between the locks they take |
| `HttpParse` | request and response parser, body reader | bytes are symbols, one action per parse step and per read |
| `LevelDb` | Database, WriteBatch, Snapshot, KeyValueIterator | the C library is a map; delete is two actions, each of which may fail |
| `Profiler` | heap and cpu profilers | position in a profiler call and in a nested alloc or dealloc per thread; the three locks |
| `GperfReport` | both reports | the tables as sequences with their indexes, functions by the address of their symbol, one action per frame, sample and build |
| `Rproxy` | accept loop, sessions, the three listeners | `task` is the step of each stream's task; poll and closed_with are one action each, as they hold the lock |
| `*Proofs` | theorems of section 6 | SyncProofs: Queue, SpinMutex, AsyncMutex, ConnPool. FutureProofs: EventMap, FutureBatcher. NetProofs: Poller, Rproxy. TimeoutProofs: TimeWheel, Timeout. QuicProofs: UdpGroup, QuicConnect, QuicListener. QuicConnProofs: QuicConn. ProfilerProofs: Profiler, GperfReport. DataProofs: LevelDb, HttpParse |
| `MC*` | instances for TLC | only constants, and specifications that section 7 uses |

External, and modelled from how the code uses it: the kernel and mio, quiche, the LevelDB library,
the `http` and `bytes` crates, the channel of `futures`, the system allocator, the network, the clock,
the executor. Definitions named `...Not`,
`...Keep` and so on, commented "Mutant:", are wrong variants of the definition after them; they
show that a property can fail, and no specification uses them.

## 3. Runs

`tlc -config <cfg> <module>` in this directory. Distinct states are those of the full space.

| Run | cfg | States | What it shows |
|---|---|---|---|
| queue | MCQueue | 114,776 | `NoValueLost`: a reserved offset is with its push, in the map, or delivered. `RefinesFifo`: the queue implements Fifo, so it is linearizable. `EveryCallReturns` |
| connpool | MCConnPool | 160,996 | `NoLostWakeup`: a free mutex with a sleeper has a drop on its way to wake it. `StreamCanSend`: the id of a stream handed out is within the peer's limit, but for the lower ids of streams that were closed before they were sent on. `OpenIsPooled`: no open connection drops out of the pool. `PendingIsPolled` |
| eventmap | MCEventMap | 556,684 | `NoLostEvent`, `OneReason`: a wait gets one reason and keeps it. `EventReachesWait` |
| batcher | MCFutureBatcher | 555,477 | `NoLostWake`, `NoFutureForgotten`, `ResultOnce`, `EveryFutureReady`, `CloseIsSeen` |
| poller | MCPoller | 421,750 | `NoLostReadiness`: a sleeper on a ready socket has an event that will wake it. `ClosedHasNoReader`, `ReadyIsPolled` |
| timeout | MCTimeout | 772,322 | `NoStrandedTimer`: a timer in the map for which new_timer returned Some will be found by a next_tick. `GoneIsExpired`: no timer leaves the wheel before is_expired holds. `NoLostExpiry`, `TimeoutReturns`, both under `Prompt` and unless a late timer has emptied the slot |
| quicconnect | MCQuicConnect | 112,114 | `NoStaleBuffer`, `NoLeak`: dropped calls leave nothing that is written or freed later. `EverySocketIsRead`. `ConnectEnds`: connect returns, unless quiche's timer had expired when connect_with asked for the time left and nothing moves it since |
| quicconn_own | MCQuicConn_own | 186,408 | `NoLostStreamEvent`, `NobodyWaitsInVain`: no waiter is left on a half-closed stream or a stopped connection. `HalfClosedIsDrained`. `CloseReachesWaiters`: once a connection ends there comes a time when nobody waits |
| quicconn_peer | MCQuicConn_peer | 344,536 | `AcceptedOnce`: a stream is accepted at most once, and is in quiche's queue until it is announced. `ReadableIsServed`, with a stream that is shut down while it is read |
| quiclistener | MCQuicListener | 337,836 | `ConnIsRead`, `QueuedOnce`, `NoLostIncoming`, `AcceptEnds` |
| http | MCHttpParse | 1,125,182 | `UntornIsParsed`: unless a read ends inside the blank line or fails, a message is parsed to what was sent, but for line ends at the start of its body. `NoEarlyFinish`: nothing incomplete is accepted, and what is accepted has the first line and headers that were sent |
| leveldb | MCLevelDb | 1,922,312 | `PassIsExact`. `NonEmptyIsDeleted`: after Ok(true) the key has no value unless it was written after leveldb_delete |

Every module with a run has a type invariant (`TypeOK`, or the name with a prefix where a module
extends another or shares a proof module with another). It is part of the inductive invariant in
the proofs about Queue, SpinMutex, AsyncMutex, EventMap, FutureBatcher, Poller, QuicConn, QuicListener
and LevelDb. The proofs about ConnPool, Timeout, TimeWheel and UdpGroup state the types that they need;
the type invariants of these, of QuicConnect and of HttpParse hold in the runs above when they are
added to the cfg.

Deadlock is checked where the system never stops (queue, connpool, http, leveldb). The other
models end: every wait is one call, a batcher or a listener is closed, a clock stops.

SpinMutex, Profiler, GperfReport and Rproxy have theorems and no run: the theorems say of every
instance what a run says of one. Their invariants were looked at with TLC before they were proved,
on these instances: SpinMutex with three threads (207 states); Profiler with two threads, two blocks
and one pending sample (799,950); GperfReport with three symbols, two of them
without an address, and a sample of two frames (9,828); Rproxy over tcp (1,875), tls (2,080) and QUIC with two connections of two
streams (6,651,950). TimeWheel alone was checked with two timers and two tickers (2,336,261).

## 4. Bounds, and why they are enough

- **queue**: three threads, two values, two pushes. One push holds a reserved offset, one pop spins
  for it, and a third thread overtakes both. The counters are `usize` and do not wrap in practice.
- **connpool**: two tasks, each of which is owner, sleeper, or dropped; one connection, which closes and
  is replaced; three streams, as the limit is one less on a connection with none in use; two streams
  (`MaxGone`) that finish and are granted again, or are closed unsent and take their ids with them. Two
  connections of two streams each were checked once (1,384,048 states).
  `MaxEntries = 2` bounds the wakers that a task's spurious polls leave behind.
- **eventmap**: two waits, two events, two notifiers, so that waits share an event or not and
  notifiers race for one waker.
- **batcher**: two futures, each pending at most once, one of which is woken twice for it (`MaxWakes` is a
  function of the future), so that a wake-up comes after the result, and a close.
- **poller**: one socket, as sockets share nothing but the poll thread; a reader, a rival for the
  reader's waker and a writer; errors, a shutdown, a failed registration, and a poll thread that may
  die. A stream has every operation that a datagram socket has, and shutdown.
- **timeout**: one call and one other user of the wheel, which share a slot or not; calls are told
  apart by token everywhere else. One thread runs poll_once, as `io/src/context.rs` starts one. A tick
  is two units of time (`Tick = 2`), durations are one tick or one and a half, and the clock stops at
  `MaxNow = 6`, when every timer has expired. What is left of a duration at the start of a timer may be
  less than a tick. The theorems are about any
  number of tickers.
- **quicconnect**: two addresses, two sockets, two boxes (one in use, one allocated before the other
  is freed), handshakes of two datagrams, one timeout that retransmits before one that closes, and datagrams
  that quiche ignores (`Junk`).
- **quicconn**: one stream of this side in both directions and one of the peer that competes for the
  events, or two streams of the peer of which one is read, shut down and closed (`Used` lists the
  operations). Packets that bring more than acknowledgements are bounded, acknowledgements are not.
- **quiclistener**: two clients, one accept, two calls of close (the second does what the first
  left out), packets that quiche refuses and sockets that fail (`Faulty`).
- **http**: messages of up to two header lines, well-formed and malformed in each item, or not
  well-formed and accepted all the same, both line ends, bodies that look like heads or begin with line
  ends, cut short anywhere, with a read that fails anywhere, and read in every division into pieces.
- **leveldb**: two keys, an empty and a non-empty value, two deleters, two writes, library calls of
  delete that fail.

Except for http, where they matter for the two properties that compare with the message sent, the
bounds matter for liveness only: section 6 has every safety property of these runs for any number of tasks,
sockets, streams, clients, timers, futures and keys.

## 5. Fairness, and why the code justifies it

- A step of a thread inside a call (`QueueResume`, `PollStep`, `WaitStep`, ...) is weakly fair: the
  operating system does not suspend a thread for ever.
- A woken task is polled again (`BatcherRepoll`, the second `Call`, `Poll`): the executor's contract.
- The poll thread repeats poll_once (`PollThread`, `PollOnce`): `io/src/context.rs`, a loop.
- The loops of a connection or a listener go on (`ReadLoop`, `RecvLoop`, `SendLoop`): spawned tasks. The
  listener's receive loop learns of a close from the next packet only (`RecvClosed`), and none need come.
- The owner of the pool's mutex goes on and drops the guard (`PoolStep`, `Release` in ConnPool): the
  guard lives as long as open_stream.
- A stream_shutdown that has released the lock goes on to its notification (`NotifyShutdown`).
- The waker of a pending future is called (`Fire` in FutureBatcher): the contract of a future.
- Time passes (`Advance`, `Expire`). `Expire` is strongly fair, because time passes wherever the
  client is, however often timeout ends early.
- A datagram that is there is not refused for ever (strong fairness of a successful read in
  QuicConnect). Without it a socket whose every read fails is never read.
- Acknowledgements of the pings that read sends arrive (`WriteAck` in QuicConn). Otherwise quiche
  closes the connection, which is another action.

No packet, datagram, connection, push or notification is assumed to arrive.

The wait of the send loop in QuicConn times out: `CloseReachesWaiters` rests on what `TimeoutReturns`
says of the module Timeout. Where a timeout is lost (`AnyTimeoutReturns`, section 7), the waiters of a
closed connection wait for its next packet or operation.

One assumption is a constant, so that a run can drop it (section 7). `Prompt` in Timeout: no
thread is held up for more than a tick between is_expired and add_waker.

## 6. Theorems

TLAPS proves these for every value of the constants: any number of threads, tasks, waits, events,
sockets, addresses, timers, blocks, streams. `tlapm <module>.tla` checks the proofs.

| Module | Theorem | Says |
|---|---|---|
| SyncProofs | `QueueNoValueLost` | Queue: always NoValueLost |
| | `QueueClaimIsExclusive` | no two pops hold the same offset |
| | `QueueInvariance` | the whole inductive invariant, type invariant included |
| | `QueueRefinesFifo` | Queue implements Fifo under the refinement mapping |
| | `SpinMutualExclusion` | at most one thread holds the lock |
| | `SpinNoPanic` | none of the checks on the guard word panics |
| | `SpinRefinesMutex` | SpinMutex implements Mutex |
| | `AsyncLocksHeld` | the two inner locks are held along the code's critical sections |
| | `AsyncNoLostWakeup` | AsyncMutex: always NoLostWakeup |
| | `AsyncRefinesMutex` | the polls of the lock future and the drop of the guard implement Mutex, with calls that may be given up |
| | `AsyncUsesWakersLock` | poll and drop use the lock of the wakers as Mutex allows |
| | `PoolStreamCanSend`, `PoolOpenIsPooled` | the two safety properties of the run about the pool |
| | `PoolStreamLimit` | `StreamLimit`: a connection has at most max_streams_bidi - 1 streams in use, as the doc of open_stream has it |
| | `PoolNoLostWakeup` | ConnPool implements AsyncMutex's specification (lemma PoolUsesMutex), so it loses no wake-up |
| | `PoolRefinesMutex` | and its lock is a Mutex, whatever open_stream does under it and wherever it is dropped |
| FutureProofs | `EventMapNoLostEvent`, `EventMapOneReason` | the two safety properties of the run |
| | `EventMapResultIsFinal` | a step never changes the reason of a wait that has one |
| | `BatcherNoLostWake`, `BatcherNoFutureForgotten`, `BatcherResultOnce` | the three safety properties of the run |
| NetProofs | `PollerNoLostReadiness`, `PollerClosedHasNoReader` | the two safety properties of the run |
| | `RproxyNoLostClose` | a task that sleeps on a session and was not woken has its waker stored, and there is no result yet |
| | `RproxyNoStreamForgotten` | a stream is where the code can find it, from the accept to its task |
| | `RproxyBackPressure` | as many items in the channel as parked connection tasks |
| | `RproxyStatsFollowTasks` | the two counters follow the tasks |
| TimeoutProofs | `WheelNoStrandedTimer` | a timer in the map for which new_timer returned Some will be found by a next_tick |
| | `WheelTickerNeverPanics` | next_tick's assertion `current <= ticks` holds, with any number of tickers |
| | `WheelNeverEarly` | next_tick returns no timer before the tick of its expiry is over |
| | `TimeoutNoStrandedTimer` | Timeout implements TimeWheel's specification, so it strands no timer |
| | `TimeoutGoneIsExpired` | a timer that is out of the wheel has expired by the clock of is_expired |
| | `TimeoutNoLostExpiry` | under `Prompt`, a call that sleeps has its waker and its timer in place |
| QuicProofs | `GroupBufferSafe` | any single caller of UdpGroup: no stale buffer, no leak, no failed assertion |
| | `ConnectUsesGroup` | QuicConnect implements UdpGroup's specification |
| | `ConnectNoStaleBuffer`, `ConnectNoLeak` | so both properties hold for connect and the receive loop |
| | `ListenerConnIsRead`, `ListenerNoLostIncoming` | QuicListener: a connection is always read, and a waiting accept has missed nothing, also when packets are delivered again |
| | `ListenerQueuedOnce` | without duplicated packets, a connection is queued for accept once |
| QuicConnProofs | `ConnNoLostStreamEvent`, `ConnNobodyWaitsInVain`, `ConnHalfClosedIsDrained`, `ConnAcceptedOnce` | the four safety properties of the two runs |
| ProfilerProofs | `ProfilersSomeoneRuns` | of the threads inside the allocator or the profilers one can always go on |
| | `HeapStatsFollowMap`, `HeapMapIsLive` | the counter follows the map, and the map is the heap |
| | `ReportFirstProfileIsSound` | every id and every offset in the first profile built names an entry with the address it was made for |
| | `ReportFirstProfileNamesFrames` | and each frame has the name and file of its symbol, unless another has the same address |
| DataProofs | `IteratorPassIsExact`, `DeleteNonEmptyIsDeleted` | the two properties of the run |
| | `HttpBodyFollowsBlankLine` | a parser that has finished stands at the end of a blank line with the three items of the first line, and into_bytes returns all of the stream that follows |
| | `HttpBodyStartIsFinal` | once the head has ended, no read changes where the body begins |
| | `HttpNothingSpansLines` | no item and no header value has a line end in it, and every header name is a token |

A proof module is about components that belong together, or share nothing (the database and the
parser); where two of them used the same name, the definitions of one carry a prefix (`QueueNext`,
`BatcherNext`, `GroupNext`, `ProxyNext`, `HttpNext`, ...). Most leaves name `Zenon`: tlapm tries SMT first,
and in modules of this size the translation for it takes longer than Zenon's proof, or does not end in
time on a slower machine. `ZenonT(60)` and `SMTT(30)` are on the leaves that are slow themselves.

Assumptions on the constants, all of which TLC evaluates in a run:

- markers that stand for nothing are none of the things they are no instance of: `None` is no value
  (Queue), `Nobody` no task, wait or client (AsyncMutex, EventMap, Poller, QuicListener), `NoConn` no
  connection (ConnPool), `Null` no box (UdpGroup), `Absent` no value, while `Empty` is one (LevelDb);
- bounds are naturals (`MaxEntries`, `MaxConns`, `MaxGone`, `MaxPending`, `MaxWakes` of each future, `MaxPackets`, `MaxWrites`,
  `MaxBatch`, `MaxNow`, `LastStart`, `LastOther`, `MaxLines`, `MaxBody`), and positive
  where zero would leave nothing to do (`MaxPush`, `MaxStreams`, `MaxData`, `MaxHead`, `Grow`, `Tick`,
  the durations, the numbers of QuicConnect);
- the calls of Timeout are among the users of the wheel, each task of Poller uses a socket in one
  direction, the keys of LevelDb are positive numbers, as they are ordered, the first lines of
  HttpParse are those of a request or of a response, and its line ends are the two the code knows;
- the streams of one side of a QUIC connection are those of the parity of `FirstStream`, and those of
  the peer the others, which is how QUIC numbers them and the code tells them apart.

A theorem that needs more says so. `TimeoutNoLostExpiry` assumes `Prompt` and `ListenerQueuedOnce`
assumes `~Duplicates`, the values of the runs; section 7 has what happens without them.
`PoolStreamCanSend` and `PoolStreamLimit` assume `MaxStreams > 1`, as a peer that allows one stream
allows none for the pool. The last three
about Rproxy assume `MaxStreams \in Nat`. SpinMutex, Profiler and GperfReport need nothing.

The inductive invariants, and why the property alone is not inductive:

- **Queue**: `QueueTypeOK /\ NoValueLost /\ ClaimIsExclusive /\ CallsInProgress`. NoValueLost counts on
  every claimed offset that is not delivered yet belonging to one spinning pop (ClaimIsExclusive)
  and on what the calls in progress know (CallsInProgress): a push about to insert has a reserved
  offset of its own below `tail` and the value recorded for it, and the offset a pop has loaded is at
  most `head`. The refinement maps the abstract queue to the reserved offsets from `head` on: a push
  takes effect at fetch_add, a pop at its successful compare-and-swap, and a pop that finds nothing
  at the load of `tail`.
- **SpinMutex**: type, exclusion of the holders, `flag` is set exactly while somebody holds, and
  `guard` names exactly the thread whose guard is alive. The panics are excluded by the last part.
- **AsyncMutex**: `TypeOK /\ LocksHeld /\ NoLostWakeup`. LocksHeld says at which steps a task holds
  which lock. It is what makes the second try_lock and the drop's wake-up exclude each other.
  It also carries the two refinements. For the lock itself, a task waits from its call until one
  of the two try_locks succeeds, which is the step that makes it the owner, or until its future is
  dropped; what lies between is stuttering. For the lock of the wakers, a task waits at
  `wakers.lock()` in poll and in drop.
- **EventMap**: `TypeOK /\ GuardHeld /\ Fresh /\ NotifierOK /\ OneReason /\ NoLostEvent`. The guard
  is alive exactly from the call of wait until the waker is stored and the guard dropped, and the
  event has not happened when the waker is inserted (GuardHeld). Nobody knows of a wait before it has
  stored its waker (Fresh). NotifierOK says what a notifier has in hand, and left to do, at each step.
- **FutureBatcher**: the types, with CounterOK, AgentsOK, WakeOK, OwnedOnce and NoFutureForgotten. While
  poll is on its way the task does not sleep, so NoLostWake says nothing of it. WakeOK follows it
  there: from the store of the waker on it is in place or somebody has it in hand, and from the look at
  the empty queue, or at `closed`, on, whoever changed them since still has to call it. OwnedOnce says
  that a future is in the map or in the hands of poll and not in both, which ResultOnce needs.
- **Poller**: `TypeOK /\ CallsOpen /\ WakerStored /\ EdgeKept /\ EventsDone /\ ClosedHasNoReader`.
  WakerStored begins at add_waker, before the operation is tried, and EdgeKept says what must hold of
  an edge once the call is pending. A call is in progress on an open socket only, since it
  borrows the socket, and poll_once has gone through its list before it polls again.
- **ConnPool**: what the owner of the mutex found out is still true at the next step. StreamLeft says it
  of the connection chosen, LoopOK of the members the owner walks over, ConnsOK of the
  connections not made yet, RoomLeft of the place for a new one. They survive every await because only
  the owner opens streams, while the others give them back. That a call which is dropped leaves
  nothing behind is ConnsOK at `begin`. peer_streams_left_bidi is a number, and what it must guarantee
  is about ids. MadeOK links the two: the streams that quiche has made are below the count
  of opened ones. So those from that count on are open or closed unsent, and lemma LeftIsRoom counts
  them. CanSend is StreamCanSend and StreamLimit of one connection.
- **QuicListener**: LoopsOK says which connection each loop has in hand at each step, ReadIsQueued that
  what is read has been queued while the queue exists. For QueuedOnce, OnTheWay says that a connection
  which has not finished its handshake, or is still pre-established, is not queued; only a
  packet that is delivered again breaks that.
- **QuicConn**: `TypeOK /\ Parity /\ Kept /\ Drained /\ SeenOK`. Kept says for each operation that waits
  why it will be told: its waker is there (WakerKept), its stream is not half closed nor finished and
  is in quiche's queue as soon as there is something to do (StreamKept), the queue of accept is empty
  (AcceptKept), and the send loop still runs (LoopKept). Every action hands its events to the same
  three operators, so one lemma (HarmlessKeeps) says what an action owes those that wait, and each
  action is shown to pay it. Drained and SeenOK carry the other two properties from step to step.
- **LevelDb**: DelOK says of a delete between its two calls what it has read, and that the key has no
  value once it found none, or has deleted what it found, unless the key was written since. CursorOK says
  where the cursor is during a pass: before the first key, on the key returned last, or past the
  end. PassIsExact alone does not know that the key that follows the cursor is the next one due.
- **HttpParse**: `BytesOK /\ ItemsOK /\ StopOK` with NothingSpansLines. BytesOK says that the
  buffer of the head is the last piece read of the stream, and that the body is the piece just
  before it; every scan takes bytes off the front, and every read adds them at the end, so both stay
  pieces. ItemsOK counts the items by the state of the parser. StopOK says that a blank line ends
  where the parser stopped. It rests on lemmas about the scans: skip_newlines takes off complete line
  ends only, and if there are two the last two make a blank line; a value ends before its line does.
- **UdpGroup**: where the buffer is at each step of a call: in batching_read_buf while wait looks
  for a future, with the poll while that runs, freed at the return. At `idle` it says nothing of
  the pointer except that it is the only box, since a call that was given up leaves it there.
- **TimeWheel**: SlotsOK says what NoStrandedTimer says from new_timer's second look at `ticks` on, and
  not only once it has returned: a timer in its slot is ahead of the wheel or in the range that some
  ticker is emptying. ClockOK says that the wheel is never ahead of the clock, and that what a ticker
  has taken out has expired; the panic and the early timer need it.
- **Timeout**: ClockOK with GoneOK, CallsOK and StartOK. GoneOK says from the first step of new_timer on
  what GoneIsExpired says once it has answered: the timer is in its slot, on a ticker's list, or past.
  StartOK orders the two readings of the clock, that of the timer before that of the wheel, so
  that what is past for the wheel is past for the timer, whichever way both are rounded. For
  NoLostExpiry, SleepOK adds that between is_expired and add_waker the timer is not past yet. That is
  where `Prompt` is used: is_expired has left more than a tick, and the wheel does not get further.
- **Profiler**: LocksOK says which locks each position holds and where a nested alloc can be; with the
  order samples, backtrace, map it excludes every cycle. HeapOK says that a pointer in the hands of a
  call is nobody else's, that nothing is registered before the start, and that the map agrees with
  the heap also for the blocks in the hands of calls; the counter follows from it.
- **GperfReport**: the indexes of strings and functions name the entries they were made for, and the
  ids of the block at hand name its frames, up to the address. Soundness of the tables alone says nothing of the indexes.
- **Rproxy**: SessionOK is NoLostClose with the types, inductive because poll and closed_with are
  atomic. ChannelOK adds to NoStreamForgotten that a stream not accepted yet has no task, that what
  is in the channel was accepted, and that nobody sends once the loop has stopped. PressureOK and
  CountOK add that the sets counted are finite.

Only model-checked: the two properties of the http run, and all liveness. UntornIsParsed and
NoEarlyFinish compare what was parsed with the message that was sent, which is put together from
its lines by recursion, and induction over data is out of the prover's reach; so are liveness under
fairness and ENABLED. What the parser does with any stream of bytes is proved instead, by the three
theorems about HttpParse. Every safety property of the other eleven runs is a theorem.

The refinements of AsyncMutex hold in the connpool run when they are added to its cfg, and what is
proved about HttpParse holds in the http run in the same way.

## 7. Promises the code does not keep

Some docs, comments and tests of the repository promise more than the code does. Each promise is
stated as a definition whose comment says so. To see the counterexample, give the cfg the property
as its only one, with the specification and the constants named here.

| Property | cfg, specification, change | What the code does |
|---|---|---|
| `LenNeverUnderflows` | MCQueue, QueueSpec | `lockfree/src/queue.rs:33` subtracts two counters read one after the other; a push and a pop in between make `head` larger. Doc: "Get queue len." (line 31) |
| `LockFree` | MCQueue, SuspendedSpec | a pop spins (line 65) for a push that is suspended before it stored. Doc: "A lokfree `FIFO` queue implementation." (line 5) |
| `OnlyOnePolls` | MCFutureBatcher, AgainSpec | the early returns of `future/src/batching.rs:273` and 281 do not give await_counter back, so the next wait of the same task panics with "Only one thread can call this batch poll" (line 269) |
| `TimeoutReturns` | MCTimeout, FairSpec, `Prompt = FALSE` | a thread held up between is_expired and add_waker (`io/src/mio/driver.rs:118`) misses its expiry for good. Doc: "Add timeout feature for exists `Fut`" (`io/src/timeout.rs:6`) |
| `SuspendsInterval` | MCTimeout, Spec | a Sleep ends up to a tick early (`io/src/mio/timer.rs:65`). Doc: "suspend `expired` interval" (`io/src/sleep.rs:21`) |
| `AnyTimeoutReturns` | MCTimeout, FairSpec | a new_timer that comes late takes its whole slot out of the map (`lockfree/src/timewheel.rs:68`), with the timers of others that next_tick was about to return; those never fire. Doc: "Add timeout feature for exists `Fut`" (`io/src/timeout.rs:6`) |
| `EveryStreamCanSend` | MCConnPool, PoolSpec | close_stream of a stream on which nothing was sent forgets its id (`net/quic/src/state/conn.rs:805`), and quiche counts by id, so a stream opened later is beyond the peer's limit although peer_streams_left_bidi was positive. Doc: "Adjusted peer_streams_left_bidi according to register_outgoing_stream_ids." (line 889) |
| `ConnectReturns` | MCQuicConnect, ClientFairSpec | when quiche's timer has already expired, the time left is zero, which timeout takes for no timeout (`io/src/timeout.rs:22`); connect then waits for a datagram only. Doc: "Once the given duration has elapsed, the on_timeout method should be called" (`net/quic/src/state/connector.rs:110`) |
| `CloseEndsRecv` | MCQuicConn_own, Spec | close_stream of a stream on which nothing was sent returns (`net/quic/src/state/conn.rs:804`) and leaves its stream_recv waiting. Doc: "This function closes stream by sending len(0) data and fin flag." (line 795) |
| `ShutdownEndsRecv` | MCQuicConn_peer, Spec | a stream_recv that comes after stream_shutdown has notified waits until the connection ends (`net/quic/src/state/conn.rs:838`), as quiche answers Done for a stream that is no longer read. Comment: "notify blocking stream_recv ops." (line 837) |
| `AcceptEnds` | MCQuicListener, FairSpec, `Acceptors = {a1, a2}`, `Closers = {z1}` | close notifies one accept, and the second took the first one's place (`net/quic/src/state/listener.rs:498`). Doc: "returns `None` if this listener had been closed" (line 502) |
| `EstablishedIsNotShadowed` | MCQuicListener, Spec, `Duplicates = TRUE` | a late Initial with a valid token makes a new connection under the id of the established one, and is found first (line 80). Comment: "this is pre-establishing conn packet" (line 79) |
| `SendLoopEnds` | MCQuicListener, FairSpec, `Closers = {z1}` | only a second close closes conns_read (line 490). Comment: "try wakeup read future." (line 489) |
| `RepliesAreForwarded` | MCQuicListener, Spec | the receive loop sends the answer of an Internal result only (`net/quic/src/listener.rs:158`). Attribute: "Must handle internal data forward" (`state/listener.rs:327`) |
| `ReadsDoNotMatter` | MCHttpParse, MCSpec | when a read ends inside the blank line, skip_newlines has forgotten the first line end (`net/http/src/parse.rs:703`), and the line ends at the start of a body are skipped with the head's if they come with the same read (line 716). Comment: "a sequence of two line breaks" (line 657) |
| `BuffersAreLimited` | MCHttpParse, MCSpec, `MaxBody = 2` | chunk_mut of a full BytesMut reserves more, so the limit is never met (`net/http/src/body.rs:45`). Doc: "Use `max_body_len` to limit memory buf usage" (line 35) |
| `SeekIsExact` | MCLevelDb, Spec | next after a seek past the last key starts at the first (`leveldb/src/lib.rs:418`). Test: "assert_eq!(c.len(), 99 - (i - 1) * 11)" (`leveldb/tests/leveldb.rs:52`) |
| `DeleteIsDone` | MCLevelDb, Spec | delete leaves a key whose value is empty (line 583). Doc: "Delete one row date from leveldb by provided key." (line 557) |
| `SnapshotIsRead` | MCLevelDb, Spec | the snapshot is not set in the read options (line 180). Doc: "Create a snapshot of this leveldb instance." (line 477) |

Others show in the actions themselves, and no property is stated for them:

- `lockfree/src/timewheel.rs:40`: timers() is "aliving timers's count" (line 38), and nothing ever
  decreases the count (`timer_count` in TimeWheel).
- `pprof/src/profiler/heap.rs`: alloc registers the null pointer of an allocation that failed, which
  nobody frees. So `StatsFollowMap` is about runs in which none has failed.
- `pprof/src/profiler/cpu.rs:63`: a sample that began before the stop is pushed after it, and is in
  the report of the next session (`Push` and `Drain` in Profiler).
- `pprof/src/profiler/report.rs:130`: build drains the tables and keeps their indexes, so a second
  profile of the same report refers to entries that are gone. Hence `FirstProfileIsSound`.
- `pprof/src/profiler/frames.rs:55`: a symbol without an address gets the null one, and FnTable
  (`report.rs:56`) has one entry for all of these, with the name of the first.
- `net/http/src/parse.rs:239` and 430: no space is needed before a version or a status code, and
  parse_header (line 258) takes what follows the version on the request line for a header.
- `leveldb/src/lib.rs:583`: two deletes of one key may both return true.
- `net/quic/src/listener.rs:115` and 175: an error of the socket, and for the receive loop any error of
  write, ends the loop for every connection (`RecvErr`, `SendOut` in QuicListener), and nobody is told.
- `net/quic/src/state/conn.rs:902`: to a peer that allows one stream the pool makes a connection, opens
  a stream on it without a look at peer_streams_left_bidi, and cannot send on it.
- `io/src/driver_ext.rs:331`: the answer to Cmd::BroadCast is dropped, so `UdpSocket::broadcast`
  (`net/udp/src/udp.rs:186`) fails on every call. It is not part of a model.

## 8. Abstractions

- Payloads, addresses, options and log output are left out, except in HttpParse, where the bytes are
  what the properties are about, and in LevelDb, where an empty value differs from others.
- Maps of `dashmap` and the atomics are linearizable. The orderings of the atomics are not modelled:
  every access is sequentially consistent.
- Every new_timer of TimeWheel has a thread of its own. A thread that makes several calls has fewer
  behaviours.
- ConnPool sees a connection as its state and what became of each of its streams, which changes between
  any two steps of open_stream; QuicConn has the details. The i-th stream of a client has the id 4 * i,
  so id 0 is never used, and quiche opens all the ids up to the one that is sent on.
- In Rproxy the channel is what `futures::channel::mpsc::channel(0)` does: one slot per sender, the
  receiver unparks some parked sender, and a send to a receiver that is gone fails. What a handshaker
  does is to return a session or an error.
- In Profiler the allocations that alloc and dealloc make themselves are seen as the locks they need,
  since the reentrancy counter keeps them out of the map.
- quiche's answer to stream_shutdown is taken from its documentation and from how the code uses it: what
  is unread is dropped, later data is not kept, and stream_recv answers Done.
- In QuicConn at most one operation waits for each event, as EventMap has one waker per event. Two
  callers of one operation are looked at in the listener (`AcceptEnds`, section 7).
- In UdpGroup there is one caller at a time, as the doc of recv_from demands. send_to is the same
  code with the other buffer and is not modelled a second time.
- In QuicConnect quiche is a count of handshake rounds, a count of timeouts, and a timer that may be
  moved by what arrives. The server
  has at least one address: with none, connect unwraps an error that is not there.

## 9. Not modelled

Nothing to model: `ops`, `net/quic/src/config.rs` and `errors.rs`, the test macros and the facade
(plain data, re-exports), `pprof/src/gperf` (generated), `pprof` logging macros (one OnceLock).

External, with nothing left once the library is taken away:

- **Executor.** `future/src/executor.rs` is futures' ThreadPool. block_on spawns the future with a
  channel for its result and waits. The poll helpers map WouldBlock to Pending.
- **TLS.** The protocol is BoringSSL's. `net/tls` lends the waker of the current poll to its synchronous
  calls and turns their WouldBlock into Pending; it keeps nothing between two polls.
- **parking_lot's SpinMutex.** A wrapper of `parking_lot::Mutex`; Mutex says what is used of it.

Operations of modelled parts that are left out:

- QuicConnState: stream_send with the fin flag, the peer's STOP_SENDING and RESET_STREAM. The queries
  change nothing. The handles' Drop spawns close_stream or close, which are actions.
- TcpStream: a shutdown of one direction, which nothing in the workspace calls.
- UdpSocket: the broadcast option. send_to's next address is the task calling again.
- UdpGroup: the error path of bind, Drop, send_to (the same code with the other buffer), send_to_on_path
  (an operation of Poller's kind).
- Key and value encodings of leveldb; version negotiation and the contents of tokens in the listener.

What would extend the development: AsyncMutex over the atomic steps of SpinMutex, which the theorem
`SpinRefinesMutex` makes unnecessary for safety, and FutureBatcher over those of Queue, which
`QueueRefinesFifo` does.
