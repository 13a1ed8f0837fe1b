# A TLA+ development for CppConcurrencyPatterns

The repository is a collection of small concurrent C++ (and C) programs, one per
directory, each of which implements one synchronisation pattern and exercises it
from a `main`.  The programs do not call each other: the "system" is the set of
primitives (queues, locks, channels, stacks, event loops, reactors) and, for each
of them, the client threads of its `main` or test.  Everything interesting is an
interleaving.

This directory holds one TLA+ module per primitive, suites that put programs of the
same purpose behind one set of properties, the `.cfg` files that model-check them,
and TLAPS proofs for the invariants that matter most.

## 1. Inventory

State, operations, what is hard, and what makes each part correct.

| Part (src/) | State | Operations | What is hard | Correct means |
|---|---|---|---|---|
| `ProducerConsumer/mpsc_queue_test/mpsc_queue.h` | `readIndex`, `commitWriteIndex`, `reserveWriteIndex`, `buf` | `push` (load, load, CAS reserve, write, CAS commit), `pop` | several producers between reservation and commit; a failed CAS rewrites its expected value | only written slots are read; nothing lost or duplicated; FIFO per producer |
| `ProducerConsumer/spsc_daugaard/v1`, `v2`, `v2_std_semaphore` | writer/reader `pos,end,base`, shared `pos`, `shouldSignal`, two semaphores | `PrepareWrite/FinishWrite/PrepareRead/FinishRead`, sleep/wake | wrap-around with waste, sleep request racing a publication, signal racing its cancellation | no unread byte is overwritten, no unwritten byte is read, nobody sleeps forever, the semaphore never exceeds 1 |
| `ProducerConsumer/spsc_daugaard/v2/sema.h` | `m_count`, kernel semaphore | `tryWait`, `waitWithPartialSpinning`, `signal` | negative count as number of sleepers | tokens are neither lost nor created |
| `LockFree/SPSCQueue` | `buffer`, `writePos`, `readPos` | `push`, `pop`; the demo's two threads and `done` flag | full/empty distinction with one slot kept free; drain after `done` | FIFO, bounded, no torn slot |
| `ProducerConsumer/first_readers_writers` | semaphores `resource`, `rmutex`, `readcount`, `data` | `writer`, `startRead`, `stopRead`, `reader` | the last reader's release racing a new first reader | exclusion; an open share never keeps a reader waiting |
| `ProducerConsumer/second_readers_writers` (C++ and C) | + `wmutex`, `readTry`, `writeCount` | `startWrite`, `endWrite`, `startRead`, `endRead` | four semaphores taken in nested orders | exclusion, no deadlock, an announced writer shuts new readers out |
| `ProducerConsumer/third_readers_writers` | + `serviceQueue` | as above | `serviceQueue` is released before `rmutex` | exclusion, no deadlock, nobody overtakes the head of the service queue |
| `ProducerConsumer/simplest_readers_writers` | `data`, `endSignal`, `readerCond` | `writer`, `reader` | `endSignal` is set without the mutex and without a notification | every value read once; readers finish |
| `ProducerConsumer/producer_consumer_bounded_buffer` | two counting semaphores, `buffer` | `producer`, `consumer` with a timed acquire whose result is ignored | the timeout racing a late portion | nothing is lost or taken twice; the semaphores should count filled and empty places |
| `ProducerConsumer/producer_consumer_monitor` | ring `buffer`, `count`, two condition variables, `endSignal` | `append`, `remove`, `stop` | `stop` sets its flag without the mutex | bounds, FIFO, everyone stops |
| `ProducerConsumer/producer_consumer_single` (C++ and C) | ring, atomic `count` / three semaphores | `producer`, `consumer` | busy-wait handshake through one counter | FIFO, bounds |
| `ProducerConsumer/producer_consumer_channel` | `queue`, `closed`, `waitingReceivers`, `cv_send`, `cv_recv`, `selectors`; `Selector`: `channels`, `stop_flag_`, `cv` | `send`, `try_send`, `receive`, `try_receive`, `close`, `select`, `add_receive`, `stop`, `notify` | unbuffered hand-over, both sides decrement `waitingReceivers`; notifications without the selector's mutex | blocking contract, no value lost, `stop` unblocks |
| `ProducerConsumer/producer_consumer_channel_2` | `queue_`, `size_`, `cnd_`, `is_closed_` | `<<`, `>>`, `close`, `begin/end/!=/*` | one condition variable for both directions; the closed check is a separate critical section; `!=` and `*` are separate critical sections | no element after close, no element seen twice, progress |
| `LockFree/SimpleStack`, `CompleteStack`, `AtomicSharedPointerStack`, `AtomicSmartPointerStack` | `head`, nodes | `push`, `topAndPop` / `pop` | CAS retry; empty stack | every value popped once, an empty pop reports |
| `LockFree/HazardPointerStack` | `head`, hazard slots, retire list | `push`, `topAndPop`, `isInUse`, `deleteUnusedNodes` | reclamation racing a reader | no access to a freed node |
| `SeqLock/*` (naive, spinlock, rigtorp; three lock-based emulators) | counter, value words, spin lock / mutex | `load`, `store` | torn reads, counter wrap-around | a load returns one stored value |
| `Spinlock/*` (five locks, benchmark) | one flag | `lock`, `try_lock`, `unlock` | wait/notify on the flag | exclusion, no lost wake-up |
| `EventLoop/Basic`, `EventHandlers`, `AccessSerialization` | `m_writeBuffer`, `readBuffer`, `m_running`, futures, account balance | `enqueue`, `enqueueSync`, `enqueueAsync`, `threadFunc`, destructor | stop task inside a batch; a late enqueue; synchronous call from the loop itself | FIFO, every task enqueued before destruction runs once |
| `ActiveObject` | `activationList`, futures | `enqueueTask`, `run`, `runNextTask` | servant quits on an empty list | every future is fulfilled |
| `GuardedSuspension` | promises, shared future | `Worker`, boss | two-phase start | no worker starts before all are prepared |
| `MonitorObject/Cpp11`, `Cpp20` | `myQueue`, monitor mutex and condition | `add`, `get` | `get` waits and takes in two critical sections | no pop of an empty queue |
| `Reactor/Cpp11`, `Cpp11queue`, `Cpp98`, `Poco` | message slot / queue, handler maps, loop flag; epoll set | `OnMessage`, `Register/RemoveEventHandler`, `start/stopEventHandlerThread`, `MessageLoop`; `dispatchEvent`, `registHandler`, `removeHander` | stop/start racing the loop; slot overwritten; stale file descriptor | no message lost, restart works, no dispatch to a dead handler |
| `StrategizedLocking`, `ScopedLocking`, `ThreadSafeInterface`, `ThreadSpecificStorage`, `CopiedValue`, `Future` | a mutex or a thread-local sum | RAII lock/unlock, sum | little: single-threaded or one atomic add | lock released on every path, sum complete |
| `OpenMP/*` | loop ranges, private/shared sums, tasks | static chunking, reductions, critical sections, tasks | last chunk, private copies | result equals the sequential one |

The parts share nothing at run time.  What they do share is what they are for, and
that is how the models are grouped: thirteen programs promise a FIFO (of items or of
tasks), five a stack, thirteen a shared resource with one writer, three a value that is
never read torn, three a reaction to every message.

### Hazards

`PROJECT.json` lists them line by line.  In short:

- a CAS that fails and overwrites its expected value, in the commit of `mpsc_queue.h`;
- a value copied while it is written (SeqLock), and a counter that comes round;
- a request to be woken racing the event it asks for, and its cancellation racing the
  wake-up (the byte rings);
- flags set and notifications sent without the mutex, between the predicate and the
  sleep of a waiting thread (selector, monitor buffer, simplest readers-writers);
- two critical sections where one was meant (`MonitorObject::get`, `operator<<` and
  the iterator of the second channel, `is_closed`/`try_receive` of the selector);
- a result that is ignored (`try_acquire_for`), an unsigned count decremented by both
  sides (`waitingReceivers`), an emptiness test inside the retry loop (the stacks);
- memory that is freed and used again while somebody still has its address (the
  hazard-pointer stack);
- semaphores taken in nested orders (second and third readers-writers);
- a lock that is freed and then announced (the flag that wakes one sleeper), and one
  whose sleepers are counted before they sleep (`sema.h`);
- readers that share a lock until the writer they keep out has written (the emulators);
- a stop that is a task among tasks (event loops), or a flag that the restart sets again
  before the old loop has seen it cleared (reactors);
- memory handed over through an unprotected pointer, and a map searched without its
  mutex (`Reactor/Cpp11`);
- edge-triggered events for sockets that block, descriptors that are closed and used
  again, a structure that is not initialised (`Reactor/Cpp98`).

## 2. Plan

In order of importance; all modules and proofs of the plan are written.

1. `MPSCQueue`: the repository's most intricate lock-free code.
2. `SeqLock`.  Both programs are about counters that threads publish and others trust;
   `MCCounters` puts the two into one run, `CountersProofs` has the proofs of the two.
3. `FirstReadersWriters`, `SecondReadersWriters`, `ThirdReadersWriters`, `SpinLocks`,
   `LightweightSemaphore`, `SeqLockEmulators`, composed by `Locks` and shown to implement
   the abstract `SharedResource`, with `LocksProofs`.
4. `RingBuffer`, the byte rings that sleep and wake, with `RingBufferProofs`.
5. `Channel`, and `Selector`, which extends it, with `SelectorProofs`.
6. `LockFreeStack` and `HazardPointerStack`, composed by `LockFreeStacks`, against the
   abstract `Stack`, with `LockFreeStacksProofs`.
7. `SPSCQueue`, `MonitorBuffer`, `DijkstraBuffer`, `SingleBuffer`, `WaitingQueue`,
   `ThreadSafeQueue`, `IteratedChannel`, composed by `Buffers`, against `BoundedFIFO`, with
   `BuffersProofs`.
8. Tasks: `EventLoop`, `ActiveObject`, `GuardedSuspension`, composed by `Tasks`, against
   `BoundedFIFO`, with `TasksProofs`.
9. Messages: `MessageReactor` and `EpollReactor`, composed by `Reactors`, with
   `ReactorsProofs`.

## 3. How the models correspond to the code

**Memory and steps.**  A step is one access to memory that other threads use: an atomic
load, store or CAS, the copy of one word or slot, one semaphore operation.  What runs
with a mutex held is one step when everything it touches is only touched with that
mutex; where the code touches it without (`endSignal`, `stop_flag_`), the mutex is
modelled and the step is split.  Interleavings are sequentially consistent: most
atomics of the repository use the default order, the weaker ones mostly form
release/acquire pairs, and the relaxed count of `producer_consumer_single` is ordered
by the mutex around the ring.  What a weaker order could add is not covered.

**Numbers.**  Indexes of 64 bits are natural numbers: wrapping them takes 2^64
operations.  Where the width matters it is a constant: `Wrap` for the counter of the
SeqLock (32 bits in `seqlock_naive`), `Width` for the unsigned `waitingReceivers`.

**Threads.**  The threads are those of each `main` or test; `calls`, `sent`, `written`
count their loops.  A history variable is marked as such where it is declared.

**Condition variables and semaphores** (`Synchronization`) are external: a set
of sleepers of which a notification removes any one, spurious wake-ups included, and a
counter whose waiters are served in any order.

**Choice of a program.**  Programs that share an algorithm or a promise are told apart
by a variable the first state chooses and no step changes: `variant` (SeqLock),
`sleeps` (ring v1 or v2), `once` (C or C++ readers-writers), `kind` (stacks), `program`
(`Locks`, `Buffers`, `Tasks`, `Reactors`, and the modules they compose).  In these four
suites a program leaves the variables it does not have unchanged, and a property of one
program holds of the others by its first words (`program = "first" => ...`).

| Module | Code | State and actions |
|---|---|---|
| `MPSCQueue` | `mpsc_queue.h` | the three indexes and `buf`; per producer `rw`, `r`; an action per load, CAS, copy of `push` and `pop`, both outcomes of each CAS, and spurious failure of the weak one |
| `SeqLock` | the three `Seqlock.hpp` | counter, words, spin lock; `LoadStart`, `LoadWord`, `LoadCheck`; `StoreEnter`, `StoreBegin`, `StoreWord`, `StoreEnd`, `StoreUnlock`; words are copied in any order |
| `FirstReadersWriters`, `Second...`, `Third...` | the `main.cpp` of each, and `main.c` | one action per semaphore operation and one per group of statements between two of them |
| `RingBuffer` | `RingBuffer_v1.hpp`, `RingBuffer_v2.hpp` (twice) | `local`, `shared`, `shouldSignal`, `sem`; reader and writer run the same actions with their roles exchanged, as in the code; `buffer` holds the number of the message in each unit |
| `Channel`, `Selector` | `channel.tpp`, `channel.hpp`, `selector.hpp`, `selector.cpp`, `main.cpp` | the queue's length, `closed`, `waitingReceivers`, sleepers; `send`, `try_send`, `receive`, `try_receive`, `close`, registration; `select` with its predicate a step at a time, `stop` in two steps |
| `SPSCQueue` | `LockFree/SPSCQueue` | positions, slots, the demo's `done` and its loop with two pops |
| `LockFreeStack` | `CompleteStack`, `SimpleStack` (its push), `AtomicSmartPointerStack`, `AtomicSharedPointerStack` | `head`, `next`; a node is its value, since no address comes back while it can be reached; a null pointer that is followed leads to `"crashed"` |
| `HazardPointerStack` | `HazardPointerStack` | addresses, `alive`, the table of hazard pointers, the retired list; every entry of the table is claimed, stored and looked at in a step of its own; `new` returns any free address |
| `MonitorBuffer` | `producer_consumer_monitor` | ring, mutex, both sets of sleepers, `stop` in three steps |
| `DijkstraBuffer` | `producer_consumer_bounded_buffer` | both semaphores, the queue, a timeout at any time the semaphore is 0; a release above the maximum of its semaphore leads to `"undefined"` |
| `SingleBuffer` | `producer_consumer_single`, `..._single_c` | ring and count, or ring and two semaphores |
| `WaitingQueue` | `simplest_readers_writers` | queue, sleepers, `endSignal` |
| `ThreadSafeQueue` | `MonitorObject/Cpp11`, `Cpp20` | queue, sleepers; a pop of the empty queue leads to `"undefined"` |
| `IteratedChannel` | `producer_consumer_channel_2` | queue, flag, one set of sleepers; `!=`, `*`, `>>` and `<<` in the critical sections of the code, and the notification after each; `GetAgain` and `TakeAgain` are the two ways to be given `value_` once more; `late` counts what is pushed after the close |
| `SpinLocks` | the five `main` of `Spinlock/` | the flag, its sleepers, the counter each program increments in a load and a store; `TestAndSet`, `FoundSet`, `SeenClear`, `Sleep`, `Unlock`, `NotifyOne` |
| `LightweightSemaphore` | `sema.h` | `m_count`, the kernel's `m_sema`; an action per access to either; how long it spins is any number of turns.  The repository has no user of the class: the client guards a counter with it |
| `SeqLockEmulators` | the three emulators and their `main` | who holds the lock, three words copied one by one, the writer's two stores, the readers' loop and `exitFlag` |
| `EventLoop` | the three `event_loop.hpp`, both accounts, the three `main` | both buffers, `m_running`, the sleep; a task is the call that made it; push and notification, swap, run, and the account's load and update are steps; `"library"` is a client of what no `main` calls (`enqueueAsync`, a task that calls `enqueueSync`) |
| `ActiveObject` | `activeObject.cpp` | the activation list, the servant that quits on an empty list, the futures and the two passes of `main` over the results; the sort between them is any sorted permutation |
| `GuardedSuspension` | `bossWorker.cpp` | the promises as sets and flags |
| `MessageReactor` | `Reactor/Cpp11`, `Cpp11queue` | `fresh_msg` with each access to it a step, or `msg_queue`; `handler_map`, the flag, the loop and the rounds of `main`; a use of freed memory or a search of a changing map makes the program `undefined` and stops it |
| `EpollReactor` | `Reactor/Cpp98`, server and client | the poller's list of events and its growth, the handlers, the dispatch one event at a time; the kernel's backlog, descriptors, epoll set and edges are external |
| `SharedResource`, `BoundedFIFO`, `Stack` | none | what the programs promise |

`PROJECT.json` maps every definition to its lines.

## 4. What the runs check

Distinct states are given to show that the bounds are not idle.

- **counters** (`Counters.cfg`, 218 232 states).  `MCCounters` is the sum of the two
  models, one of which the first state chooses.
  *The queue*: two producers with three messages each over two slots, so that the ring is
  lapped and is full and empty.  `IndexOrder`: reads never pass commits, commits never
  pass reservations, reservations never lap the reads; `mpsc_queue.h:17` has the first two
  the other way round.  `SoleProducerFIFO`: as long as one producer has made all
  reservations, pops return its messages in order, whatever the other does.
  `PushedArePopped`: every push is eventually matched by a pop, so no producer spins for
  ever on its commit.
  *The sequence locks*: a reader, two writers (one, for the two variants that allow only
  one), two words, a counter of four values and four stores, so that the counter comes
  round.  `Untorn`: a load returns all words of one store, not older than the last one
  completed when it began, unless the counter went round during it.  `LoadsReturn`: it
  returns once the stores pause.
- **mpsc_committed** (a violation).  With two producers the consumer does read a slot
  that is reserved and not written: a producer whose commit CAS fails retries with the
  index the CAS has put into `rw`, and commits its predecessor's slot.
  `mpsc_queue.h:11` says "Consumer reads only committed slots."
- **locks** (`Locks.cfg`, 192 103 states).  Three readers and two writers, or three
  threads of two rounds each, of thirteen programs.  `Implements`: each is a
  `SharedResource`: who writes is alone, and no increment of the counter is lost.
  `Preference`: in the first readers-writers an open share keeps no reader waiting; in
  the second, from a writer's announcement to the departure of the last one no reader
  gets in; in the third, nobody overtakes the thread that `serviceQueue` let through.
  That is all that holds of the third: its `main.cpp:20` wants `serviceQueue` to be FIFO,
  so that no thread starves (line 1), and `std::binary_semaphore` does not serve in order.
  That the calls of `main`, which are finitely many, all return is what `Termination`
  shows.  `CountsSleepers`:
  every thread in the kernel semaphore of `sema.h` is counted below zero, or has its
  unit, or somebody who is about to post it.  `Current`: a load of an emulator returns
  the last value stored.  `Termination`: all end with all locks free, except that the
  readers of an emulator over a shared lock may keep its writer out by never all being
  outside (`WriterStarved`); `SeqLock/README.md:3` says that writer starvation is avoided.
- **tasks** (`Tasks.cfg`, 106 103 states).  Two clients and main, an active object with
  four requests, a crew of three.  `Implements`: tasks run once each, in the order of
  their enqueuing, whatever batch they land in.  `Serialized`: the account has what the
  tasks that ran made of it, and a thread that has the result of a synchronous call has
  had all its earlier calls run.  `NobodyStartsEarly`.  `Termination`: no wake-up of the
  loop is lost, a task may wait for another, the stop task leaves nothing that was
  enqueued before it; every future of the active object is answered and `main` prints
  each number under its heading.
- **reactors** (`Reactors.cfg`, 496 210 states).  Eleven rounds of `main` with its stop
  and its restart; three connections, two descriptors and a list of one event, so that
  descriptors are used again and run out and the list grows.  `Handled`: messages are
  parsed in order, and one sent after its handler was removed calls nobody.  `Ends`:
  `main` joins its thread unless one of three things the code really allows happens
  first: freed memory is used, the restart's flag overtakes the old loop (`MissedStop`),
  or the queue is empty at the end (`WaitsAtEnd`).  `Dispatches`: the server never
  blocks in `accept` or `read`, although its sockets block, and the assertions of
  `EpollPoller.cpp` hold.  `LeftBehind`: a connection stays in the backlog only if its
  event was merged with another's or no descriptor was free.  `Served`: what arrives on
  an accepted connection is echoed, unless the bits of `ev.events` that were never
  initialised got its registration refused, or made it a one-shot one that an event for
  room to write disarmed before the data came (`Deaf`), or the process was killed by
  `SIGPIPE`.  Deadlock is not
  checked: the server waits when all clients are done, and `main` may wait for ever in
  the cases of `Ends`.
- **ring** (2 543 states).  Seven messages of one or two units, with mixed alignment,
  in a buffer of four: three laps, with messages moved to the start.
  `ReadsWhatWasWritten`; `SemaphoreIsBinary`, which `v2_std_semaphore` depends on;
  `Termination`, that is, no lost wake-up, for messages of at most half the buffer: a
  longer one may wait for ever, and the source states no limit.
- **buffers** (77 465 states).  Two producers, two consumers, two portions each, a
  buffer of two, or one of each with four items.  `Implements`: every program is a FIFO
  of its capacity.  `Delivered`: what is produced is consumed, unless `main` ends the
  program first, and with the exceptions of the defects the code has: both consumers of
  the Dijkstra buffer gave up, or its count of portions, which keeps what was taken after
  a timeout, passed the maximum of its semaphore (`ReleaseUndefined`); a pop of an empty
  `ThreadSafeQueue`; a producer and a consumer of `IteratedChannel` asleep at once, after
  which everybody may sleep until the close.  `StopReaches`: a thread asleep when `stop()`
  sets its flag returns; after `close()` all do, when everything pushed before it has been
  taken, and at most one element of each producer has followed it.  A thread in the gap
  between its predicate and its sleep is not reached by `stop()`.  That all producers of
  the channel return takes a buffer with room for one element of each, as `main` has.
  Deadlock is not checked: these programs end, and the Dijkstra buffer can block its
  producers for ever when both consumers have given up.
  The demo's loop `while (!done || queue.pop(value))` (`SPSCQueue/main.cpp:162`) pops an
  item which its body overwrites with the next, so what is popped there is not counted
  as received; the queue itself loses nothing.
- **get_finds_element** (`BuffersMonitorObject.cfg`, a violation).  `get()` waits in one
  critical section and takes in the next: two consumers are let through for one element,
  and the second takes from an empty queue (`MonitorObject/README.md:5` says "at most one
  member function can run at any moment in time").
- **stacks** (289 642 states up to symmetry).  One pusher and two poppers, three calls
  each; three addresses; a table of one or two hazard pointers, so that it runs out.
  This includes the classical ABA: a node is popped, deleted, and pushed again at the
  same address on top of another one while a popper is about to follow it.
  `Implements`: all programs are stacks.  `NeverInUse`: no node is deleted that another
  thread has seen `head` point to after its hazard pointer did.  `NoLeak`: in the end
  every node not deleted is in the stack or retired, in one place.  Addresses and
  poppers are symmetric, and no property here is a liveness property.
- **channel** (390 432 states).  Two producers that call `send` or `try_send`, two
  consumers and a selector, capacity 0 or 1.  `NoIdle`: no thread sleeps next to a value
  or a place that no woken thread is coming for. `Drained`: closing empties it and lets
  everybody return.  `SelectReturns`: once its channel is closed `select()` returns,
  whatever others take from it meanwhile, unless it was between its predicate and its
  sleep when the close notified it.
- **channel_rendezvous** (a violation).  Both sides of an unbuffered exchange decrement
  `waitingReceivers`; it wraps, and `send` no longer waits for a receiver
  (`channel.hpp:41` says it does).
- **selector_stop** (a violation).  `stop()` can fall between the predicate and the
  sleep of `select()`, which then does not return (`selector.hpp:71` says it does).

The violations are findings in `PROJECT.json`.  Others need no run of their own, because
a passing run takes the steps that show them and its properties say what holds all the
same: the order of the indexes (`counters`); the count of portions, the element after
`close()` and the element returned twice (`buffers`); the null head of an empty stack,
which is dereferenced where an exception was meant, `CompleteStack/main.cpp:32`
(`stacks`: `Implements` shows that the stack is empty then); the restart that never joins,
`Reactor/Cpp11/reactor.cpp:60` (`reactors`, `MissedStop`); the service queue and the starved
writer (`locks`).

Every property of a passing run has a mutant in `PROJECT.json`: a definition changed as
a plausible bug would change it, under which TLC finds the property violated.  The
mutated forms stand next to the definitions, under a comment that says what is wrong
with them.

**Why the bounds are enough.**  The programs treat their threads alike and their values
not at all, except for moving them.  Two threads of a kind are what it takes for one to
overtake another; the buffers are small enough to be full, empty and lapped within the
items each run has; the counters wrap.

## 5. Fairness

Weak fairness of each thread: one that can take a step is eventually scheduled.  The
programs rely on it wherever they spin or join.  Nothing is assumed of the order in
which semaphores and condition variables choose among their waiters, nor that timeouts,
spurious wake-ups or `stop()` happen; a `stop()` or `close()` that has begun goes on. In
`MPSCQueue` a weak CAS that finds its expected value does not fail spuriously for ever.
In `Buffers` the threads with a mutex have strong fairness: a mutex that is released
again and again is eventually obtained, which every implementation of `std::mutex` under
a fair scheduler gives.  In `Locks` the writer of an emulator has strong fairness for
the same reason (a lock it finds free again and again it gets), because its readers do
not end by themselves; it is not assumed that the lock is ever free.  In `Reactors`
nothing is assumed of the clients and the network.  In `SeqLock` the number of stores is
bounded, which is what the `LoadsReturn` of a lock-free reader needs.

## 6. What is proved

For every value of the constants that satisfies the named assumptions of the modules,
which are no more than the programs have: finite sets of threads, a buffer of at least
one place, messages that fit in the byte ring with alignments that divide its size, at least one call, message, writer or
event where a `main` has one, a null pointer that is no address.  Each inductive
invariant was first checked by TLC as an invariant of the run of its module; the proofs
then take it apart, one step for each action.  The prover cannot use the induction
theorems of its library, whose predicate is a parameter.  Where a proof needs one (the
ends of the messages of a ring, the sum of an account, the nodes of a list), it argues by
the smallest counterexample, which the well-foundedness of the naturals gives, over a set
of numbers in place of a predicate.

- **`CountersProofs`**, of the queue: `TypeCorrect`, `IndexOrderHolds` and
  `SoleProducerHolds`.
  `IndexOrder` is not inductive: that a commit never passes the reservations needs
  `reserveWriteIndex - commitWriteIndex = Cardinality(Pending)`, every uncommitted
  reservation belongs to one producer, and the values the threads have loaded and not
  used yet are bounded by the indexes.  `IndexInv` adds both, and the lemmas
  `PendingGrows`, `PendingShrinks` and `PendingKept` follow the cardinality.  So the
  defect that `mpsc_committed` shows is one of who commits, never of how much.
  `SoleInv` says why one producer alone is safe: it commits the slot it has reserved, and
  the slots from `readIndex` to its commit hold its messages by their number.
  Of the sequence locks: `SeqTypesHold` and `UntornHolds`, for every set of words, every
  even counter range and every number of stores.  The invariant is `WriterInv` (one writer at
  a time, and the parity of the counter says whether it is copying) with `ReaderInv`
  (while the counter has not moved since a load began, what it has copied is the current
  value; while it has not come round, the load can tell).
- **`RingBufferProofs`**: `TypeCorrect`, `BinarySemaphores`, `NobodyForgotten` and
  `ReadsCorrect`, for every size and every sequence of messages that each fit in the ring,
  with alignments that divide its size; messages longer than half the ring, which may wait
  for ever, are included.  The
  layout of all messages is fixed beforehand by their lengths (`IsLayout`, lap and
  position of the end of each), and both sides compute it independently: `PlaceInv` says
  where in it a side is, `SpaceInv` that what it may use is its to use, `ContentsInv` that
  a message between writer and reader is whole.  A wrapped lap is unfolded by the
  distance from the start of the first (`Abs`).  `SignalInv` counts the request of a
  side, the signal on its way and the unit in its semaphore: together at most one, and
  one exactly while the side has asked.
- **`LocksProofs`**: `TypesHold`, `PreferenceHolds`, `SleepersCounted`, `LoadsAreCurrent`,
  `ImplementsShared` (`Spec => SharedResource!Spec` under the mapping of `Locks`) and
  `WritesAlone`, which follows from it.  The invariants of the three readers-writers
  programs name, for each semaphore, the steps at which a thread holds it, and say that
  each counter is the cardinality of the threads at the steps between its increment and
  its decrement (`FirstInv`, `SecondInv`, `ThirdInv`); the semaphore the readers share is
  held while that set is not empty.  `SpinInv`, `SemaInv` and `EmulatorInv` do the same
  for the other locks; `SemaUnit` is the balance of `m_count`, the units in the kernel
  semaphore, the sleepers and the posts on their way.
- **`SelectorProofs`**: `SelectorTypes` and `NobodyIdles`, for any number of producers and
  consumers and any capacity.  `NoIdle` compares what is in the queue with the sleepers
  that have been woken for it; it is inductive together with `Sleepers`: who sleeps is in
  a wait, nobody sleeps on a closed channel.
- **`LockFreeStacksProofs`**: `TypesHold` and `ImplementsStack` for all four stacks,
  `NeverInUseHolds` and `NoLeakHolds` for the one with hazard pointers, for any number of
  threads, calls, addresses and hazard pointers.  A node is in
  one place (`HazardPlaces`: new, popped, retired, or in the list of one sweep), the others
  form a chain in which no node is below two (`HazardChain`), and a popper that has
  validated its hazard pointer is protected (`Protected`): a thread that is looking for
  that node among the hazard pointers has not come to that slot yet, because the node
  was still in the stack when the pointer was set.  So a search that has come to the end
  without a hit has met no follower, an address that was used again included.
  The contents of a stack are the linked list from `head` on (`List`, in `StackThreads`).
  `ListAgrees` and `ListIs` show that there is one such list at most, by induction over
  its positions; `StackHolds` says that there is one, and that its nodes are the nodes
  `HazardChain` knows.  So a push puts one node before that list and a pop takes its
  first (`ListPushed`, `ListPopped`), and a write to a node outside leaves it alone
  (`ListKept`); that the node a popper read as the next one is still the next one when
  its CAS succeeds is what `Protected` gives, ABA included.
- **`BuffersProofs`**: `TypesHold` and `ImplementsFIFO`, for any number of producers,
  consumers and items and any size.  Each program has an invariant of its own
  (`MonitorInv` to `IteratedInv`), and a lemma that a step of it keeps the invariant and
  pushes, pops, or changes neither (`Moves`); `BuffersInv` puts them together.  The rings
  share the lemmas of the first section, which are about a buffer, a head and a length,
  whatever program they belong to: writing the slot behind the elements leaves them
  alone, counting it appends, moving the head takes the first.  What differs is how a
  program knows the length.  The monitor counts it.  `SingleControl` says why the two
  counts of the program for one producer and one consumer suffice: the slot the producer
  has claimed is not counted, the one the consumer has read still is, or has been
  acquired before it is read.  The lock-free queue has two positions only, whose distance
  is the length because one slot stays free (`DistanceOf`); its element leaves the
  abstract queue when its slot is read, a step before the position moves (`SeenRing`).
  For the Dijkstra buffer, the empty places, the elements and the threads between
  acquiring and releasing add up to the size (`Holding`), which bounds
  `numberEmptyPositions` although the consumer ignores the result of a timed acquire.  It
  does not bound `numberQueueingPortions`: the release that would pass its maximum is
  reachable, and is a state of its own (`"undefined"`).  The two queues without a
  limit hold no more than the portions made so far (`Upto`).
- **`TasksProofs`**: `TypesHold`, `AccessIsSerialized`, `NobodyStarts` and
  `ImplementsFIFO`, for any number of clients, events, requests and workers.  The
  invariant of the event loops is about the one sequence `ran \o readBuffer \o
  m_writeBuffer`: it has every task that a thread has enqueued, once, and those of a
  thread in the order of its calls (`LoopOrder`); the bound of the FIFO is then the number
  of tasks, by a lemma on sequences without repetition.
- **`ReactorsProofs`**: `TypesHold`, `HandledHolds`, `DispatchesHolds` and
  `LeftBehindHolds`, for any number of rounds, connections, descriptors and events.  For
  the threads: the handler of a message to user 256 is removed before main sends it and
  none is registered later (`Removed`); what main has made is newer than all the loop has
  (`Slot`); the queue holds the messages with the last numbers, the one before them is
  being parsed or was the last one parsed (`Queue`), from which the suffix that `Handled`
  names is computed.  For the server: a connection is in one place, the backlog or one
  descriptor (`Connected`); a descriptor has one event at most and its handler stays
  (`Polled`); so the dispatch of one event cannot take away what another was reported for
  (`Found`).  The attempt showed that the kind of an event had been written as a `CASE`
  with overlapping guards, which TLC reads from left to right and the semantics does not;
  it is an `IF` now.

**Only model-checked.**  What needs fairness is beyond the prover: `PushedArePopped`,
`LoadsReturn`, `Delivered`, `StopReaches`, `Drained`, `SelectReturns`, `Ends`, `Served` and
the three properties named `Termination`.  Every invariant, every action property and
every refinement that a passing run checks is proved as well.

## 7. What is not modelled

- `Reactor/Poco`: the protocol is inside a library that is not in the repository.
- `OpenMP`: the compiler generates the parallelism from one directive per loop; what is
  shared is a reduction or one critical section.
- `StrategizedLocking`, `ScopedLocking`, `ThreadSafeInterface`,
  `ThreadSpecificStorage`, `CopiedValue`, `Future`: one mutex, one atomic addition or
  one future, and no protocol beyond what the language gives.
- The benchmarks, which time copies of the locks and stacks.
- Of `Reactor/Cpp98`, `removeHander` and the destructors, which nothing calls; of
  `spinlock_atomic_bool`, `try_lock`, which nothing calls.
- Within modelled parts: printing, sleeping for a time, and the mutexes that order it,
  memory orders weaker than sequential consistency, and the values where a program only
  moves them.
