# A TLA+ model of cpp_many_tasks_2

The repository is a collection of concurrent C++ components: an executor of
tasks, locks, channels and queues, lock-free structures with hazard pointers, a
fiber library (`tools/cactus`) with small network programs on top of it, and a few
sequential exercises.  This directory models them in TLA+, checks the models with TLC on small instances
and proves what matters most with TLAPS.

## Inventory

| component | state | operations | interacts through | what is hard | what makes it correct |
|---|---|---|---|---|---|
| `executor/executor` | task states, counters, lists of dependents; two queues; worker and timer threads | AddDependency, AddTrigger, SetTimeTrigger, Submit, Cancel, Wait, StartShutdown, WaitShutdown, destructor, the Future combinators | tasks call each other's members under `edit_task_`; tasks push into the queue they know by a weak pointer | Submit racing with the end of the last dependency, Cancel with Run, Close with Push; locks held over calls; deadlines | a task runs at most once, not before its condition, and is not forgotten; shutdown ends |
| `futex/mutex.h` | one word, sleepers in the kernel | Lock, Unlock | FUTEX_WAIT/WAKE | the word is written twice by Unlock; spurious returns | exclusion, no lost wake-up |
| `spinlock`, `rw-spinlock` | one word | Lock..., Unlock... | compare-and-swap | stale words | one holder; many readers or one writer |
| `rw-lock` | four counters, two condition variables | Read, Write | mutex, notify | who is woken by whom | many readers or one writer, nobody left asleep |
| `semaphore` | counter, ticket dispenser | Acquire, Release | mutex, notify_all | turn and counter change separately | at most N inside, in order of call, all get in |
| `buffered-channel` | bounded FIFO, closed flag | Send, Recv, Close | two condition variables; Close without the mutex | lost wake-ups | every value delivered once and in order; the end reported after the last value |
| `unbuffered-channel` | queue of waiting senders | Send, Recv, Close | a condition variable per sender | Close racing with a delivery | Send succeeds exactly when its value was received |
| `timerqueue` | map from time to value | Add, Pop | condition variable with timeout | the timeout is computed once | nothing is returned before its time |
| `fast-queue` | ring with generations, head, tail | Enqueue, Dequeue | atomics only | claims and accesses are separate steps | slots are exclusive, FIFO |
| `rw-counter` | a vector of counters and their number | GetIncrementer, Increment, GetValue | a mutex for the vector only | GetValue races with a registration | the sum lies between the increments before and after the call |
| `mpsc-queue`, `lock-free-stack` | a list of nodes | Push, Pop, DequeueAll/Clear | compare-and-swap | ABA, retries with a stale next | the list changes as a stack does |
| `hazard-ptr` | a hazard per thread, the retired list, the scan | Acquire, Release, Retire, ScanFreeList, (Un)RegisterThread | atomics, `scan_lock`, `threads_lock` | a pointer published while a scan collects | no use after free, nothing retired is forgotten |
| `sync-map` | snapshot, mutable map, count of slow look-ups | Lookup, Insert | hazard pointers, one mutex | the snapshot is replaced between the read and the lock | look-ups answer as the map was during the call |
| `hash-table` | lists, stripes, size | Insert, Erase, Find, At, Clear, Rehash | striped mutexes | locks of all stripes, keys that move | every key is found, nobody waits in a circle |
| `reduce`, `is-prime`, `subset-sum` | shares, a stop flag, results | one call | threads, one flag | boundaries of shares, races for the flag | the result is the sequential one |
| `coroutine` | a heap of waiting coroutines | AddTask, resumption | one thread | age against time of waking | woken in order, none lost |
| `tools/cactus/core`, `internal`, `sync` | run queue, fibers, timers, groups, wait queues | Park, Unpark, Cancel, timeouts, Join, Wait, Lock, Notify | one thread, control passes at Park | a wake-up, a cancellation and a timeout at once; destructors that park | no lost wake-up, cancellation reaches the fiber, groups end empty |
| `tools/cactus/net` | descriptor slots, sockets | Read, Write, Dial, Accept, Close, Poll | edge-triggered epoll | descriptors recycled while fibers wait | the event reaches the fiber that waits for it |
| `tools/cactus/io` | buffers | ReadNext, ReadBackUp, ReadString, Write, Flush | one stream | what is given back, limits, full buffers | bytes arrive whole and in order |
| `tools/cactus/rpc` | one connection per call | CallMethod, Serve | streams | lost connections, a silent caller | a call that returns was executed once |
| `redis` | storage, reader's buffer | the commands, the request loop, the client | cactus | views of a buffer that is reused, limits of integers | the reply is the storage's answer to that command |
| `balancer` | peers with loads, a mutex | SetBackends, MakeConnection | cactus | dials under the mutex, lists replaced meanwhile | a connection goes to a least loaded live peer, loads count connections |
| `socks4`, `socksd` | links of a chain | handshake, relay | cactus | refusals in the middle | the client reaches whom it asked for, or learns of the failure |
| `portscan`, `portknock`, `fanout` | results per port or token | dial, send, collect | cactus, groups | partial failure, cancellation | every port reported, no part missing from the sum |
| `matrix-3.0` | the stack of loops, matrices | tokens, expressions, lines | - | nesting, signs, precedence | the matrix does what the program does |
| `clang-fun` checker | statistics per file | visits of declarations | clang | patterns, word boundaries, near words | exactly the wrong names and words are reported |
| `matrix-2.0`, `ranges`, `sfinae`, `concepts`, `compile-eval`, `constexpr-map`, `range-sum`, `jpeg-decoder` | none | pure functions, templates | - | - | outside the scope of a state-based model |

`PROJECT.json` lists the components with their status, and the hazards with the
properties that watch over them.

## Modules

| module | models |
|---|---|
| `Executor` | `executor.cpp`, `executor.h`: tasks, queues, workers, timer thread, clients |
| `AbstractLock`, `AbstractRWLock` | what a lock and a readers-writer lock promise |
| `FutexMutex`, `SpinLock` | `futex/mutex.h`, `spinlock/spinlock.h`; both implement `AbstractLock` |
| `RWSpinLock`, `RWLock` | `rw-spinlock/rw_spinlock.h`, `rw-lock/rw_lock.h`; both implement `AbstractRWLock` |
| `Semaphore` | `semaphore/semaphore.h` |
| `BufferedChannel`, `UnbufferedChannel` | the two channels |
| `TimerQueue` | `timerqueue/timerqueue.h` |
| `MPMCQueue` | `fast-queue/mpmc.h` |
| `HazardPtr` | `hazard-ptr/hazard_ptr.{h,cpp}`, the steps of the library; `Stack` and `SyncMap` extend it |
| `Stack`, `MPSCQueue` | `lock-free-stack/stack.h`, `mpsc-queue/mpsc_queue.h`; both implement `AbstractStack` |
| `AbstractStack` | what a stack promises |
| `SyncMap`, `HashMap`, `RWCounter` | `sync-map/sync_map.h`, `hash-table/concurrent_hash_map.h`, `rw-counter/rw_counter.h` |
| `Parallel` | `is_prime.cpp`, `find_subsets.cpp`, `reduce.h` |
| `Programs`, `Names` | the interpreter of `matrix-3.0`, the checker of `clang-fun` |
| `Fibers`, `TimerHeap` | `tools/cactus/core`, `internal`, `sync` |
| `Net`, `Streams` | `tools/cactus/net` and `io` |
| `Rpc`, `Redis`, `Balancer`, `Socks`, `Clients` | the programs on cactus (`Clients`: fanout, portscan, portknock) |
| `Coroutine` | `coroutine/coroutine.h` |
| `Structures` | puts stack, queue, maps, counter and the data-parallel algorithms together, for `MCStructures` and for the proofs |
| `Locks_proofs`, `Queues_proofs` | the theorems about the locks, the semaphore and the unbuffered channel; about the ring, the buffered channel and the timer queue |
| `Executor_proofs`, `Stack_proofs`, `Structures_proofs` | the theorems about `Executor`, about `Stack`, and about the rest of `Structures` |
| `Cactus_proofs`, `Network_proofs`, `Answers_proofs` | the theorems about balancer, fibers, timers and coroutines; about sockets and streams; about the programs on them |
| `MCExecutor`, `MCLocks`, `MCQueues`, `MCStructures`, `MCCactus` | instances for TLC |

**Granularity.**  A step is one atomic access, one system call, or one critical
section that makes no call out of it.  A critical section under a mutex is one
step (nobody can look in between); where a lock is kept over calls - `OnFinished`
holds `edit_task_` while it enqueues dependents, `Close` holds `edit_queue_`
while it cancels - the lock is explicit and every call is a step of its own.
Condition variables are the state "asleep"; a notification moves one or all
sleepers to "woken", from where they test their predicate again.  Spurious
wake-ups are actions; in `Executor` they are left out, since a thread that wakes
there for nothing tests its predicate and sleeps again without touching anything.
Memory is sequentially consistent: the acquire/release orders of `mutex.h` and
`mpmc.h` are taken to be sufficient.

**Executor.**  `state`, `cnt`, `activated`, `timed`, `depended`, `triggered` are
the fields of `Task`.  `pc`, `arg`, `stk` and `ret` are a thread's call stack:
`stk[x]` are the tasks whose `OnFinished`, and so whose `edit_task_`, thread `x`
is in; `arg[x]` is the task of the innermost call.  Dependents are handled one at
a time, and `TryToEnque` (a read of the state, a read of the conditions, a
compare-and-swap) is one step, because readiness of a submitted task is never
taken back and the swap repeats the test of the state.  `Init` has fresh tasks;
clients and the bodies of running tasks build, submit and cancel them in any
order that the role constants `Owner`, `Canceller`, `Closer`, `Waiter` allow.  The
combinators `Invoke`, `Then`, `WhenAll`, `WhenFirst` and `WhenAllBeforeDeadline`
are sequences of these actions.  The clock `now` is external.  Tasks are held by those
who built them, so that no weak pointer to a task has expired when `OnFinished` follows
it.  The Executor may be destroyed while a client is inside `Cancel`, which uses none of
its members; but `Enque` is one step, so that it does not go between `queue_.expired()`
and `queue_.lock()` two lines on, where the code would follow a null pointer.

**Futex mutex.**  The word and the next instruction of every thread.  The futex
compares and sleeps in one step, as the kernel guarantees, and may return early.

**Ring.**  Loads of `tail_`/`head_`, loads of the generation, compare-and-swaps
(which may fail without a reason), the plain access to the value and the final
`fetch_add` are steps of their own.  `put` and `got` record the values per position.

**Hazard pointers.**  `HazardPtr` has the steps of the library and no users of its
own; a caller enters them by setting its program counter.  `ptr` is the protected
atomic: `head_` of the stack, `snapshot_` of the map.  `live` is the set of nodes
that are allocated; a node deleted may be allocated again, so that an exchange may
meet an old address.  The retired list is a set: its order decides nothing.

**Structures.**  Each atomic access is a step; a weak exchange that fails for no reason
reloads what it failed on.  In `SyncMap` and `HashMap` what a mutex protects changes in
one step, but taking the stripes one after the other is a step each.  A read of the
counters' vector while it moves is a data race: `RWCounter` gives it an undefined
result.  `Parallel` interleaves the threads at their accesses to the shared flag.
`ThreadsAgree` compares what they find together with what one loop over the whole interval
finds: a divisor, each element and the `init` of Reduce once, a choice of numbers that fits the map of sums; and
it demands that only the thread that raised the flag writes the answer (`OnePublishes`).
`ComputationsAgree` compares the answer of FindEqualSumSubsets with a definition that tries
every pair of subsets, and so is about the arithmetic of the sums as well; it speaks of the
data, programs and names of the instance and of no others.

**Fibers.**  Only one fiber runs, and only Park gives control away, so `Fibers` has a
`this_fiber`, and the hard part is what reaches a parked fiber before it runs again: an
Unpark of whoever it waits for, a cancellation, a time-out, in any order and number.
The users are arbitrary: any fiber sleeps, locks, waits, opens guards, throws or
returns.  The loops of `NotifyAll` and of `~Group` take a step per turn, which nothing
can interrupt.  `TimerHeap` is the binary heap by itself; `Fibers` uses a set of timers.

**Net and the programs on it.**  A socket is a level (data, room, end of file) and an
edge the kernel reports once.  The programs are modelled above the level of bytes, one
message or piece at a time, with every dial, read and write able to fail, those of the
relays of `socksd` too; `Streams` is what is below, with numbered bytes.  What a redis
client is told is compared with the last text any client wrote to the key; an RPC request
is one of six kinds, among them the unknown service, the missing method and the parts that
do not parse.  One fiber reads from a socket and one writes to it,
as all callers in the repository do (`FDWatcher::Wait` checks it).

**Texts.**  `Programs` works on tokens and runs of spaces and on linear combinations over
the variables modulo `Mod`, and compares the matrix with running the program line by
line; `Names` works on letters, and compares the patterns and the split into words with
a plain definition of them, and the near words with the edit distance.

**MC modules.**  `MCLocks`, `MCQueues`, `MCStructures` and `MCCactus` put several
independent components into one state space; the variable `which`, fixed in the initial
state, says which of them moves.  The properties of the others are then true of a
component at rest, so nothing is weakened: for every component all behaviours are
explored.

## Runs

| run | question | instance |
|---|---|---|
| `executor_tasks` | is a task run twice, early, or forgotten; does a finished task come back | 3 tasks, c waits for a and b, b triggered by a; two clients and the task's own body build and submit, one client cancels |
| `executor_shutdown` | are deadlines kept, can threads interlock, do late tasks stay waiting, does shutdown end | 2 tasks, one with a dependency and a deadline; one client submits, one shuts down; clock to 2 |
| `executor_live` | are due tasks finished, does Wait return | the same without a shutdown, with a waiting client |
| `locks` | do the locks implement their specifications; are wake-ups lost; does everybody get on | 4 threads; readers-writer lock: 5 readers and 2 writers, one of whom does both; semaphore of 2 with 5 tickets; channel with 3 senders, 2 receivers |
| `queues` | is the ring exclusive, FIFO and exact; does the channel lose wake-ups or values; does the timer queue return early | ring of 2 with 4 positions (two laps), 2 producers and 2 consumers; channel of 2 with 3 senders, 2 receivers; 2 consumers of the timer queue, 3 items, clock to 3, a patience of 2 |
| `structures` | is a deleted node touched or a retired one lost; do operations of stack, list and map act at one moment; are keys lost or threads locked out by a rehash; is the sum of the counter right; do the algorithms, the interpreter and the checker compute what they should | stack: 2 threads, 2 nodes, 5 calls, a scan at every retirement; map: 3 snapshots, 2 keys, 4 calls; list: 2 producers, 4 pushes; hash map: 4 keys, 6 calls, 2 stripes, a table of 2 lists that doubles; counter: 3 writers of 2 increments, a read; algorithms: 2 threads, data of up to 4 values in -1..2; programs of up to 3 lines, expressions of up to 4 tokens and some longer ones; names of up to 5 letters |
| `cactus` | is a fiber forgotten, or used when dead; do time-outs strike later Parks; do events reach the fibers that wait; are bytes and timers in order; are loads balanced; are answers those of the request | 3 fibers, 6 operations, clock to 1; 2 sockets, 2 descriptor slots, 4 openings; 5 bytes, two of them delimiters, through buffers of 4 and 2; 6 timers with 3 deadlines; 3 connections, 2 backends, 2 lists; 2 clients, 1 key, 2 commands, integers to 1; a chain of 2 proxies; 3 tokens or ports; 3 coroutines that wait for any moment up to 2, past ones too |
| `executor_cancel`, `executor_cycle`, `semaphore_room`, `channel_close`, `timerqueue_empty` | violations, see below | |

The bounds are the smallest in which the interesting cases meet: two laps of the
ring are what an off-by-one in the generations needs; three tasks what a task
with two ways to be enqueued needs; two more threads than the semaphore admits
what an overtaken waiter needs; a `Patience` below the last time what the 10 s of
the timer queue need, and a second consumer what the loss of the awaited element needs.
With four readers asleep, one writer asleep and one leaving, `EndWrite` of the
readers-writer lock prefers the readers and leaves a writer behind, which takes six threads;
the fifth reader is one of the writers.  Two nodes are enough for a node to be deleted, allocated and
pushed again under a slow popper; a threshold of 0 retired nodes makes scans meet; the
third snapshot is the one that replaces the replacement of what a look-up holds; six
hash-map calls fill, double and clear the table under an insert; six timers make a heap
in which the one moved on removal may have to rise; three connections make a second
choice depend on a load that is about to be released; one integer above 0 reaches the
limit of the storage in both directions.  The run `structures` uses the symmetry of threads, keys,
snapshots and producers; it checks safety only.  Every property has a mutant of the code that breaks it
under the same configuration.

**Fairness.**  Threads that are inside an operation, workers and the timer thread
get on when they can (weak fairness: the operating system schedules every
runnable thread, and none of the modelled steps is disabled and enabled again by
others for ever, except where a lock is contended: newcomers may overtake there for as long
as they come, and so what is claimed of a single thread that waits for the futex mutex or
the readers-writer lock is that it gets through when the calls stop, and nothing is claimed of
the spin locks).  Bodies of tasks and critical sections end.
Time passes.  Nothing is assumed of what clients decide to do, and nothing of
spurious wake-ups.

Deadlock checking is off in all configurations: clients may stop calling, so that
every system here may come to rest.  That nobody is left asleep is what the
invariants (`NoLostWakeup`, `NoIdleSleeper`, `SendersAreServed`, `NoLockCycle`,
`NobodyStuck`, `NobodyForgotten`, `EventsReachWaiters`) and the liveness properties say
instead.

## What the code does otherwise than its documentation says

Each of these is a run that TLC ends with a violation:

* `executor_cancel`: a task canceled between the worker's `IsCanceled` and `Run` is
  run all the same (`executor.cpp:19`, against `executor/readme.md:100-101`).
* `executor_cycle`: `Close` holds `edit_queue_` and wants `edit_task_` of a queued
  task, while a `Cancel` of that task holds `edit_task_` and wants `edit_queue_` to
  push a dependent (`executor.cpp:269`, `:244`).
* `semaphore_room`: the turn moves on without a notification; after two releases a
  waiter may sleep on with room and its turn (`semaphore.h:17`).
* `channel_close`: `Close` does not take the mutex, so that its notification may fall
  between a test of the predicate and the sleep (`buffered_channel.h:57`).
* `timerqueue_empty`: `Pop` takes the front of an empty map after 10 s on an empty queue,
  or sooner when another consumer takes the element it waits for (`timerqueue.h:32`).

Further contradictions of a document, which have no run of their own because the models
have the code's behaviour as a named case:

* `balancer/readme.md:7-8` counts the open connections of each backend; `SetBackends`
  starts all loads at 0, whatever old connections go on (`BalancesLoad` counts per `Peer`).
* `transport/readme.md:40-42` wants an `RpcError` for an invalid request or a missing
  method.  `rpc.cpp:77` follows a null pointer for a missing method and the program ends; a
  body that does not parse is served all the same (`CallsAnswered` names both).

`coroutine/readme.md:70`, a pause until a past moment, is modelled and holds.  Limits a
reader should know; the properties name them as exceptions or the models as assumptions:

* hazard pointers: a scan that finds `scan_lock` taken has already set the size to 0 and
  gives up; what was retired by then waits for the next scan, if there is one
  (`NothingLeaked` allows this and nothing else).
* `rw-counter`: a `GetValue` that overlaps a registration may read the vector while it
  moves; `SumIsCurrent` speaks of the others.
* `WaitGroup::Wait` may return before a fiber is done that a non-member spawned between
  the end of the last fiber and the waiter's turn; spawns are left to members.
* a time-out that comes under a `FiberCancelGuard` is thrown by a later Park; a second
  `Wait` on one side of an `FDWatcher` is a failed check.  An `FDWatcher::Init` that fails
  leaves `desc_` set, so that the check in its destructor fails too; in `Net` such a socket is
  gone at once.
* `ReadString` asks for another chunk when the limit falls on the end of one.
  `BufferedWriter::Write` of two buffers or more calls itself without end: the run reaches
  this, and `BytesInOrder` says that it happens there and nowhere else.
  `BufferedWriteCloser::Close` does not flush.
* redis: a text such as `07` is stored as the integer 7; a command that is refused ends
  the connection without an Error reply; INCR or DECR of a missing key stores 0 before it
  may fail.
* `socksd` goes on behind the catch block after a refusal and fails when it writes 90 to
  the closed side.  A relay that fails ends its direction without `CloseWrite`; what was
  under way is lost, and both connections close when the other direction has ended too.
* `portscan` takes a cancellation for a closed port.
* rpc: `CallMethod` replaces the server's message by "Connection error"; the server
  serves one connection at a time, so that a silent caller holds up the others; a failed
  error reply ends `Serve`.
* `is-prime` keeps its flag in a global: one caller at a time.
* `matrix-3.0` takes a missing operand for zero (`x =`), and refuses an indented line
  that is empty; 64-bit overflow is taken to wrap.
* the checker of names keeps its results by base name: two files with the same one
  overwrite each other.

The modules also state what a reader may expect and the code does not give; no run checks
these, and TLC finds each violated when it is asked: a task submitted after
`StartShutdown` that has dependencies waits for them instead of being canceled at
once (`Executor!LateSubmitCanceled`); a push that tested `closed_` before `Close` may be left
in the queue when all threads have gone (`NothingStranded`); `Dequeue` may fail
while a later position is filled, behind a slow producer (`MPMCQueue!FailsOnlyIfEmpty`);
the timer queue returns an element early after the 10 s, or when another consumer took the
one it waited for (`TimerQueue!NeverEarly`),
drops a second element with the same time (`AddKeepsAll`) and does not wake
earlier for an element added later (`WakesInTime`).

## Proofs

Every theorem is for all values of the constants that satisfy the named assumptions of
the model; TLC evaluates these assumptions on the instances above.  A property `P` of a
run is not inductive by itself, so each module states an invariant that is (`IInv`, or
one per component), proves that `Init` gives it and every step of every action keeps it,
and takes `P` from it.

`Locks_proofs`, the futex mutex, for every set of threads.  Mutual exclusion is not
inductive: a locker takes the mutex when it reads 0, so the invariant `IInv` adds that the
word is 0 exactly when nobody owns the mutex, where a contended unlocker owns it
until its `store(0)`.  With `NoLostWakeup` (while somebody sleeps, the word is 2, or
an unlocker has still to wake, or a thread is about to write 2) it is inductive,
and gives exclusion, the absence of lost wake-ups, and that the mutex implements
`AbstractLock`.

`Queues_proofs`, the ring, for every size, every set of producers and consumers, and any
number of laps.
The arithmetic is in one lemma, `SameSlot`: positions that share a slot are a whole
lap apart.  `IInv` says that a generation is a position of its slot or the one
after it (`Shape`), never ahead of the positions still to be claimed (`Behind`),
that local indices are old but never ahead (`Stale`), that whoever is about to
claim the present position still finds its slot ready (`Ready`), and that the
slot of a claimed position keeps its generation (`Claimed`).  Two threads in one
slot would have to agree on its generation, and positions of one slot that differ
by at most 1 are equal: `NoSharedSlot`.  `Occupancy` adds that each position of
the present lap is filled, free or in somebody's hands, from which the tests for
full and empty are exact at rest.  `Data` adds where each value is, from which the
order follows.  The only assumptions are those of `QueueConstants`: the size is a
power of two, at least 2, and producers and consumers are different threads.

`Executor_proofs`, for every finite set of tasks, every set of threads, any graph of
dependencies and triggers and any deadlines (`ExecutorConstants`).  At-most-once
(`AtMostOneRun`) rests on `OnePermission`: between the swap that makes a task Enqueued
and its `Run` there is exactly one place - a thread that enqueues it, the queue, or a
worker - that holds the right to run it.  That a task starts only when due
(`OnlyWhenDue`) needs the counter of unfinished dependencies to be exact while
`OnFinished` walks through the list of dependents (`Counted`, `Walked`: a dependent
not yet visited by the walk is still counted), and that nothing gets into a queue
before its condition holds (`OnTime`, `Justified`).  `NoneForgotten` and
`LateOnesCanceled` add who still has to look at a task that became ready (`LateOnes`).
`FinishedStays` is the action property, from the same invariant.

`Stack_proofs`, for every set of threads, every finite set of nodes, any threshold and
number of calls (`StackConstants`).  The allocated nodes are divided exactly among their
owners (`Ownership`: the list, a pusher, a popper that has unlinked one, a walk of Clear,
the retired ones, a scan).  That the list is a list is stated without recursion: a sequence enumerates its
nodes once each, and `next` leads from each to the one after it (`Path`, `List`).
`Protection` is the argument of hazard pointers: a pointer that is published and then
found again in `head_` was not retired at that moment, so that every scan that collects
pointers afterwards sees it, and a scan already running cannot have it among its own.
`Draining` says who will still scan when the last threads unregister.  From these: no freed
node is touched (`MemorySafe`), a node is deleted once (`NoDoubleRetire`), at the end
nothing but the stack's own nodes is allocated unless a scan was given up (`NoLeak`), and
the stack implements `AbstractStack` (`Linearizable`): an exchange that succeeds finds the
head it has read, and while the popper protects it that head cannot have been away and
come back with another `next`.

`Structures_proofs`, for every set of threads, keys, nodes and snapshots
(`StructureConstants`).  Every component is proved under its own specification; the five
share no state.

* Counter.  `Places`: who holds the mutex, has a counter and is counted.  `Tally`: a sum under
  way and undisturbed is at most what the counters already read hold by now, and together
  with the rest at least what all held when it began; the sums of the first counters are a
  function whose existence is proved by induction (`SumsExist`).  Hence `SumsAreCurrent`.
* Queue.  `QueueInv`: the nodes of the list, those a producer is about to push and those the
  consumer has taken out are apart, so that the only consumer meets no node that has
  come back.  Hence the queue implements `AbstractStack` (`QueueLinearizable`).
* Sync map.  The hazard-pointer argument as for the stack, with `mutex_` around the
  replacement of a snapshot (`Sections`, `MapOneScan`, `SnapshotsApart`, `MapProtection`).
  `Pair` says how the snapshot and the mutable map divide the keys, `Seen` that what was in
  the map when a call began still is, and that a snapshot in use holds all of it unless it is
  marked dirty.  Hence a look-up reads no deleted snapshot (`SnapshotSafe`) and answers as the map
  was at one moment of the call (`MapLinearizable`).  `AtomicActions` joins the
  three.
* Hash map.  `HashInv`: a thread holds only mutexes that its loop has passed, and loops go
  upwards, so that the thread which is furthest on is not blocked (`HashNobodyStuck`).
  `TableInv`: the lists are sorted, without a key twice, every element is in the list its
  hash names, and `size_` counts them.  `Dealt` shows by induction over a list that the loop of Rehash
  divides it into the elements that stay and those that go, and `HalfMod` that these belong
  to the same list of the doubled table.  Hence `HashFindsAll`.
* Data-parallel algorithms.  The shares cover every number once (`Shares`).  `ParInv`: a thread stays
  in its share (`Sharing`); while the flag is down, what a thread has passed is no hit, unless it is
  about to raise the flag (`Searching`); the flag stands for a hit, and the thread that raised
  it is still to store its own or has stored it, and no other writes it (`Keeping`, `OnePublishesKept`); a thread of Reduce is done with its whole
  share in its slot (`Reducing`).  For IsPrime, a divisor at or above the bound has its
  cofactor below it (`SmallDivisor`).  Hence `ParallelAgrees`.

`Cactus_proofs`, the balancer, for every finite set of connections and every list of backends: the
loads count connections (`LoadExact`), the dialer holds the mutex, and so the choice it
made is still the best one when the dial ends (`LoadIsBalanced`).

`Locks_proofs`, the others.  A behaviour of the suite `MCLocks` is a behaviour of each primitive
(`SuiteIsEach`), so each is proved by itself.  Spin lock: the flag is set exactly while
somebody holds it.  Readers-writer spin lock: the word is twice the readers plus the
writer, so that an even word has no writer and 0 has nobody.  Readers-writer lock:
all four counters are exact.  With these the locks implement `AbstractLock` and
`AbstractRWLock` (`LocksAreLocks`).  Semaphore: counter and threads inside add up
(`PlacesExact`), and the tickets from the next admitted to the last one given
are each held by exactly one waiter (`TicketsHeld`, `TicketsDiffer`), so that the order
of calls is the order of admission.  Unbuffered channel: what a waiting sender's flag
says is true of the queue and of what was received (`FlagsTrue`, `QueuedOffers`), from
which the rendezvous follows; and for each queued element a receiver is awake while
others sleep (`Served`).  Assumed: the threads (semaphore) and receivers (channel) are
finitely many, since the code counts them.

`Queues_proofs`, the others.  Buffered channel, for any capacity: while the mutex is held through a
wake-up (`Handover`) the woken receivers and senders cover the values and places
(`ReceiversWoken`, `SendersWoken`), from which nobody sleeps beside a value or a
place (`ChannelWakes`); what was received, followed by what is queued, is what was accepted
(`ChannelDelivers`), and the end is reported only when nothing is queued
(`ChannelDrains`).  Timer queue, for
any number of consumers: the element a timeout was computed from is still there when the
timeout ends, or another consumer took it meanwhile and not before its time
(`WaitsForSomething`), so that an early return, or the front of an empty map, needs the
whole `Patience` or such a consumer (`TimerOnTime`).

`Cactus_proofs`, the fibers, for every set of them and any number of operations and ticks.  None of
the three properties of `Fibers` is inductive; the invariant `FibInv` adds where a fiber
may be when it runs, is parked, waits or is over (`Phases`, `Runnable`, `Waits`,
`Owner`, `Timers`), and three promises.  `Baton`: while fibers stand in `lockers_` the
mutex is held, or one that was woken for it is in the run queue or runs; it survives
because a fiber that leaves `lockers_.Wait()` by an exception passes its wake-up on.
`Reasons`: who unparked Main in `~Fiber`, `~Group` or `Wait` had made true what Main waits
for, because only a time-out or a cancellation could wake it otherwise, and the guard of
the destructors stops both; so those may Park once, without a loop.  `WillBeThrown`: a
pending time-out belongs to the Park its fiber is in.  From these `NoneForgotten`,
`LivesEnough` and `NoStrayTimeout`.  What a step does to the lists (`UnparkedList`,
`UnlinkedList`, `FirstOfList`) is proved once, and the operations that wake, enter or leave
a wait queue share a lemma each (`PassInv`, `StandsInv`, `DepartsInv`).  Assumed: Main is
a fiber and `Nobody` is not.

`Cactus_proofs`, the timers and the coroutines, for every set of timers and of integer deadlines
and every set of tasks (`TimersFireInOrder`).  The invariant of the heap is that the
places 0 to size - 1 are filled, every timer knows its place (`Tracked`), and no entry is
earlier than its parent (`InOrder`).  In the middle of an operation it is broken at one place: in `SiftUp` only
the entry that rises may be too early, and its children are not before its parent
(`Rising`); in `SiftDown` only the one that falls may be too late, and the one at the place
where it began too early while nothing has moved (`Falling`).  Each turn keeps this and
moves strictly up or down, so that after as many turns as the model allows the loop
has ended (`SiftUpWorks`, `SiftDownWorks`).  `Deactivate` puts the last entry into the gap: it falls,
and what then is too early there rises, which is why the code needs both.  Coroutines, for
pauses until any moment: each task has one record from AddTask to its end (`OneRecord`), a
record has the moment of its promise (`Copied`), and those that `Step` preferred to a
waiting one come before it (`Preferred`), so that the order is that of the moments the
bodies asked for.

`Network_proofs`.  Sockets, for every set of sockets and at least as many descriptor slots
(`NetConstants`): a socket is registered with the kernel exactly while it is open, with a
slot that no other socket has and that is not free (`Registered`, `Pool`), nobody is left
in a free slot (`Unused`), a fiber inside Wait keeps its socket's slot unless that was
closed (`Parked`), and then it stands in that slot (`InPlace`) and an event that is there has an
edge still to be reported (`Announced`).  Hence `EventsReach`.  Streams, for every size of
the buffers and any delimiters (`StreamConstants`): the buffer is a run of the bytes fed
(`ReaderOK`), the writer's buffer is never overrun (`WriterOK`), and each call keeps, in a part of its own, what
it has got so far within the room its caller gave (`FullOK`, `AllOK`, `StringOK`, `CopyOK`), from which every
call hands out the next bytes and returns the ones it should (`BytesStayInOrder`).

`Answers_proofs` (`AnswersAreTrue`), an invariant per program.  Redis, for any clients,
keys and largest integer: what the server has read of a command is the beginning of what
that client sent, though the reader's buffer is reused for each of its elements (`RedisInv`), and the
storage has the value of the text last written (`StoreOK`), so that the reply has the payload
the command should give.
Proxies, for a chain of any length: those before the one asked relay and those behind do not (`Building`),
the answer is read before any data (`Answering`), and on every link stands a run of the messages sent,
also when relays fail (`Standing`).  RPC, for any clients and kinds of request: what was written to a client is the beginning of its
own answer or of a refusal it deserves, and the method ran once for it (`Waits`, `Written`, `HasRead`, `AtWork`).
Fan-out, scan and knock, for any number of tokens and ports: `Collects`, `Scans`, `Knocks`.
Assumed are only `RedisConstants`, `SocksConstants` and `ClientConstants`.

**Loops and recursion.**  The library's induction theorems have an operator as parameter and cannot be
used; induction comes from the well-foundedness of < on the naturals instead, in three lemmas:
`Least` (a set of naturals has a least element), `Induction` (from there), and `Turns` (a
loop whose turn is a function has an outcome after every turn, so that a recursive
function of the model is what its equation says).  They stand in each module that uses
them.

**What the model owes to the proofs.**  `NobodyStuck` says who is blocked without ENABLED; the
loops of `TimerHeap` and of Rehash are functions of the number of the turn; the constants of each
component have named assumptions.  Neither changes a behaviour: the runs reach the same states.

Left to TLC, and why:

- all liveness: `NobodyWaitsForEver`, `WaitReturns` and the like (the prover has no fairness
  or ENABLED);
- `NoLockCycle` of the executor: it holds for the graphs of the run, and fails for others
  (run `executor_cycle`);
- `ComputationsAgree`.  Of FindEqualSumSubsets the search is proved (`ParallelAgrees`), for whatever
  it means that a choice fits; that choices and signs of the two halves reach every pair of
  subsets is arithmetic of sums folded over the bits of a number.  `Programs` and `Names` compare
  algorithms with recursive definitions, and the prover has no SMT in a module that declares
  a recursive operator.

## Plan

1. Modelled, checked and proved: executor, locks, channels, queues, lock-free structures, maps,
   counter, data-parallel algorithms, cactus and its programs, coroutines.  Modelled and checked
   only: the sums of FindEqualSumSubsets, the interpreter, the checker of names.
2. Left: `Future::Get` with error objects, in `Executor` (a hazard without a property in
   `PROJECT.json`, like the push into a queue that nobody pops any more); the sequential exercises, should one of them come to keep a state.

## Not modelled

`matrix-2.0`, `ranges`, `sfinae`, `concepts`, `compile-eval`, `constexpr-map`, `range-sum`
and `jpeg-decoder`: templates that the compiler evaluates and sequential containers or
decoders, in which nothing interleaves, fails half-way or keeps a state.
`matchers_rewriter.cpp` is a use of clang's matchers.  Of cactus: the switch of machine
contexts, the debug printing, the formatting and parsing of addresses (`net/address.h`),
`LoopReader`, `StringWriter` and the protobuf generator (`rpc/gen-rpc`).  Benchmarks
(`run.cpp`), tests, and the wording of logs and errors.
