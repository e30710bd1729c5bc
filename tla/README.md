# Verification of treasure_house

treasure_house is a C library: a slab allocator, a thread pool, a lock-free
queue, a binary heap and, on top of them, a coroutine runtime. This directory
holds TLA+ models of its core, TLC configurations that check them, and TLAPS
proofs. Source paths below are relative to the repository's `src/`.

## 1. The system

| part | state | operations | what is hard | what makes it correct |
|---|---|---|---|---|
| mempool (`memory/mempool.c`) | per pool: three slab lists, `cur`, counters; per slab: a free list in an array of unsigned shorts, `used`, `free` | `mempool_create`, `_alloc`, `_free`, `_destory` | long call sequences, -1 in unsigned fields, a cached pointer to a slab that may be freed | counters agree with the objects handed out, no object twice, a freed object's slab is found, a free object can be allocated |
| thread pool (`threadpool/threadpool.c`) | work queue with lock and condition, thread count, status, lock and condition of the pool | `threadpool_submit`, `_shutdown`, `_wait`; `worker_fn` in every thread | two locks, a signal on the empty queue only, stop against queued work | accepted tasks run once, drained before stopped, no lost wakeup, shutdown ends |
| mpscq (`queue/mpscq.c`, `include/atm_gcc_sync.h`) | `head`, `tail`, stub, `next` fields | `mpscq_push` by many threads, `mpscq_pop` by one | no locks; the list is broken between two stores of a push | FIFO, no node touched after it was returned, nothing stuck |
| coroutine runtime (`coroutine/sched/core.c`, `coroutine/processor.c`, `coroutine/coroutine.c`, `coroutine/sync/sync.c`) | per OS thread a scheduler: ready queue, sleepers, one stack shared by its coroutines, status; globally a wait group and the next scheduler | create, yield, sleep, end, loop/join | submitters, timers, starting and stopping threads all touch a scheduler; stacks are copied | a coroutine is in one place, resumes on its own stack, all end, then the loop ends |
| heap (`container/heap.c`, `coroutine/co_time.c`) | growing array of timers | `heap_push`, `heap_pop`, `heap_top` | comparison by an int difference, growth, index arithmetic | order, conservation, pops return the least |
| list (`container/list.h`) | next and prev of every node | add, delete, replace, swap, move, rotate, cut, splice; safe loops | stores through pointers an earlier store has changed; neighbours, empty lists, heads | both directions agree with the promised list, a safe loop sees every entry |
| futures and streams (`coroutine/asyncio/future.c`, `streams.c`; `coroutine/processor.c:165-219`) | a status and a callback per future; the readers of an event loop; the coroutines on `co_queue` | make, finish, await; `processors_getaddrinfo`, `connection_read`, `asyncio_open_connection` | executor threads finish a future and resume its coroutine, without a lock, while it tests, suspends or runs on | a coroutine is woken by its own future, finds it finished, is in one place, and goes on in the end |
| server, wait queues, mutex, channel | waiters under spin locks | wait, wake, lock, read, write | unfinished code | not modelled, see section 7 |
| log, idr, fd_map, time wheel, system info | | | | not modelled, see section 7 |

Interactions: the runtime keeps its timers in the heap and an executor (a
thread pool) for blocking calls; the allocator, the thread pool and the runtime
keep their lists with the kernel's `list.h`; coroutines reach the scheduler of
their thread through thread-local data; the wait group ties the end of
coroutines to the main thread. A blocking call makes a future, hands it to the
executor and awaits it; the executor thread resumes the coroutine by changing
the queues of its scheduler. mempool and mpscq are used by themselves.

The coroutine sources are work in progress and do not compile as they are
(pointers where structures are meant, missing declarations, arguments and
semicolons). They are modelled by what the statements evidently do, with the
arguments that the declarations ask for (`future_set_result` and
`future_add_done_callback` are called without their future,
`coroutine/processor.c:181` and `:210`); nothing in the findings below depends
on such a slip.

## 2. Modules

| module | models | state and actions |
|---|---|---|
| `Mempool` | `memory/mempool.c` | `pool` is `struct mempool` with its `slabs_info` and slabs; each API call is an action, its static functions are operators on `pool` with their C names. Reading freed memory and the assertion lead to `fault`. |
| `MempoolProofs` | | theorems about `Mempool` |
| `MempoolSizing` | `mempool_create` and `calculate_slab_order`, `memory/mempool.c` | from size and alignment, through the 32-bit fields that hold them, to `num_per_slab` and `order`, one step per page order, and the addresses of `slab_alloc`; dividing by a size of 0 leads to `"fault"`; `N` of `Mempool` is its result |
| `MempoolSizingProofs` | | theorems about `MempoolSizing` |
| `TaskService` | the promise of the thread pool | tasks accepted, refused, done; open, closing, closed |
| `Threadpool` | `threadpool/threadpool.c` | variables carry the names of the C fields. A submit is two steps (start of a thread, put) with `pool->lock` held between them; sections under `wq->lock` are single steps. |
| `ThreadpoolProofs` | | theorems about `Threadpool` |
| `FifoQueue` | the promise of the queue | the sequence of nodes and the last pop |
| `Mpscq` | `queue/mpscq.c`, `include/atm_gcc_sync.h` | one step per shared access; `order` and `overlap` are history variables |
| `MpscqProofs` | | theorems about `Mpscq` |
| `Scheduler` | `coroutine/` without asyncio | `pc` says where each OS thread is; an append to a ready queue is two steps because one caller takes no lock: it reads `tail`, the prev pointer of the queue's head, and links the coroutine behind what it read (`Linked`). `processors_submit` is four steps: the read of `p_turn`, its store and the wait group, the lock with the read of `tail`, the link. `unstopped` is a history variable |
| `SchedulerProofs` | | theorems about `Scheduler` |
| `Async` | `coroutine/asyncio/future.c` and `streams.c`, the blocking calls of `coroutine/processor.c` | extends `Scheduler`, whose steps a coroutine takes outside these calls; `await` says where a coroutine is in `future_await`, `job` how far the thread that finishes a future has got; of `sched_co_resume` on an executor thread the reads, `list_del` with the read of `tail`, and the link are steps of their own |
| `AsyncProofs` | | theorems about `Async`, from those about `Scheduler` |
| `List` | `container/list.h` | `mem` holds the pointers, changed store by store by operators with the C names; `lists` is a history variable, the list the comments promise |
| `ListProofs` | | theorems about `List` |
| `Heap` | `container/heap.c`, `co_timer_cmp` | one step per loop iteration; `contents` is a history variable |
| `HeapProofs` | | theorems about `Heap` |

`MCMempool`, `MCMempoolSizing`, `MCScheduler`, `MCHeap` and `MCList` give TLC
symmetry sets and constants; `Threadpool`, `Mpscq` and `Async` are checked as
they are, without symmetry, because their runs check liveness. Operators whose
name starts with `Bad` are plausible slips in the code next to them. No
specification uses them; each one is a replacement for the definition behind it
that makes one of the properties fail, which shows that the property depends on
that code.

Composition: `Async` is `Scheduler` with futures. Its next-state relation has
the steps of `Scheduler`, for a running coroutine only while it is `"idle"`,
the steps of `future_await`, those of the executor threads and those of the
reader callbacks. The executor is represented by the contract that `Threadpool`
is proved to keep (`TaskService`): a task is refused or accepted, and an
accepted task runs once.

Refinement: `Threadpool` implements `TaskService` (accepted, rejected and
finished tasks; `status` is mapped to open, closing, closed) and `Mpscq`
implements `FifoQueue` (`WithoutStub(order)`, the nodes from `tail` to `head`
without the stub; a node is queued by its exchange). TLC checks both on the
instances below, and both are proved.

## 3. Runs

Passing runs:

| run | checks | instance |
|---|---|---|
| `mempool` | `Accounting`, `FreeListWellFormed`, `HeldObjectsFindable`, `NoAssertFailure`, `NoDoubleAlloc`, `TypeOK` | 3 slabs of 3 objects |
| `mempool_sizing` | `ObjectsFit`, `LeastOrder`, `TypeOK` | pages, orders and `MinNum` of the source, sizes around every boundary, 9 alignments; 2^20 for 2^32 and 2^24 for 2^64 |
| `threadpool` | `Counters`, `TaskRunsOnce`, `DrainBeforeStop`, `NoLostWakeup`, `ThreadSlotsFresh`, `ServiceSpec`, `AcceptedTasksRun`, `ShutdownCompletes`, `WaitReturns`, `TypeOK` | 4 tasks, 2 threads, 2 waiters |
| `mpscq` | `ListIntegrity`, `NoAccessAfterPop`, `FifoSpec`, `NullOnlyIfEmptyOrOverlap`, `QueuedNodesPopped`, `TypeOK` | 3 nodes, 2 producers |
| `scheduler` | `CountersAgree`, `OnePlace`, `JoinAfterAllDone`, `NoMissedWakeup`, `TypeOK` | 3 coroutines, 2 schedulers, one suspend each |
| `async` | `AsyncOnePlace`, `WakesAreOwn`, `LoopFuturesSafe` | 2 coroutines, 1 scheduler, one suspend each, 2 futures of any kind |
| `async_live` | `AsyncCoroutinesEnd` | 2 coroutines, 1 scheduler, one suspend each, 1 future |
| `list` | `Represents`, `LoopSeesAll` | 2 heads, 4 entries |
| `heap` | `HeapOrder`, `Conserved`, `PopsLeast`, `TypeOK` | 6 elements, 4 keys, growth by 2 |

Why these bounds reach the interesting cases: three slabs of three give a
full, a partial and an empty slab at once and every order of freeing inside a
slab; four tasks on two threads reach the thread limit and a queue of two behind
it; three reusable nodes and two producers give overlapping exchanges, a
broken list seen by the consumer, and a node pushed again after its pop; two
schedulers and three coroutines give submissions across threads while timers
fire, and submits that read the same `p_turn`; six elements give a heap of three levels and two reallocations. Two
futures are what a late callback needs, one that was finished without a wait
and one that is waited for, and two readers of one connection; every fault of
`Async` is reached within these bounds. Four entries give entries that are
neighbours, that have one neighbour in common and that have none, at the ends and
in the middle, on one list or on two. TLC's integers have 32 bits, so the run
`mempool_sizing` gives unsigned int 2^20 values and size_t 2^24; both are larger
than the largest slab, 2^18 bytes, which is what matters, and the sizes around
them and around multiples of 2^20 are in the run. The theorem is for the real
ones. `async` has one scheduler: that the second place of a coroutine on its
way out of `processors_await` is on the scheduler it runs on (`Home` in
`AsyncOnePlace`) says something with two, and is carried by the theorem.

Deadlock checking is off only where a model really stops: in `Mempool` and
`Scheduler` (and so in `Async`) nothing follows a fault, and a program whose schedulers have been
joined has ended.

Runs that end in a violation state what a comment or a document says:

| run | the code |
|---|---|
| `mempool_alloc_fails` | `memory/mempool.c:296` compares where it should assign; a slab that was full is not reused and `mempool_alloc` returns NULL with free objects |
| `scheduler_stack` | `coroutine/sched/core.c:251` makes `schedule` skip the restore of the stack |
| `scheduler_loop_exits` | `coroutine/sched/core.c:162` overwrites SCHED_STOPPED |

More disagreements are visible in the models, without a run of their own.

* `free_obj2slab` gives a slab back and goes on to read it, and `slabs->cur` may
  still point to it (`memory/mempool.c:424`, `:430`, `:273`): the faults
  `free_obj2slab` and `find_slab` of `Mempool`.
* `mempool_create` stores its size_t parameters in an int and an unsigned int
  (`memory/mempool.c:183-185`): a request of 2^32 + 8 bytes gives a pool of
  8-byte objects. A size of 0, or one that comes out as 0, is divided by
  (`memory/mempool.c:92`, the step `DivideByZero`). `ObjectsFit` says that below
  2^32 objects are as big as asked for.
* `free_all_objs_one_slab` compares unsigned shorts with -1
  (`memory/mempool.c:382`): after `mempool_destory` the set `destructed` is
  empty, though objects were held.
* `sched_co_resume` appends to the ready queue without the lock that its
  queue functions ask for (`coroutine/sched/core.c:22` and `:252`); an append of
  `ResumeEnd` can undo one of `SubmitEnd`, and the coroutine is lost. `OnePlace`
  and `AsyncOnePlace` say that none is doubled, not that none is lost.
* `NoMissedWakeup` says that a scheduler which was told to stop (`Told`) does not
  wait, unless the signal is still to come or its own start has overwritten the
  status it was told (`unstopped`). The second is the behaviour that
  `scheduler_loop_exits` shows.
* `sched_wakeup` stores SCHED_STOPPED and then signals and unlocks; the scheduler
  reads the status without the lock and may have freed itself by then (the fault
  `sched` of `WakeupSignal`, `coroutine/sched/core.c:283`).
* `processors_join` uses `g_ps` after `processors_destory` has set it to NULL
  (the fault `g_ps`, `coroutine/processor.c:147`).
* `mpscq_push` is not "wait-free", as `queue/mpscq.h:17` has it: the exchange is
  a loop that `XchgCasFails` can repeat for ever while others push.
* An executor thread may finish a future between the test in `future_await` and
  the suspend (`coroutine/asyncio/future.c:61`); its `list_del` then meets the
  poisoned pointers of the running coroutine (the fault `poison` of `Async`).
* A coroutine that sees FINISHED frees the future while the executor thread is
  about to read the callback from it (`coroutine/asyncio/future.c:47`, the fault
  `future`). If the thread has read it already, its resume comes late: it meets
  a coroutine that runs, sleeps or has ended (`poison`, `asleep`, `co`), or wakes
  it from the wait for its next future, which is still pending. `WakesAreOwn`
  says that this is the only way to be woken early, `LoopFuturesSafe` that
  futures of the event loop have none of these problems.
* `processors_getaddrinfo` ignores a refused task (`coroutine/processor.c:201`),
  and a second `connection_read` overwrites `rwaiter`
  (`coroutine/asyncio/streams.c:69`): the coroutine waits for ever (`Abandoned`).

The passing runs of `Mempool`, `Scheduler` and `Async` check the code as it is: states
behind a fault are part of them, and a property that a slip listed above
breaks is not among theirs.

## 4. Fairness

* Threads: the OS runs every thread that can run, so a step of a thread that
  stays enabled is taken (weak fairness). Mutexes are assumed to be granted in
  the end; sections under a lock are short and finite.
* Callers: nobody has to submit, push, shut down or wait. In `Mpscq` the
  consumer keeps calling `mpscq_pop`; in `Scheduler` the program calls
  `coroutine_loop` in the end.
* Tasks and coroutines return: `do_work` and the steps of a running coroutine
  are fair. In `Scheduler` the bound `Suspends` says that a coroutine suspends
  finitely often.
* Timers: `ResumeBegin` is strongly fair, because the scheduler looks at the
  heap again and again and time passes.
* Futures: accepted tasks run (the contract of the pool), and every descriptor
  with a reader is ready at some time: `ReaderReady` is strongly fair for the
  same reason as timers. No coroutine has to make a future.
* Spurious wakeups may happen and never have to.

`WaitReturns` says that one caller of `threadpool_wait` returns. `worker_fn`
signals once (`threadpool/threadpool.c:93`), so with two callers the second one
may wait for ever. `AsyncCoroutinesEnd` makes an exception for the coroutine
that the unlocked append loses, for one whose future nobody will finish, and
for programs stopped by a fault.

## 5. Memory model and abstraction

`Mpscq` is sequentially consistent. On x86 that is faithful: the clearing of
`n->next` is drained by the locked compare-and-swap, and a delayed
`prev->next = n` is a delayed step. On weaker machines the plain store of
`prev->next` would need a release, which the model does not speak about.

`Mempool` abstracts addresses, object contents and the order of slabs on a
list, and models one pool. `Threadpool` abstracts what tasks do. `Scheduler`
abstracts time (a timer may expire whenever the heap is looked at) and the
contents of stacks (whose frames are there). `Async` abstracts results, errors
and the bytes read; the store of the result and that of the status are one
step, which needs the store order of x86.

Of the data races on the queues, the appends are modelled by their outcomes. An
append links its coroutine behind the entry it read as the last one, however
the queue has changed since; if another append came between, either of the two
may have stored the prev pointer of the head last (`LinksBehind`). So coroutines
get lost, and later appends may go behind a lost one. Other races end in a fault
(`race`), after which nothing is known: a `list_del` of an executor thread that
overlaps with a change of the list it deletes from, where both may store to the
same neighbours, and a link to an entry that has gone to `co_queue` meanwhile
(`LinkFault`). Single steps are: the append to `co_queue` under the lock, a pop
from the ready queue, and the two stores of `list_del`. `p_turn` is read, and
read again before it is stored, without a lock, so two submits may choose the
same scheduler.

`List` abstracts what the entries are part of. `Heap` assumes that keys differ by
less than half the range of an int (`HeapAssumption`).

## 6. Proofs

### Threadpool

`ThreadpoolProofs` holds for any set of tasks and waiters and any number of
threads greater than 0. Assumptions: `ThreadpoolAssumption` only.

`IInv` is `TypeOK /\ Counters /\ WorkInv /\ SlotInv /\ LockInv /\ StopInv`.
`Counters` alone is not inductive: `threads_num - 1` could be -1, and
a new thread could overwrite a live slot. `SlotInv` says that a running pool fills
`threads[]` from the front; `LockInv` that a submit that holds the lock has a
running pool with at least one thread; `StopInv` that queue and pool stop
together, that threads leave only an empty queue, and that STOPPED means no
threads. From it follow

* `PoolTypeOK`, `PoolCounters`, `PoolThreadSlotsFresh`;
* `PoolTaskRunsOnce`: inductive relative to `IInv`; each of the three moves of
  a task (put, get, run) is a lemma, all other steps move none;
* `PoolDrainBeforeStop`: STOPPED means no thread and an empty queue, so of
  `accepted = Queued \cup Running \cup Done` only `Done` is left;
* `PoolNoLostWakeup`: a put on an empty queue wakes a waiting thread, or there
  is none and, by `LockInv` and `Counters`, another one is up;
* `PoolImplementsService`: every step is a step of `TaskService` or none.

### Heap

`HeapProofs` holds for any set of integer keys that differ by less than half the
range of an int, any initial capacity and any number of elements. Assumption:
`HeapAssumption` only.

`HeapInv` is `Shape /\ HeapOrder /\ Conserved`; `Shape` is `TypeOK` with any
integer for a count, because only `Conserved` shows that counts are not
negative. `HeapOrder` is inductive as it stands: it says of each loop where the
one exception is and that the exception's neighbours are in order among
themselves. `CmpOrders` shows that the int `co_timer_cmp` returns has the sign
of the difference. `SwapConserves` counts positions with the theorems on finite
sets. `RootIsLeast` gives `PopsLeast`: among the positions with an element smaller
than the first there would be a first one (the natural numbers are
well-founded), whose parent is not smaller, against the order.

### MempoolSizing

`MempoolSizingProofs` holds for any size of objects a size_t holds and any number
of orders. `SizingAssumption`: an unsigned int has at least 2^16 values and a
size_t twice as many, a slab fits in an unsigned int, a slab of one order is
twice one of the order below (arithmetic that TLC evaluates for the numbers of
the source), a page has at most 32767 bytes (4096 in the source), and `MinNum`
is at least 8 and at most 16383 (8 in the source). `AlignsAssumption`: what
`calculate_alignment` makes of an alignment is 0 or divides 2^32, and is at most
a page. `AlignUp` says what ALIGN does when its sum may wrap around,
`MultipleModulo` that cutting down to 32 bits keeps a multiple of the alignment;
the size that comes out is at least what was asked for, if that is below 2^32,
because the next multiple either fits or is 2^32 itself, which leaves 0 and no
pool. `SizingInv` says that the loop passes over an order only because `MinNum`
objects do not fit. Its key lemma is `NeverFragmented`: at least 8 objects leave
over less than one of them, less than an eighth of the slab, so the loop always
stops at the first order it accepts. `ObjectsFit` follows because the room taken
off for aligning the first object is larger than what aligning can cost.
`NumBounded` gives the bound in `TypeOK`: the slab of the order below did not
hold `MinNum` objects, so this one holds at most twice as many, and a single
page no more than it has bytes. That is the assumption `Mempool` makes on `N`.

### Mempool

`MempoolProofs` holds for any finite set of slabs and any number of objects per
slab from 1 to 32767 (`MempoolAssumption`). `SlabOK(b, taken)` says what a slab
owes to the set of its objects that are handed out: the counters, and a free
list that threads exactly the others; `PoolOK(p, h)` says it of every live slab
and adds the pool's counters and lists. `IInv` is `PoolOK` of a pool that exists.
Each static function of the source is one lemma that takes a pool that is OK for
the objects handed out to one that is OK for those handed out after it, so the
proof follows the calls of the code. Beyond the run's invariants it needs only
that `last_free_idx` never changes. From it follow `TypeCorrect`,
`CountersAgree`, `FreeListsThread`, `AllFindable`, `AssertHolds`, `AllocIsFresh`,
and `NothingDestructed`, which shows for every pool that
`free_all_objs_one_slab` runs no destructor. `CountersAgree` has a second
invariant, `OneEmptyInv`: `free_obj2slab` keeps a slab without objects only if
there is no other, and `mempool_alloc` takes a new slab off the list of the
empty ones at once.

### Scheduler

`SchedulerProofs` holds for any finite set of coroutines, any number of
schedulers and any bound on suspends (`SchedulerAssumption`). `PlaceInv` restates
`OnePlace` without positions (`OneAt`, `AtLife`, `Distinct`); `LinkedEffect` shows
that an append behind a stale last entry loses entries but never doubles one.
`CountersAgree` is not inductive: `co_nums - 1` could be -1. `CountInv` says that
`co_nums` is at least the number of coroutines at the scheduler (a lost one stays
counted), which needs `PlaceInv`. `LockInv` says who holds a scheduler's lock
between two steps, which keeps the steps of a submit under it together; `StopInv`
that only the shutdown stops a scheduler, and finds no coroutine left. The wait
group does not know a coroutine between the first two steps of its submit
(`Turning`), but then the coroutine that submits it is still counted, so the
main thread does not get past `wait_group_wait`. From `IInv` follow
`TypeCorrect`, `CountsAgree`, `NeverTwice` and `JoinWaits`.

`WakeupsArrive` needs two facts. `WaitInv`, a part of `IInv`, says that a waiting
scheduler has status RUNNING or the stopper still holds its lock; that is about
the status, which the start of the thread may have overwritten. `ToldInv` says
what the scheduler was told: if `exit_all_processors` has told it to stop, its
status is STOPPED unless it is in `unstopped`.

### Mpscq

`MpscqProofs` holds for any nodes and any producers (`MpscqAssumption`).
`ListIntegrity` is not inductive. `NodeInv` says that a node that is being pushed
has one pusher, `FreshInv` that it is not in the list before its exchange and
cleared before the first load, `LinkInv` that from the exchange to the store
`prev` stays in the list, right before the node, with `next` null. That is why
`mpscq_pop`, which takes a node only when its `next` is not null, never takes
one a pusher still holds (`PoppedIsPrivate`). `PopInv` and `OverlapInv` say what
the consumer knows of `head`, which gives `NullIsHonest`. `QueueImplementsFifo`
is the refinement: lemmas about `WithoutStub` show that the exchange of a client
node appends it, that of the stub changes nothing, and that taking the first
node pops a client node or only the stub.

### Async

`AsyncProofs` extends `SchedulerProofs` and holds for any finite set of
coroutines, any number of schedulers, suspends and futures per coroutine
(`SchedulerAssumption`, `AsyncAssumption`). It is not `Scheduler`'s invariant
with an addition: a coroutine that an executor thread resumes may be in a ready
queue while it still runs on the way out of `processors_await`, so `OnePlace`
itself is false here. `AsyncOnePlace` allows these two places and no others, and
says that they belong to the same scheduler: the thread that runs the coroutine
is the only one that takes it from the queue, so it never runs twice. `AsyncInv` is `(Ok => SoundInv) /\ (NoExec => ~LoopFault)`:
after a race of `list_del`, a poisoned pointer or a freed future nothing is known, which is
why the three invariants of the run speak of states without such a fault, and
the second half says that the event loop alone never leads to one.

`SoundInv` speaks of one coroutine at a time. `PlacePart(c)` says that it is in
one place (`PlacesInv`), in none while an executor thread has it off the lists
(`HeldInv`), and that everything that will still move it belongs to one
scheduler (`AwaitInv`, `HomeInv`); that is what keeps a resume from putting a
coroutine into the queue of another scheduler. `FuturePart(c)` says that of its
futures only the last is still unsettled, unless it went past one without
waiting for it (`OwnInv`), and that without the executor a future is finished
only while its coroutine waits (`LoopInv`). `WakesAreOwn` is not inductive without
`OwnInv`, because an earlier future whose callback is still to run would wake
the coroutine in a later call. A step moves at most one coroutine; lemmas about
one that stays, one that goes somewhere, and two that are apart serve all
steps. From `AsyncInv` follow `NeverTwiceAsync`, `WokenByOwn` and `LoopSafe`.

### List

`ListProofs` holds for any heads and entries and lists of any length; the only
assumption is `ListAssumption` (finitely many nodes; heads, entries and the
special pointers are different). `Represents` says which pointer leads from position to position.
Positions shift with every call, so the proof uses pieces: a list is put together from
`u ++ v` or `(u ++ One(x)) ++ v`, and a function works where two pieces meet.
Every function of `list.h` comes down to a few `Link`s, each a `next` and a
`prev` store, between the end of one chain of nodes and the start of another
(`AddLinks`, `SpliceLinks`, `CutLinks`, `BulkLinks`, and `Replaced`, where the
pointer that is read after it was stored through shows up). `Turned` says that a
ring may be read from any node, so that the ends that are linked can always be
made the ends of chains; `KeepsChain`, `Joins` and `Closes` say what a link then
does.

`Holds(m, L, V)` is the invariant of the memory: a closed ring for every head in
use, no node in two of them. `Changes` shows once that a call which stores only
to nodes of the lists it is about, and to entries on no list, leaves the other
lists alone. On top of it there is a lemma per function (`ListAdds`, `Deletes`,
`ReplacesEntry`, `ReplacesHead`, `Moves`, `SwapsApart`, `SwapsForward`,
`SwapsBackward`, `BulkMoves`, `RotatesToFront`, `Cuts`, `SplicesEach`), and on
top of these one per action, which turns its positions into pieces. `list_swap`
needs three cases: two lists, and one list in either order; in the second the
entries may be neighbours, which is what the test in the code is for.

`LoopSeesAll` is not inductive. `Looping` adds that the rest of the list when the
loop began is also the end of the list as it is now, that `pos` is where it
begins and `n` the node behind: the body may do to `pos` what it likes, because
`n` was read before. With lists given by positions instead of pieces TLC checks
the same invariant on the instance of the run `list`. From `IInv` follow
`RingsAreWhole` and `LoopSeesEach`.

### Only model-checked

Liveness and everything with fairness: `AcceptedTasksRun`, `ShutdownCompletes`
and `WaitReturns` of `Threadpool`, `QueuedNodesPopped` of `Mpscq` and
`AsyncCoroutinesEnd` of `Async`. The provers have no rule for fairness and
`ENABLED`. Every safety property of a passing run is proved.

## 7. Not modelled

* Of `list.h` the `hlist` functions, which no code of the repository uses, and
  the functions and macros that only read. In the other modules sequences and
  sets stand for lists.
* Allocation failures in the `create` functions; alignments in
  `mempool_create` that are no power of two, for which the mask of ALIGN is
  wrong, or larger than a page, which wrap around at `memory/mempool.c:73`
  (`AlignsAssumption`; alignments and sizes of 0 are modelled); a pool with no
  threads.
* Wait queues, mutex and channel (`coroutine/sched/wait.c`, `sync/mutex.c`,
  `runtime/chan.c`). A coroutine that has to wait calls
  `coroutine_set_current_state`, whose `list_del` meets the poisoned pointers of
  the running coroutine (`coroutine/coroutine.c:51`), and then a `schedule` that
  is not defined; `list_add` has its arguments swapped (`sched/wait.c:35`, `:37`),
  `co_mutex_init` leaves the queue uninitialised and the spin lock never spins.
  There is no behaviour behind the first wait, so a model would be of code that
  is still to be written.
* `server.c` and the buffers of `streams.c`: stubs, and calls of functions that
  do not exist. `event_loop_add_reader` is only declared; `Async` models it by
  its use. One connection per scheduler, not shared between schedulers.
* `log.c` is formatting and output; `idr.h`, `fd_map.h`, `time_wheel.h` are
  declarations without an implementation.

## 8. Plan

Done, in this order: `Mempool`, with `MempoolSizing`; `Threadpool` with
`TaskService` and its proofs; `Mpscq` with `FifoQueue`; `Scheduler`; `Heap` and
its proofs; `List`; `Async`, composed with `Scheduler`.

Proved: `Threadpool`, `Heap`, `MempoolSizing`, `Mempool`, `Scheduler`, `Mpscq`,
`Async` and `List`, with both refinements.
