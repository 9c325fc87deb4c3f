# MassiveThreads in TLA+

MassiveThreads runs many user-level threads on a few *workers* (OS threads).
A worker keeps its runnable threads in a queue from which idle workers steal; a
thread that must wait gives its worker up and goes to sleep in a queue of the
object it waits for. Everything in between (mutexes, condition variables,
barriers, join counters, full/empty locks, the life of a thread itself) is
written with compare-and-swap loops, small lock-free containers and callbacks that
run in the middle of a context switch. These modules model that core, from the
start of the runtime to its end, check it with TLC on small instances, and prove
with TLAPS, for any number of workers and threads, the safety of the run queue, of
mutexes and condition variables, of full/empty locks, of barriers, of join counters, of the
once control and unconditional variables, of creation, join, detach and exit, of
thread-local storage, and of the start and the end of the runtime.

Paths below are relative to the repository; the implementation is in
`src/src/`, and almost all of it in `static inline` functions of headers.

- [Inventory](#inventory)
- [Modules](#modules)
- [Runs](#runs)
- [Fairness](#fairness)
- [Proofs](#proofs)
- [Assumptions and limits](#assumptions-and-limits)
- [Not modelled](#not-modelled)
- [Findings](#findings)
- [Plan](#plan)

## Inventory

### The scheduler

| Component | State | Operations | Used by |
|---|---|---|---|
| Run queue (`myth_wsqueue_func.h`) | `top`, `base`, `ptr[]`, `size`, a spin lock, per worker | push, pop, put (owner); take, trypass (anybody); peek | creation, exit, yield, block, wake, steal |
| Thread switching (`myth_context_func.h`, `myth_sync_func.h:60-112`, `myth_sched_func.h`) | the context of a thread, `env->this_thread` | `myth_swap_context_withcall`, `myth_block_on_queue`, yield | every blocking operation |
| Threads (`myth_sched_func.h`, `myth_thread.h`) | `status`, `join_thread`, `result`, `lock`, `detached`, `env` of a descriptor | create (child first or parent first), join, tryjoin, timedjoin, exit, detach, yield, cancel | clients |
| Descriptors and stacks (`myth_desc_func.h`, `myth_misc_func.h`) | per-worker lists of free descriptors and stacks | get and return | creation, exit, join |
| Workers (`myth_worker_func.h`, `myth_worker.c`, `myth_internal_barrier.c`) | exit flags, `myth_g_envs`, the internal barrier | startpoint init and exit, the scheduler loop, stealing | initialisation, finalisation |
| Initialisation (`myth_init.c`, `myth_init_func.h`) | `g_myth_init_state` | init, fini, and init again | the first call of any thread |
| Thread-local storage (`myth_tls_func.h`) | a lock-free list of free keys, a tree of values per thread | key create and delete, get, set, destructors at exit | clients |

How they interact: `create` pushes the parent and runs the child; `exit`,
`block` and `yield` pop the next thread of the worker and switch to it; when the
queue is empty the worker goes back to its scheduler, which pops and steals. A
woken thread is pushed to the queue of the worker that wakes it. An exiting thread
that has a joiner switches to it directly. `myth_fini` brings the main thread back to
worker 0, by passing it to the queue of that worker as often as it takes, and only
then tells the workers to stop.

Hard behaviours: the owner pops without the lock while thieves raise `base`
under it; a thief that loses takes its claim back, so that others see a queue
that is momentarily too short; indices are moved to the middle of the array when
the queue runs empty or reaches an end; the lock is unfair; a thread may be made
visible to others only after its context is saved; the lock of a thread is taken on
one side of a context switch and released on the other, when the descriptor may have
been freed and be another thread's; `th->env` must follow a thread wherever it is
moved; the main thread may be stolen while it starts or stops the runtime.

Correct means: no thread is run twice or lost, whoever wins; no access leaves
the array; the process does not abort while there is room; the queue behaves as
one atomic sequence; a thread in it is eventually run; a descriptor is used by one
thread at a time, is freed once and does not leak; workers start and stop in step.

### The synchronisation objects (`myth_sync_func.h`, `myth_sleep_queue_func.h`)

| Component | State | Operations | Correct when |
|---|---|---|---|
| Sleep queue | a linked list under a spin lock | enqueue, dequeue | first in, first out; nobody in it twice |
| Sleep stack | `top`, and `next` of each thread | push, pop by CAS | nobody lost by a stale `next` |
| Mutex | `state` = 2 * seats + lock bit, a sleep queue | lock, trylock, timedlock, unlock | mutual exclusion; no sleeper forgotten; the asserts hold |
| Condition variable | a sleep queue | wait, signal, broadcast | no signal lost between the unlock and the sleep of a waiter |
| Full/empty lock | `status`, a mutex, two condition variables | wait_and_lock, mark_and_signal | only the wanted status is acquired; no signal goes to nobody |
| Barrier | `state` (arrivals), a sleep stack | wait | threads stay in step; nobody stays asleep |
| Join counter | waiters and decrements packed in `state`, a sleep queue | wait, dec | a waiter returns only when the count is complete, and then does |
| Once control | `state` | once | the routine runs once, and all wait for its end |
| Uncond | one slot | wait, signal | the one waiter is woken once |
| Read-write lock | - | every operation is `unimplemented()` | - |

How they interact: a sleeper enters its queue from a callback that runs on the
*next* context, after its own is saved. The callback of `cond_wait` then unlocks
the mutex on behalf of the sleeping thread, so a worker may hold a mutex. A waker
that knows of a sleeper (a seat of the mutex, an arrival at the barrier, a waiter
of the join counter) but finds the queue empty spins until the callback has run.
Mutex unlock dequeues, clears the bit, then pushes the thread; barrier and join
counter dequeue everybody first and push them afterwards; broadcast does it one by
one. A woken locker starts over and competes again.

Hard behaviours: everything that comes between the reservation of a seat and
the sleep; stale values in CAS loops; the order of dequeue, clear and push; ABA on
the sleep stack; a barrier that opens for the next round while the last one
is still being woken; more threads than the barrier is for; the two numbers in one
word of a join counter.

### Not part of the core

Memory barriers and context switching code (assembly per architecture), wrappers
of pthread, malloc and sockets, the native interface (which only exports the
`_body` functions), I/O and energy-saving code (compiled out), logging, profiling
and binding of workers, `mtbb`/`mto` templates and the Chapel port. They are
listed in `PROJECT.json` with the reason each is left out; see also
[Not modelled](#not-modelled).

The hazards of the code, each at the line where it bites and with the properties
that watch it, are the list `hazards` of `PROJECT.json`.

## Modules

```
RunQueue   <--implements--  WSQueue    <-- MCWSQueue (TLC)
                               ^---------- WSQueueProofs (TLAPS)

ThreadLife <--implements--  Threads    <-- ThreadsProofs (TLAPS)

Blocking  <-- Mutex  --implements--> Monitor
    ^           ^------ MCMutex (TLC)
    |           ^------ CondBroadcast <--instance--. MCPrograms (TLC)
    |           ^------ FELock <--------------------- MCPrograms (TLC)
    |                      ^------ MutexProofs (TLAPS)
    |------ Barrier <-- BarrierProofs (TLAPS)
    |------ JoinCounter <-- JoinCounterProofs (TLAPS)
    |------ BoundedBuffer <-- BufferProofs (TLAPS)

Workers <-- WorkersProofs (TLAPS)          TLS <-- MCTLS (TLC)
                                            ^------ TLSProofs (TLAPS)
```

(An arrow `<--` without a label points to the module that is extended.)

### WSQueue: the run queue, access by access

The variables are the fields of `struct myth_thread_queue` (`top`, `base`, `ptr`,
`lock`), the program counter `pc` of each worker in its queue operation, its local
index (`idx`) and argument (`arg`), `fatal` (the process called `abort()`), and
`hand`: the threads a worker has out of the queue, which is what makes "run
twice" and "lost" expressible. An action is one access to shared memory, or a
critical section nobody can look into.

| Code | Actions |
|---|---|
| `myth_queue_push` | PushBegin, PushLock, PushShift / PushOverflow, PushStore, PushPublish |
| `myth_queue_pop` | PopLooksEmpty / PopBegin, PopDecrement, PopReadBase, PopFast, PopLock, PopLocked / PopReset |
| `myth_queue_put` | PutBegin, PutLock, PutStore / PutOverflow |
| `myth_queue_take` | TakeBegin, TakeLooksEmpty / TakeTry, TakeLock, TakeIncrement, TakeReadTop, TakeGet / TakeUndo |
| `myth_queue_trypass` | PassBegin, PassStore, PassPublish |

Two things that look odd are in the code: a thief's quick check reads `top` and
`base` at two different moments and may answer "empty" wrongly, and `trypass`
answers 0 whenever `base` is 0.

**RunQueue** is what this implements: one sequence, oldest first, changed
atomically. The refinement mapping (`Contents`, `Out`) counts a slot that a thief
or the owner has claimed as still in the queue until the claim is decided.

### Blocking: giving up a worker and getting one back

`ready` is the union of all run queues; `this[w]` is `env->this_thread`;
`leaving[w]` is the thread whose callback worker `w` executes; `saved` is the set
of threads whose context is complete. A blocking thread is *popped for* first
(`Leave`), then its context is saved (`SwapContext`), then the callback runs on the
worker. Thus both threads and workers are agents with a `pc`.

### Mutex: mutexes and condition variables

`state`, `sleepq` and `condq` are the fields of the two objects; `val` and
`waking` are the locals `s` and `to_wake`; `cond` and `then` say which condition
variable a call is about and where it returns.

| Code | Actions |
|---|---|
| `myth_mutex_lock_body` | LockBegin, LockRead, LockTake / LockSeat / LockRetry, LockBlock, EnqueueLocker |
| `myth_mutex_trylock_body` | TryLockBegin, LockRead / TryBusy, LockTake / LockRetry |
| `myth_mutex_timedlock_body` | TimedLockBegin, the actions of trylock, TimedOut / TimedRetry, TimedYield / TimedNoYield |
| `myth_mutex_unlock_body` | UnlockBegin, UnlockRead, UnlockSeat / UnlockFree / UnlockRetry, UnlockDequeue, UnlockClear, UnlockPush |
| `myth_cond_wait_body` | WaitBlock, EnqueueWaiter, the actions of unlock on the worker, then those of lock |
| `myth_cond_signal_body`, `broadcast` | SignalBegin / BroadcastBegin, WakeNobody / WakeDequeue, SignalPush / BroadcastPush |

`Next` lets threads call anything the interface allows of clients that unlock only
what they hold. **Monitor** is the abstract specification: an owner, and a queue
of waiters per condition variable. **CondBroadcast** and **FELock** run the programs
of `tests/myth_cond_broadcast_0.c` and `tests/myth_felock.c` on these actions;
FELock adds `status` and the loops of `wait_and_lock` and `mark_and_signal`. **MCPrograms**
extends FELock with an instance of CondBroadcast and runs one or the other, as its initial state chooses.

### Threads: the life of a thread

Where Blocking has one set of runnable threads, Threads has a queue and a list of free
descriptors for each worker, and the fields of each descriptor. `pc[w]` is what worker `w`
executes (its scheduler, its thread, or one of the callbacks), `this[w]` its
`env->this_thread`, `next[w]` the thread its callback switches to. Every step from a lock
to an unlock without a switch in between is one action; a lock that is kept over a switch
is a variable, with the worker it was taken on.

| Code | Actions |
|---|---|
| `myth_create_ex_body`, `myth_create_1` | CreateChildFirst, CreateCallback; CreateParentFirst |
| `get_new_myth_thread_struct_desc`, `init_myth_thread_struct` | NewDesc, InitThread (parts of the above) |
| `myth_yield_ex_body` | Yield, YieldCallback |
| `myth_join_body`, `myth_join_2`, `myth_join_3` | JoinFinished / JoinBlock, JoinCallback, JoinResumed, Reap |
| `myth_tryjoin_body`, `myth_timedjoin_body` | JoinFinished, Reap (a thread that has not finished changes nothing) |
| `myth_detach_body` | DetachFinished / Detach |
| `myth_entry_point_cleanup` and its callbacks | ExitToJoiner / Exit, ExitNotDetached, ExitPublish, ExitUnlock, or ExitDetached, ExitFree |
| `myth_sched_loop` | Resume |

**ThreadLife** is what this implements: a descriptor is free, running or finished, and
is claimed by one join or detach before it is free again. `life` in Threads is the
refinement mapping.

### Workers: the runtime from its start to its end

The actions follow `myth_init_ex_body` (TrySet / LoseRace / FindInitialized, StartWorkers),
`myth_worker_thread_fn` (Setup, Barriers, Schedule, PopFirst, Enter, Resume, SeeExitFlag,
FiniQueue), `myth_internal_barrier_wait` (Arrive and Wake, with both phases and a worker
that was woken but has not looked yet), the main thread (Initialized, CreateChild, ChildExit)
and `myth_fini_body` (BeginFini, LeaveWorker, Pass / PassElsewhere, NotifyExit, FiniReally).
Of the queues only the one thread that matters is kept: where the main thread is. The
runtime may be started again by a second caller.

### TLS: keys and the tree of values

The allocator of keys is modelled access by access: CreateRead / CreateNone, CreateNext,
CreatePop / CreateRetry and CreateMark for `myth_tls_key_allocator_alloc`, DeleteBegin,
DeleteCheck / DeleteUnused, DeleteRead and DeletePush / DeleteRetry for `..._dealloc`. Threads
create and delete whenever they like, and delete any key, in use or not, also one that
another thread is deleting; keys outside the array return EINVAL at once and change nothing.
When the free list is damaged the head may become `(void *)-1`, and a create that follows
it ends the process (CreateFault). Two history variables, which no guard reads, say what
has gone wrong: `returned` has the threads before their CAS whose key was given back since
they read its `next`, and `faults` tells whether such a CAS has succeeded (`"stale"`), and whether
a second delete has found its key still marked (`"doubled"`).

A tree is the set of its nodes, each named by
the digits that lead to it; Get, Set, Exit (destructors and destruction) and Start
(`myth_tls_tree_init`) are the operations on it. `Reached` and `BaseOf` are the two
recursions as they are written, over the levels of the tree.

### Barrier, JoinCounter and BoundedBuffer

**Barrier** models `myth_barrier_wait_body`, the lock-free sleep stack it sleeps on
(`push_next`, `push_cas`, `pop_read`, `pop_next`, `pop_cas`, with `next` of each thread as a
variable of its own, so that a stale `next` is possible) and
`myth_wake_many_from_stack`. **JoinCounter** models `wait` and `dec` with `state` as the
code packs it (`CalcBits` is the `calc_bits` of the source, `Decs` and `Announced` are the two
numbers in the word) and `myth_wake_many_from_queue`. Its initial states are all the
programs in which each thread decrements, waits, does both or neither.
**BoundedBuffer** models the once control (OnceRead, OnceTry, OnceRoutine, OnceComplete,
OncePoll) and the unconditional variable (UncondWait, UncondWaitCallback, UncondSignal,
UncondSignalClear, UncondSignalPush), and runs the program of
`tests/myth_uncond_bounded_buf.c` on them: producers that claim slots with a CAS and owe
the consumer a signal when they find its bit set.

## Runs

`tlc -workers 2 -config X.cfg M` for each pair below. States are distinct states
(after symmetry reduction, where the configuration has it). Each configuration lists
the properties that have something to say; the type invariant of each module, which
holds in the same instances, is proved where the module has a proof.

| Run | Module, configuration | Bounds | States | What it shows |
|---|---|---|---|---|
| `queue` | MCWSQueue, MCWSQueue | owner, 2 thieves, 4 threads, 3 slots | 599,000 | no thread twice, none lost, no access outside the array, abort only when full; every behaviour is one of RunQueue |
| `queue_drain` | MCWSQueue, MCWSQueueDrain | owner, 2 thieves, 3 threads, 4 slots, pop and take only | 60,780 | polling gets every thread out of the queue |
| `mutex` | MCMutex, MCMutex | 4 threads, 3 workers, 2 condition variables | 122,000 | all the safety properties of mutexes and condition variables; every behaviour is one of Monitor |
| `programs` | MCPrograms, MCPrograms | main and 2 incrementers of 2 increments, or a producer and 2 consumers with 2 batches; 2 workers | 24,613 | the test programs end with what they assert; empty means taken out |
| `barrier` | Barrier | 3 threads, 3 workers, barriers for 1, 2 and 3, 3 rounds | 368,000 | threads stay in step; the program ends; nobody enters during a wakeup; with more threads than the barrier is for, only whole groups pass |
| `join_counter` | JoinCounter | 3 threads, 3 workers, a counter for 2, every program | 156,524 | both numbers right, nobody early, nobody left asleep |
| `threads` | Threads | main and 2 descriptors, 3 workers | 27,700 | one place for each descriptor, `env` and locks right, no leak; every behaviour is one of ThreadLife |
| `workers` | Workers | 3 workers, 2 callers | 2,952 | the internal barriers hold, no queue is used before or after its life, the main thread knows where it is, init returns and fini ends |
| `tls` | MCTLS | 2 threads, 8 keys, of which 2 come and go and 3 are used | 433,860 | no key is lost or handed out twice but after one of two races; get returns what was set; destructors of the first leaf run |
| `tls_keys` | TLS, TLSKeys | 2 threads, 2 keys | - | a violation: see [Findings](#findings) |
| `tls_destructors` | TLS, TLSDestructors | 1 thread, 8 keys, one free in each of two leaves | - | a violation: see [Findings](#findings) |
| `bounded_buffer` | BoundedBuffer | 2 producers of 2 items, the consumer, 3 workers, 2 slots | 95,000 | the routine runs once, signals are owed exactly while somebody sleeps or is going to, the test program ends |

Why these bounds are enough:

- *Run queue.* `pop` takes its fast path only when it leaves two threads behind, so
  three threads are needed to reach every path; with a fourth thread and three slots the
  window drifts to both ends, is moved back, and overflows. Operations are not bounded:
  threads circulate between the queue and the hands of the workers. Two thieves
  compete for the lock and see each other's claims taken back. The theorems below lift
  the safety part to every size.
- *Mutex.* One thread unlocks, one is between its seat and its sleep, one
  comes in between, and one more waits for its turn; three workers let three of
  them (or two and a callback) move at once. Calls are not bounded. The second
  condition variable lets a signal find waiters of the other.
- *Barrier.* With three rounds a thread can be two rounds away from one that is
  still being woken if anything goes wrong, and the stack of the third round meets
  the stale `next` fields of the first. A barrier for two with three threads is the
  one that gets too many.
- *Join counter.* Two is a power of two, the boundary case of `calc_bits`; the
  programs include fewer, as many and more decrements than announced, and a
  thread that decrements and then waits.
- *Threads.* Two descriptors besides the main thread are enough for a joiner, its target
  and a bystander, and for a descriptor that is freed and created anew while the
  callback of its last thread is still to unlock it, which needs the third worker.
  Creations are not bounded. The invariants were checked once for 4 descriptors on 3
  workers (2.7 million states), the temporal properties for 4 on 2.
- *Workers.* Three workers are one that is through a barrier, one that sleeps in it
  and one that arrives in the next; two phases of the counter are used three times, so
  that a counter is reset while it may still be looked at. The second caller comes before,
  during or after the life of the first one's runtime.
- *TLS.* Two levels with two children and leaves of two entries have every case of the
  arithmetic on digits. Two free keys are a head and a next: a key can be created, deleted and
  created again, and the other one with it, while a thread is between its reads and its CAS. They
  share a leaf; the third key that threads set (`Used`) is in another and stays. The
  constraint `FaultsAlone` of MCTLS bounds what comes after a fault: TLC goes on only while no thread
  has a tree, since the values have nothing to do with the free list, which the theorem about
  them confirms.
- *Bounded buffer.* Four items and two slots make the buffer full and empty again, so
  producers yield and the consumer sleeps more than once.

Deadlock is checked in the run in which there is always something to do
(`queue_drain`). The other configurations say why the system may stop: the
program ends, the process does, or all the threads wait for somebody who is not
going to come.

## Fairness

`Drained`, `EverybodyReturns`, `InitReturns`, `ProgramsFinish` and `Finishes` of Barrier assume
weak fairness of each worker, thread and callback: the workers are OS threads that never
stop, a thread that has a worker executes until it gives it up, and the scheduler of an
idle worker polls for ever. The spin locks are unfair, and a CAS that fails may fail
again as long as others make progress; in the runs of whole programs others run out of
things to do.

`Finishes` of BoundedBuffer needs more, since its threads poll and yield: a thread
that is in a run queue may be passed over while others are taken. But `myth_queue_put`
puts a yielding thread at the end of the queue that its worker reaches last, so the worker
comes to all the others first. `SF_vars(Takes(th))` says that each gets its turn.

Two properties have an antecedent instead of an assumption. `Reclaimed` (Threads) is about
programs that stop creating and yielding in the end (`Calms`): a worker that always finds
a newer thread never gets to the older ones of its queue. `FiniEnds` (Workers) needs worker 0
to take the main thread when it is offered it, and others not to steal it for ever
(`ComesHome`): neither `myth_queue_trypass`, which refuses when `base` is 0, nor the thieves give a
bound. Only what a thread cannot help doing is fair in Threads (`Proceed`): it need not
create, join or detach anything, but it is over some time.

The client is *not* assumed to be fair or to return what it holds except in the
programs taken from the tests, which are modelled with the calls they make.

## Proofs

`WSQueueProofs` proves for **every** set of workers with an owner, every set of threads and
every array of at least two slots (the three assumptions of `WSQueue`):

| Theorem | States |
|---|---|
| TypeCorrect | `Spec => []TypeOK` |
| NeverTwice | `Spec => []NoThreadTwice` |
| NeverLost | `Spec => []NoThreadLost` |
| InBounds | `Spec => []AccessInBounds` |
| AbortsLate | `Spec => []AbortsOnlyWhenFull` |

The argument. None of the properties is inductive: that no thread is in two places
depends on who may write `top` and `base` when. The invariant `IInv` adds:

- `LockOK`: the lock word names exactly the worker whose `pc` is in a critical
  section, so there is one of them;
- `OwnerOK`: `top` is written by the owner only, so what it read is still true
  (`idx[Owner] = top` between its steps);
- `HolderOK`: `base` is written by the holder of the lock only, so what a thief
  read is still true (`base = idx[w] + 1` while it has a claim);
- `ArgOK`: a thread that is being enqueued stays in its worker's hand until it
  is published, and is in the slot just before that;
- `WindowOK`: the undecided slots `Lo .. Hi - 1` are a window inside the array,
  even while the owner and a thief have both claimed;
- `ContentsOK`: the threads in the occupied slots and those in the hands are
  all the threads, each once (`Consistent`).

`Consistent` changes in four ways only, each a lemma: a slot outside changes
(`ConsistentFrame`), the window moves (`ConsistentShift`), a thread comes from a hand
(`ConsistentInsert`), a thread goes to a hand (`ConsistentRemove`). The step that needs
thought is the race for the last threads: the owner lowers `top` before it reads
`base`, a thief raises `base` before it reads `top`, so that at least one of them
sees the other's claim; `PopFast`, `TakeReadTop` and `PopLocked` use `WindowOK` for
just that. `AbortsLate` needs one more conjunct, `FatalOK`: whoever has aborted is still
at the step where the window filled the array. TLC evaluates the assumptions in every run
of the queue.

`WSQueueProofs` goes on to prove, under the same assumptions, `Implements == Spec => ImplementsRunQueue`:
the array is an atomic sequence. `Seqn(p, lo, hi)` is the sequence of the slots `lo .. hi - 1`,
and a lemma for each end says what a slot more or less does to it (`SeqnAppend`, `SeqnPop`,
`SeqnTake`, `SeqnPass`) and that moving all of them does nothing (`SeqnMoved`). `Window` gives
from `IInv` that the undecided slots all hold threads, and that the slot a thief or the
owner has won is outside of them. Then each operation takes effect in one step:
`PushPublish` for push, `PopReadBase` on the fast path and `PopLocked` on the slow one for
pop, `TakeReadTop` for take, `PassPublish` for trypass and `PutStore` for put. All the other steps
leave the sequence and what the workers have out alone, also the ones in which `base` or
`top` move back and forth (`TakeClaimUnseen`, `PopDecrementUnseen`), in which the window is moved
(`PushShiftUnseen`) and in which it is reset (`PopResetUnseen`).

`MutexProofs` proves for **every** finite set of threads, every set of workers and
every set of condition variables (`BlockingAssumption`, `CondsAssumption`):

| Theorem | States |
|---|---|
| TypeCorrect | `Spec => []TypeOK` |
| Exclusion | `Spec => []MutualExclusion` |
| Counting | `Spec => []StateCounts` |
| NoLostWakeup | `Spec => []NoSleeperForgotten` |
| NoLostSignal | `Spec => []WaitersAreQueued` |
| SavedBeforeVisible | `Spec => []ContextSaved` |
| NoAbort | `Spec => []AssertionsHold` |
| NoThreadLost | `Spec => []InOnePlace` |
| Implements | `Spec => ImplementsMonitor` |

The argument. The mutex word is right only because a dequeue wakes a thread that
really is asleep, so the invariant `IInv` has two halves. About threads and queues:

- `Roles`: `leaving` is set exactly while a worker switches contexts or runs a
  callback, `waking` exactly between a dequeue and the push that follows;
- `Placed`: a thread is on one worker, in one callback, with one waker or in a run
  queue, never in two of these;
- `Asleep`: a thread that is at a sleep is in none of them but a callback;
- `QueuesOK`: each sleep queue holds threads that are at its kind of sleep, each
  once, whose callbacks are over;
- `Waiting`: a thread in `cond_wait` is in its callback or in its queue;
- `SavedOK` and `LocalsOK`: what is saved, and what the locals hold while in use.

From these, `DequeueWakes` gives what every dequeue does: it takes one thread from one
place, and no other thread notices. The other half is `MutexOK`: mutual exclusion,
the count of `state`, the progress of a free mutex, and that the value an unlocker
read stays locked until its CAS. All but seven actions are `Quiet`: they leave `state`
alone and everybody where `MutexOK` looks for them. The seven are one lemma each. Two
carry the weight: `UnlockClear` frees a mutex others may sleep in, and the
thread it dequeued before is then at the head of the loop of `lock`, which is why the
dequeue comes before the clearing of the bit; and `EnqueueWaiter` hands the mutex
from a thread that is now in the queue to the worker that unlocks for it.

`NoThreadLost` adds the other half of `Placed`: `Somewhere`, that a thread is in at least
one place. `IInv` and `Somewhere` together are inductive (`SomewhereStep`: whatever a step
takes out of a place it puts in another one, and nothing else is overwritten, since
by `Roles` the slots `leaving` and `waking` are empty when they are written), and `PlacesDiffer`
gives from `IInv` that no two of the places are taken by one thread.

`Implements` shows on the same invariant that the mutex and its condition variables
implement Monitor. Under mutual exclusion `Owner` is the thread that holds the mutex, or
`NULL` when nobody or only a callback does (`OwnerNow`, `OwnerNext`). `LockTake` is the Lock (its
thread is in no queue, since those in a queue are at `cond_sleep`), `EnqueueWaiter` the Wait
(from then on the worker holds the mutex, and the owner is gone), the dequeue of signal
and broadcast the Wake, and `UnlockFree` or `UnlockClear` the Unlock of a thread; by a callback they change
nothing. All the other steps keep every holder and every queue of a condition variable.

The last part of `MutexProofs` extends this to the program of `tests/myth_felock.c`, for **every**
finite set of threads and every number of iterations. Each of its theorems has `FELockAssumption`
as a hypothesis (there is a condition variable for each status, the main thread is a thread,
there is something to do), which TLC evaluates in the run `programs`:

| Theorem | States |
|---|---|
| FEInductive | `FESpec => [](IInv /\ FEInv)`, with the `IInv` of the mutex |
| EmptyMeansTaken | `FESpec => []EmptyIsTaken` |
| NoIncrementIsLost | `FESpec =>` always, when every thread is over, `count` is `Iterations` times the number of incrementers |
| NobodyLeftWaiting | `FESpec =>` always, when the mutex is free and threads sleep until the status it has, another thread that waits for that status is awake |

The argument. A step of the program is one of `Next`, or leaves the variables of the mutex
alone, or takes a thread from its worker for good (`FinishKeeps`), so `IInv` carries over
(`MutexKept`) and with it mutual exclusion. `Inside(th)` is a thread that has returned from
`wait_and_lock` and has not unlocked; it holds the mutex, also during the signal
(`InsideHolds`), so there is one of them (`OneInside`). `Places` says where a thread may be while it waits for
a status and while it does not, `TakenOK` that an incrementer has the counter just from its take to its put,
`StatusOK` that nobody but the thread inside can have it, and that the status tells when nobody is
inside. While somebody is, the status may be either: `MarkAndSignal` changes it long before the
unlock, which is why `EmptyIsTaken` by itself is not inductive. `count` is the cardinality of
`Puts`, one pair of an incrementer and a number for each put; all of them are there when every
thread is over. Most steps are the mutex's own: `RuntimeMoves` says how any of them moves a
thread of the program (`Moves`), and `InsideFrame` that then nothing else changes.

`NobodyLeftWaiting` is why one signal for each change of the status is enough, the safety half of
`Finishes`. Its invariant, `Heard`, says that as long as threads sleep until the status is what it is, either
one of those that wait for it is awake (`Comers`), or a thread inside has yet to change the status or to signal
(`WillSignal`). A signal reaches one of them because by `Queued` they are all in the queue already, and
there in the one for the status they wait for (`CondsOK`); a waiter that finds the status right becomes the
thread inside, and whoever is inside holds the mutex. TLC checked `Heard` with four threads first.

`BarrierProofs` proves for **every** finite set of threads, every set of workers, every set of
sizes and any number of rounds (`BlockingAssumption`, `BarrierAssumption`):

| Theorem | States |
|---|---|
| WholeGroups | `Spec => []WholeGroupsPass`, however many threads use the barrier |
| Inductive | `Spec => []IInv` |
| AllInStep | `Spec => []InStep` |
| NobodyEntersEarly | `Spec => EntrantsWait` |
| TypeCorrect | `Spec => [](Fits => TypeOK)` |
| NeverFatal | `Spec => [](Fits => ~fatal)` |

`WholeGroups` is an argument of counting that does not look at the sleep stack. `GroupsOf(r)`
says that all the calls that have been counted are `r` whole groups and the `state` of the open one, and
that the returns, those that the last threads of groups still owe (`Owed`: themselves and
as many as their `count`) and those of the threads woken already are at most `n * r`. Only the
CAS of a last thread makes `r` grow, by just as many returns as it then owes (`CountGroups`); a
wakeup or a return only moves one from owed to woken or to passed, whoever it is that is woken.

The others hold when the barrier is for the threads that use it (`Fits`). `RoundOK(e)` says that each
thread is in, out of, or still on its way out of round `e` (`Came`, `Out`, `Late`), that `state` counts those
in, and that nobody is in while a last thread pops (`OthersWait`). `StackOK(s, e)` says of a sequence
`s` of sleeping threads that the links from `top` run through just these (`Chained`), that who is leaving for the
stack is not on it yet (`LeaversOK`), who is in a batch is not on it any more (`BatchesOK`), and what the
CAS of a pop has read is still so (`PopsOK`): there is one thread that pops, nobody pushes
what it has popped back before it is done, and so a stale `next` (ABA) is impossible although the code has
no counter against it. The invariant is that there are such an `e` and `s`; each action is one
lemma that gives those of the next state: `ResetGood` the round `e + 1`, `PublishGood` the
sequence with one thread more, `PopGood` its tail. `OthersWait` gives
`EntrantsWait`: the others are all asleep, or on their way to the stack, until the whole batch has
been popped, so that a pop takes only threads of its own round. The invariant was checked by TLC, with `s` read
off the links, before it was proved.

`ThreadsProofs` proves for **every** set of descriptors and every set of workers
(`ThreadsAssumption`):

| Theorem | States |
|---|---|
| TypeCorrect | `Spec => []TypeOK` |
| EnvIsRight | `Spec => []EnvIsWorker` |
| UsedOnce | `Spec => []OnePlace` |
| LocksHeld | `Spec => []HoldsItsLock` |
| NoAbort | `Spec => []AssertionsHold` |
| Implements | `Spec => ImplementsThreadLife` |

The argument. That a thread is in one place would need a statement for each pair of
places; `th->env` saves it. `EnvOK` says that whoever has a thread (`Has(w, th)`: in its queue, on
it, or about to run) is its `env`, so two workers cannot both have it, and what remains
is one worker (`ShapeOK`). `FreeOK` says that nobody has a free descriptor. The rest of
`IInv` is what the handshake of join and exit rests on: `StatusOK` (what is queued is
READY, what a callback leaves is not yet final), `TargetsOK` (a thread that joins has
claimed its target, which is in use and not detached, and nobody else has that target),
`JoinersOK` (a published joiner is BLOCKED, with nobody, until the exiting thread has taken
it), `CallsOK` and `LocksOK` (who holds which lock over which switch, and that new memory is
unlocked). `New`, `Alone` and `Sleeps` say what creating, leaving and waking do; then there is
one lemma for each action. The refinement maps `ExitPublish` to the end of a thread,
`ExitFree`, `Reap` and `DetachFinished` to the three ways a descriptor is freed, and every
callback to a stutter: in `ExitFree`, that the descriptor was claimed comes from `TargetsOK`.

`JoinCounterProofs` proves for **every** finite set of threads and every `n_threads`
(`BlockingAssumption`, `JoinCounterAssumption`):

| Theorem | States |
|---|---|
| CalcBitsRight | `CalcBits(x)` is the least `b` with `x < 2^b` |
| TypeCorrect | `Spec => []TypeOK` |
| CountsAreRight | `Spec => []StateCounts` |
| NobodyReturnsEarly | `Spec => []ReturnsWhenComplete` |

Each has one hypothesis, `PowerLaw`: 2^(b + 1) = 2 * 2^b for every natural b. It is
arithmetic, not an assumption about the code; the installed provers know no law of
exponentiation beyond single values. From it, `CalcBitsRight` shows that the `CHOOSE` in `CalcBits`
has something to choose, by the least element of a set of naturals; so `Unit` is more than `N`,
a decrement never spills into the number of waiters, and one unit added leaves the
decrements alone. `IInv` then relates the two numbers to sets of threads: `QueueOK` (who is in the
sleep queue sleeps, once, and has left its worker), `LeavingOK` (who leaves is asleep, and not
in the queue yet), `CallsOK` (the locals of a CAS in progress) and `WakingOK` (only the thread that
made the last decrement wakes, and the counter is complete then). Each action adds one
thread to `Counted` or `Announcers`, or takes one away, and the library's facts about the
cardinality of finite sets do the counting.

`BufferProofs` proves for **every** finite set of threads, every set of workers, any number of
items and any size of the buffer (`BlockingAssumption`, `BufferAssumption`):

| Theorem | States |
|---|---|
| RunsOnce | `Spec => []OnceOnly` |
| NoSignalLost | `Spec => []SignalOwed` |
| UsedOnce | `Spec => []OnePlace` |

The argument. `OnceOK` says for each state of the once control who may be where: before it is
completed nobody is past it, and there is one winner while the routine runs. That is why
`OnceRoutine`, which initialises the buffer and the variable, finds nobody using them.
`OwedOK` is `SignalOwed` without cardinalities: the consumer sleeps, or has decided to, just while the
bit is set or one producer owes a signal. Three steps carry it: `GetCAS` sets the bit
and makes the consumer sleep in one access; `PutCAS` takes the bit and the debt in one; and the
other steps of a producer only carry the debt on, until `UncondSignalPush` pays it. `ParkedOK`
follows the consumer from the callback into the variable, to the hand of the one who signals and to
the run queue: nobody else is ever in the variable, so a signal needs no lock, and it is cleared
before the thread is pushed. `Places` and `LeavingOK` are about Blocking alone.

`WorkersProofs` proves for **every** number of workers and every set of callers of
`myth_init` (`WorkersAssumption`):

| Theorem | States |
|---|---|
| StaysInStep | `Spec => []BarriersHold` |
| QueuesLastLongEnough | `Spec => []QueuesAreAlive` |
| MainKnowsItsWorker | `Spec => []MainIsWhereItThinks` |

The argument. `InStep(e)` says that all workers are through `e` internal barriers, or are let
through the last of them, and that the counter of the current phase is the number of those that
have arrived in the next one, all of which sleep there; the other counter is `N`, so whoever wakes
up late still finds it full. The last worker to arrive turns `InStep(e)` into `InStep(e + 1)`
(`ArriveInStep`), every other step leaves `e` alone. `Together` is what the rest needs of it: once one
worker may steal, all of them are through the second barrier and none is through the third, which gives
`QueuesAreAlive` by `AliveOK` (a queue is alive just between `Setup` and `FiniQueue`). `MainOK` follows the main
thread: it is on one worker or in one queue, and that worker is its env, except while it
leaves to be passed to another one.

`TLSProofs` proves for **every** finite set of threads and a tree of any depth and width
(`TLSAssumption`):

| Theorem | States |
|---|---|
| KeysAccounted | `Spec => []KeysAccountedFor` |
| KeysHaveTheirEntries | two keys with the same leaf and the same entry are one key |
| TreeInvariance | `Spec => []TreeInv` |
| ValuesStay | `Spec => []GetsWhatItSet` |
| FirstLeafServed | `Spec => FirstLeafDestructorsRun` |

Each has the hypothesis `PowerLaw` (`Children ^ 0 = 1`, and one more in the exponent is one more factor
`Children`): arithmetic again, for an exponent that is not a number but `Depth`.

The keys. `Listed` follows the links of the free list. The invariant `KInv` says that the variables
have their types, whatever has happened (`AllocTypes`), and that, while `faults` is empty, there is a
sequence `s` of keys, each once, with `next` leading through just these from `free` to NULL
(`FreeList(s)`), and that every key is in `s`, held, or in the hands of exactly one thread. What makes the pop
right is the last conjunct: a thread between its reads and its CAS may have a key that has gone, but
if the key is in the list, the `next` it has seen is the one of the list, so a CAS that succeeds takes the head and
nothing else. A push brings a key back with another `next`; the threads that have it in front of their
CAS are in `returned` from then on, and the conjunct is about the others. So the proof shows that there are
just two steps at which `KInv` needs `faults` to stay empty, CreatePop (`PopKeys`) and DeleteCheck
(`CheckKeys`): whatever goes wrong begins with the race of `tls_keys`, or with two deletes of one key. `LinkedDrop`, `LinkedPush` and `LinkedFrame` say what a pop, a push and a write elsewhere do to
the sequence; `InitLinked` that `myth_tls_key_allocator_init` links the free keys in order; `ListIs` that the
function the property is written with walks through `s` and ends.

The values. A key is its digits: `PathIs` says that the nodes on the way to its leaf are those
which its digits name, and `KeysHaveTheirEntries`, from laws of quotients (`DivDiv`,
`DivUnique`), that no other key has them. `TreeOK(th)` then relates the tree of a thread to
what it has set: a leaf that is there has its whole path, and holds just the values set for its keys; a leaf that
is missing has none. It is kept by `Set` (the new leaf is cleared, and only one entry changes), by `Exit` and by
`Start`, which find nothing of the last user of the descriptor.

The destructors. On the first leaf all digits are 0, so the loops that leave at the first missing
child do come by, and the base they compute is 0 at each level whatever they add for
other children (`FirstBase`); hence `Exit` reaches exactly the path of that leaf, calls what is due with
the thread's own data, and destroys all there is. For other leaves it is false: see [Findings](#findings).

Both invariants were checked by TLC in the instance of the run `tls`, with `s` of at most two keys, too.

Only model-checked:

- liveness (`Drained`, `ProgramsFinish`, both `Finishes`, `EverybodyReturns`, `Reclaimed`, `InitReturns`,
  `FiniEnds`): fairness is beyond the prover. Every invariant and every action property of a passing
  run has its theorem;
- that a broadcast lets the program of CondBroadcast end; the safety of its mutex
  and condition variable is that of Mutex.

## Assumptions and limits

- *Memory* is sequentially consistent. The algorithm puts a full barrier between
  each store and the load that must not pass it (`myth_wsqueue_rwbarrier`), and its
  other accesses are ordered on the machines it supports. A run queue with store
  buffers is planned.
- *Run queues in Blocking* are one set: a worker may get any runnable thread, since
  it may pop or steal, and a pop may return nothing although there are threads. This
  allows more than the queues do; the order inside a queue is WSQueue's subject.
- *Sleep queues* are atomic because each of their operations is one critical section
  of their own spin lock. The sleep stack is not: it is modelled CAS by CAS.
- *Dequeue by a mutex or a condition variable*: `myth_wake_one_from_queue` spins
  until a thread is there; the model waits for that with a guard.
- *The client contract*: a thread unlocks only what it holds, waits with the mutex
  held, joins or detaches a thread once, and a felock, a join counter or an unconditional
  variable is used as in the tests or as the run says.
- *Keys*: what a thread has set belongs to the number of the key. A key that is deleted and
  created again has the old values, in the code and in `GetsWhatItSet`.
- *Destructors* are also called for keys whose value is NULL, and `destr_function` is not
  ignored as `myth.h:1424-1446` has it; `FirstLeafDestructorsRun` is about what the code does.
- *Configuration*: the modules follow the branches that the defaults of `myth_config.h`
  select (the quick check of a thief and of pop, no quick check on join, the switch after
  the exit, stacks that come and go with descriptors).
- *myth_init*: a caller that has lost the race polls until the state is "initialized".
  When the runtime comes to its end before the caller looks, it goes on waiting for the
  next start; `InitReturns` accepts a runtime that has ended again, and does not say that the
  caller returns then.

## Not modelled

- `myth_rwlock_*` and `cond_timedwait` call `unimplemented()`. `timedlock` and `timedjoin` are
  modelled as they are written: they poll.
- Cancellation (`myth_cancel`, `myth_testcancel`, ...): flags that a thread reads of itself,
  and an exit like any other.
- The variants that create or join many threads: loops around `create` and `join`.
- `myth_queue_peek` (an unlocked hint whose answer nothing relies on), the steal
  cache (`wc`, which `pop` invalidates and only the custom steal functions of the
  native interface read), and custom steal functions.
- Attributes of threads and of the runtime, the counting of CPUs, the binding of workers:
  values that are read once, or system calls.
- Store buffers and the context switch itself: the modules assume the contract of
  `myth_mem_barrier_func.h` and of `myth_context_func.h`.
- The size classes of `myth_flmalloc` and the lists of stacks: each belongs to one worker.
- Worker-local storage and the wrappers of pthread, malloc and sockets: calls that are
  passed on. They, the profiler (`src/profiler`), the examples and the C++ templates are
  most of the lines of the repository, and have no protocol of their own with
  the runtime.

## Findings

`tls_keys` (a bug). `myth_tls_key_allocator_alloc` reads the head of the free list and its
`next` and pops with a CAS that compares the head only (`myth_tls_func.h:275`). In the run
thread 2 has read key 0 and its next, 1; thread 1 creates 0, creates 1 and deletes 0;
the CAS of thread 2 succeeds and makes 1 the head, and the next create returns key 1, which is
in use, where the comments speak of unused and free keys (`myth_tls.h:12`, `46`). If thread 2
reads the next while key 0 is in use, the head even becomes `(void *)-1`. A second race is left out
of that property, since a program should not delete a key twice: the check that the key is in
use (295) passes for a second delete until the first has linked the key (303), and then the
key is in the list twice. `KeysAccountedFor` shows that nothing else goes wrong.

`tls_destructors` (a bug). `myth_tls_call_destructors_rec` leaves its loop over the
children of a node at the first child that is missing (`myth_tls_func.h:138`), where it
should go on with the next, and adds `stride` instead of `c_stride` to the base of the keys
(140); `myth_tls_tree_destroy_rec` does the same (166, 168). A thread that has used a
key of a later leaf, and none of the first one, exits without running its destructor
and without freeing its nodes, although the comments promise "all" (102, 146, 153). In
leaves other than the first, destructors of other keys are looked up. `tls` shows that
threads which use keys of the first leaf only are served as promised.

A comment and the code also disagree about barriers, harmlessly with the right number of
threads. The comments at `src/src/myth_sync_func.h:241-246` and `355-360` say that threads
which enter `barrier_wait` while a wakeup is in progress wait until all threads have been
dequeued, by an invalid bit in `barrier->state`, and line 834 describes that bit. The
code resets `state` to 0 (line 868) *before* it pops the sleepers and has no such bit. With
as many threads as the barrier is for, `EntrantsWait` holds nevertheless (run `barrier`):
all the others are still to be popped. With more threads it does not: one may count itself
for the next round while the last thread of this one still pops. `WholeGroupsPass` shows
that even then only whole groups pass; it counts, and does not look at the sleep stack.

## Plan

What could come next, in this order:

1. **Store buffers**: the run queue with the fences of the code as actions, and mutants
   without them.
2. Clients that never stop waiting, and a broadcast that chases them
   (`myth_sync_func.h:325`), which no property covers: a fairness of the whole program
   would decide whether it returns.
3. Cancellation, when it is more than a flag.
