------------------------------ MODULE WSQueue ------------------------------
(***************************************************************************)
(* The run queue of one worker of MassiveThreads (myth_wsqueue_func.h).    *)
(*                                                                         *)
(* A window [base, top) of the array ptr holds the runnable threads.  The  *)
(* worker that owns the queue pushes and pops at top, without the lock     *)
(* except when the window reaches the end of the array or is almost empty, *)
(* and puts (a yielding thread) below base.  Any worker takes (steals)     *)
(* from base or passes a thread below base, under the spin lock.           *)
(*                                                                         *)
(* One action is one access to shared memory, or one critical section      *)
(* whose intermediate states nobody can read.  Memory is sequentially      *)
(* consistent: every store-load pair the algorithm depends on has a full   *)
(* barrier (myth_wsqueue_rwbarrier) between them.                          *)
(*                                                                         *)
(* "hand" is not a variable of the queue: it says which threads a worker   *)
(* has out of the queue, the thread it runs or the one it is about to      *)
(* enqueue.  It is what makes "a thread is never run twice" expressible.   *)
(***************************************************************************)
EXTENDS Integers

CONSTANTS
    Workers,    \* the workers of the pool
    Owner,      \* the worker whose queue this is
    Threads,    \* the user-level threads
    Size,       \* q->size, INITIAL_QUEUE_SIZE in the code
    NULL        \* a null pointer, and "nobody holds the lock"

ASSUME OwnerAssumption == Owner \in Workers
ASSUME SizeAssumption == Size \in Nat /\ Size >= 2
ASSUME NullAssumption == NULL \notin Threads /\ NULL \notin Workers

VARIABLES
    top,        \* q->top: one past the newest thread
    base,       \* q->base: the oldest thread
    ptr,        \* q->ptr: the array
    lock,       \* q->lock: the worker that holds it, or NULL
    pc,         \* where each worker is in its queue operation
    idx,        \* the local variable t, top or b of that operation
    arg,        \* the parameter th of that operation, or NULL
    hand,       \* the threads each worker has out of the queue
    fatal       \* the process called abort()

vars == <<top, base, ptr, lock, pc, idx, arg, hand, fatal>>

Slots == 0 .. (Size - 1)
Middle == Size \div 2

OwnerPCs == {"push_lock", "push_crit", "push_store", "push_publish",
             "pop_dec", "pop_read", "pop_fast", "pop_lock", "pop_crit",
             "put_lock", "put_crit"}
AnyPCs == {"idle", "take_check", "take_lock", "take_inc", "take_read",
           "take_get", "take_undo", "pass_store", "pass_publish"}

(***************************************************************************)
(* myth_queue_init and myth_queue_clear: an empty window in the middle.    *)
(* The threads start out with the owner (worker 0 runs the main thread,    *)
(* which creates the others) and reach other workers by being stolen.      *)
(***************************************************************************)
Init ==
    /\ top = Middle
    /\ base = Middle
    /\ ptr = [i \in Slots |-> NULL]
    /\ lock = NULL
    /\ pc = [w \in Workers |-> "idle"]
    /\ idx = [w \in Workers |-> 0]
    /\ arg = [w \in Workers |-> NULL]
    /\ hand = [w \in Workers |-> IF w = Owner THEN Threads ELSE {}]
    /\ fatal = FALSE

Goto(w, from, to) ==
    /\ ~fatal
    /\ pc[w] = from
    /\ pc' = [pc EXCEPT ![w] = to]

\* The operation returns: its local variable is dead.
Return(w, from) == Goto(w, from, "idle") /\ idx' = [idx EXCEPT ![w] = 0]

Acquire(w) == lock = NULL /\ lock' = w
Release(w) == lock' = NULL

\* Worker w starts to enqueue a thread it has in hand.
Enqueueing(w, th) == th \in hand[w] /\ arg' = [arg EXCEPT ![w] = th]
\* The thread of w's operation is now in the queue.
Enqueued(w) ==
    /\ hand' = [hand EXCEPT ![w] = @ \ {arg[w]}]
    /\ arg' = [arg EXCEPT ![w] = NULL]
\* Worker w returns the thread in slot i from its operation.
Dequeued(w, i) == hand' = [hand EXCEPT ![w] = @ \cup {ptr[i]}]

\* memmove: the window, shifted by offset, over the old contents.
Shifted(offset) ==
    [i \in Slots |-> IF base + offset <= i /\ i < top + offset
                     THEN ptr[i - offset] ELSE ptr[i]]
MoveWindow(offset) ==
    /\ ptr' = Shifted(offset)
    /\ top' = top + offset
    /\ base' = base + offset

-----------------------------------------------------------------------------
(* myth_queue_push, by the owner                                           *)

\* Reads top; only when it is at the end of the array is the lock needed.
PushBegin(th) ==
    /\ Enqueueing(Owner, th)
    /\ idx' = [idx EXCEPT ![Owner] = top]
    /\ Goto(Owner, "idle", IF top = Size THEN "push_lock" ELSE "push_store")
    /\ UNCHANGED <<top, base, ptr, lock, hand, fatal>>

PushLock ==
    /\ Goto(Owner, "push_lock", "push_crit")
    /\ Acquire(Owner)
    /\ UNCHANGED <<top, base, ptr, idx, arg, hand, fatal>>

\* Mutant: the test for a full queue is forgotten.
PushShiftUnchecked ==
    LET offset == -((base + 1) \div 2) IN
    /\ Goto(Owner, "push_crit", "push_store")
    /\ MoveWindow(offset)
    /\ idx' = [idx EXCEPT ![Owner] = top + offset]
    /\ Release(Owner)
    /\ UNCHANGED <<arg, hand, fatal>>

\* The window goes down by half of the free space below it.
PushShift ==
    LET offset == -((base + 1) \div 2) IN
    /\ base # 0
    /\ Goto(Owner, "push_crit", "push_store")
    /\ MoveWindow(offset)
    /\ idx' = [idx EXCEPT ![Owner] = top + offset]
    /\ Release(Owner)
    /\ UNCHANGED <<arg, hand, fatal>>

\* "Fatal error:Runqueue overflow": no free space below it.
PushOverflow ==
    /\ base = 0
    /\ Goto(Owner, "push_crit", "push_crit")
    /\ fatal' = TRUE
    /\ UNCHANGED <<top, base, ptr, lock, idx, arg, hand>>

PushStore ==
    /\ Goto(Owner, "push_store", "push_publish")
    /\ ptr' = [ptr EXCEPT ![idx[Owner]] = arg[Owner]]
    /\ UNCHANGED <<top, base, lock, idx, arg, hand, fatal>>

PushPublish ==
    /\ Return(Owner, "push_publish")
    /\ top' = idx[Owner] + 1
    /\ Enqueued(Owner)
    /\ UNCHANGED <<base, ptr, lock, fatal>>

-----------------------------------------------------------------------------
(* myth_queue_pop, by the owner                                            *)

\* QUICK_CHECK_ON_POP: return NULL when the queue looks empty.
PopLooksEmpty ==
    /\ top <= base
    /\ Return(Owner, "idle")
    /\ UNCHANGED <<top, base, ptr, lock, arg, hand, fatal>>

PopBegin ==
    /\ top > base
    /\ Goto(Owner, "idle", "pop_dec")
    /\ UNCHANGED <<top, base, ptr, lock, idx, arg, hand, fatal>>

PopDecrement ==
    /\ Goto(Owner, "pop_dec", "pop_read")
    /\ top' = top - 1
    /\ idx' = [idx EXCEPT ![Owner] = top - 1]
    /\ UNCHANGED <<base, ptr, lock, arg, hand, fatal>>

\* After the full barrier: is the slot out of the reach of thieves?
PopReadBase ==
    /\ Goto(Owner, "pop_read",
            IF base + 1 < idx[Owner] THEN "pop_fast" ELSE "pop_lock")
    /\ UNCHANGED <<top, base, ptr, lock, idx, arg, hand, fatal>>

PopFast ==
    /\ Return(Owner, "pop_fast")
    /\ Dequeued(Owner, idx[Owner])
    /\ UNCHANGED <<top, base, ptr, lock, arg, fatal>>

PopLock ==
    /\ Goto(Owner, "pop_lock", "pop_crit")
    /\ Acquire(Owner)
    /\ UNCHANGED <<top, base, ptr, idx, arg, hand, fatal>>

\* Mutant: base is not read again under the lock.
PopLockedUnchecked ==
    /\ Return(Owner, "pop_crit")
    /\ Dequeued(Owner, idx[Owner])
    /\ ptr' = [ptr EXCEPT ![idx[Owner]] = NULL]
    /\ Release(Owner)
    /\ UNCHANGED <<top, base, arg, fatal>>

\* Under the lock, base is read again: the thread is still there.
PopLocked ==
    /\ base <= idx[Owner]
    /\ Return(Owner, "pop_crit")
    /\ Dequeued(Owner, idx[Owner])
    /\ ptr' = [ptr EXCEPT ![idx[Owner]] = NULL]
    /\ Release(Owner)
    /\ UNCHANGED <<top, base, arg, fatal>>

\* A thief has it: return NULL from a queue reset to its middle.
PopReset ==
    /\ base > idx[Owner]
    /\ Return(Owner, "pop_crit")
    /\ top' = Middle
    /\ base' = Middle
    /\ Release(Owner)
    /\ UNCHANGED <<ptr, arg, hand, fatal>>

-----------------------------------------------------------------------------
(* myth_queue_put, by the owner                                            *)

PutBegin(th) ==
    /\ Enqueueing(Owner, th)
    /\ Goto(Owner, "idle", "put_lock")
    /\ UNCHANGED <<top, base, ptr, lock, idx, hand, fatal>>

PutLock ==
    /\ Goto(Owner, "put_lock", "put_crit")
    /\ Acquire(Owner)
    /\ UNCHANGED <<top, base, ptr, idx, arg, hand, fatal>>

\* The thread goes below the window, which is first moved up by half of
\* the free space above it when it starts at slot 0.
PutStore ==
    LET offset == IF base = 0 THEN (Size - top + 1) \div 2 ELSE 0 IN
    /\ ~(base = 0 /\ top = Size)
    /\ Return(Owner, "put_crit")
    /\ ptr' = [Shifted(offset) EXCEPT ![base + offset - 1] = arg[Owner]]
    /\ top' = top + offset
    /\ base' = base + offset - 1
    /\ Enqueued(Owner)
    /\ Release(Owner)
    /\ UNCHANGED fatal

\* Mutant: the free space above the window is not considered.
PutOverflowEarly ==
    /\ base = 0
    /\ Goto(Owner, "put_crit", "put_crit")
    /\ fatal' = TRUE
    /\ UNCHANGED <<top, base, ptr, lock, idx, arg, hand>>

PutOverflow ==
    /\ base = 0 /\ top = Size
    /\ Goto(Owner, "put_crit", "put_crit")
    /\ fatal' = TRUE
    /\ UNCHANGED <<top, base, ptr, lock, idx, arg, hand>>

-----------------------------------------------------------------------------
(* myth_queue_take, by any worker                                          *)

\* QUICK_CHECK_ON_STEAL reads top and then base, without the lock.
TakeBegin(w) ==
    /\ Goto(w, "idle", "take_check")
    /\ idx' = [idx EXCEPT ![w] = top]
    /\ UNCHANGED <<top, base, ptr, lock, arg, hand, fatal>>

\* The queue looks empty: return NULL.
TakeLooksEmpty(w) ==
    /\ idx[w] - base <= 0
    /\ Return(w, "take_check")
    /\ UNCHANGED <<top, base, ptr, lock, arg, hand, fatal>>

TakeTry(w) ==
    /\ idx[w] - base > 0
    /\ Goto(w, "take_check", "take_lock")
    /\ idx' = [idx EXCEPT ![w] = 0]
    /\ UNCHANGED <<top, base, ptr, lock, arg, hand, fatal>>

TakeLock(w) ==
    /\ Goto(w, "take_lock", "take_inc")
    /\ Acquire(w)
    /\ UNCHANGED <<top, base, ptr, idx, arg, hand, fatal>>

\* Claims the oldest slot ...
TakeIncrement(w) ==
    /\ Goto(w, "take_inc", "take_read")
    /\ idx' = [idx EXCEPT ![w] = base]
    /\ base' = base + 1
    /\ UNCHANGED <<top, ptr, lock, arg, hand, fatal>>

\* Mutant: an off-by-one in the comparison with top.
TakeReadTopOffByOne(w) ==
    /\ Goto(w, "take_read", IF idx[w] <= top THEN "take_get" ELSE "take_undo")
    /\ UNCHANGED <<top, base, ptr, lock, idx, arg, hand, fatal>>

\* ... and, after the full barrier, sees whether the owner was first.
TakeReadTop(w) ==
    /\ Goto(w, "take_read", IF idx[w] < top THEN "take_get" ELSE "take_undo")
    /\ UNCHANGED <<top, base, ptr, lock, idx, arg, hand, fatal>>

TakeGet(w) ==
    /\ Return(w, "take_get")
    /\ Dequeued(w, idx[w])
    /\ Release(w)
    /\ UNCHANGED <<top, base, ptr, arg, fatal>>

\* Mutant: the claimed slot is not given back.
TakeUndoKeepsBase(w) ==
    /\ Return(w, "take_undo")
    /\ Release(w)
    /\ UNCHANGED <<top, base, ptr, arg, hand, fatal>>

\* Mutant: the lock is not released on the way out.
TakeUndoKeepsLock(w) ==
    /\ Return(w, "take_undo")
    /\ base' = idx[w]
    /\ UNCHANGED <<top, ptr, lock, arg, hand, fatal>>

TakeUndo(w) ==
    /\ Return(w, "take_undo")
    /\ base' = idx[w]
    /\ Release(w)
    /\ UNCHANGED <<top, ptr, arg, hand, fatal>>

-----------------------------------------------------------------------------
(* myth_queue_trypass, by any worker                                       *)

\* Mutant: the slot below the window is used without testing for one.
PassBeginUnchecked(w, th) ==
    /\ Enqueueing(w, th)
    /\ Goto(w, "idle", "pass_store")
    /\ Acquire(w)
    /\ UNCHANGED <<top, base, ptr, idx, hand, fatal>>

\* The lock was free and there is a slot below the window.
PassBegin(w, th) ==
    /\ Enqueueing(w, th)
    /\ base # 0
    /\ Goto(w, "idle", "pass_store")
    /\ Acquire(w)
    /\ UNCHANGED <<top, base, ptr, idx, hand, fatal>>

PassStore(w) ==
    /\ Goto(w, "pass_store", "pass_publish")
    /\ ptr' = [ptr EXCEPT ![base - 1] = arg[w]]
    /\ UNCHANGED <<top, base, lock, idx, arg, hand, fatal>>

PassPublish(w) ==
    /\ Return(w, "pass_publish")
    /\ base' = base - 1
    /\ Enqueued(w)
    /\ Release(w)
    /\ UNCHANGED <<top, ptr, fatal>>

-----------------------------------------------------------------------------
OwnerStep ==
    \/ \E th \in Threads : PushBegin(th) \/ PutBegin(th)
    \/ PushLock \/ PushShift \/ PushOverflow \/ PushStore \/ PushPublish
    \/ PopLooksEmpty \/ PopBegin \/ PopDecrement \/ PopReadBase \/ PopFast
    \/ PopLock \/ PopLocked \/ PopReset
    \/ PutLock \/ PutStore \/ PutOverflow

TakeStep(w) ==
    \/ TakeBegin(w) \/ TakeLooksEmpty(w) \/ TakeTry(w) \/ TakeLock(w)
    \/ TakeIncrement(w) \/ TakeReadTop(w) \/ TakeGet(w) \/ TakeUndo(w)

PassStep(w) ==
    \/ \E th \in Threads : PassBegin(w, th)
    \/ PassStore(w) \/ PassPublish(w)

Next == OwnerStep \/ \E w \in Workers : TakeStep(w) \/ PassStep(w)

Spec == Init /\ [][Next]_vars

-----------------------------------------------------------------------------
TypeOK ==
    /\ top \in 0 .. Size
    /\ base \in 0 .. (Size + 1)
    /\ ptr \in [Slots -> Threads \cup {NULL}]
    /\ lock \in Workers \cup {NULL}
    /\ pc \in [Workers -> OwnerPCs \cup AnyPCs]
    /\ \A w \in Workers \ {Owner} : pc[w] \in AnyPCs
    /\ idx \in [Workers -> 0 .. Size]
    /\ arg \in [Workers -> Threads \cup {NULL}]
    /\ hand \in [Workers -> SUBSET Threads]
    /\ fatal \in BOOLEAN

\* The worker at one of these holds the lock.
LockPCs == {"push_crit", "pop_crit", "put_crit", "take_inc", "take_read",
            "take_get", "take_undo", "pass_store", "pass_publish"}
\* A thief has moved base past the slot it wants ...
Claiming == \E w \in Workers : pc[w] \in {"take_read", "take_undo"}
\* ... and now knows that the slot is its own.
Stealing == \E w \in Workers : pc[w] = "take_get"
\* The owner has moved top below the slot it wants.
Popping == pc[Owner] \in {"pop_read", "pop_lock", "pop_crit"}

\* The slots whose threads nobody has won yet are Lo .. Hi - 1.
Lo == IF Claiming THEN base - 1 ELSE base
Hi == IF Popping THEN top + 1 ELSE top
\* The slots that still hold a thread nobody has in hand: those, and the one
\* a thief or the owner has won and is about to read.
Occupied == (IF Stealing THEN base - 1 ELSE Lo) ..
            (IF pc[Owner] = "pop_fast" THEN top ELSE Hi - 1)

(***************************************************************************)
(* A thread that left the queue left it once: no thread is in two slots,   *)
(* in a slot and in a worker's hand, or in two hands.  A thread that is    *)
(* twice anywhere would be run by two workers at the same time.            *)
(***************************************************************************)
NoThreadTwice ==
    /\ \A i, j \in Occupied : ptr[i] = ptr[j] => i = j
    /\ \A i \in Occupied, w \in Workers : ptr[i] \notin hand[w]
    /\ \A v, w \in Workers : v # w => hand[v] \cap hand[w] = {}

(***************************************************************************)
(* No thread disappears: shifting the window, resetting it, overwriting a  *)
(* slot or giving a claimed slot back never drops a thread.                *)
(***************************************************************************)
NoThreadLost ==
    \A th \in Threads :
        \/ \E w \in Workers : th \in hand[w]
        \/ \E i \in Occupied : ptr[i] = th

(***************************************************************************)
(* The slot an operation is about to read or write is one of the array's,  *)
(* and the slot it is about to return holds a thread: never NULL, never a  *)
(* slot outside the window.                                                *)
(***************************************************************************)
AccessInBounds ==
    /\ Occupied \subseteq Slots
    /\ \A i \in Occupied : ptr[i] \in Threads
    /\ pc[Owner] \in {"push_store", "push_publish", "pop_fast"} =>
           idx[Owner] \in Slots
    /\ \A w \in Workers :
        /\ pc[w] = "take_get" => idx[w] \in Occupied
        /\ pc[w] \in {"pass_store", "pass_publish"} => base - 1 \in Slots

(***************************************************************************)
(* The abort() in push and put is reached only when the array really is    *)
(* full, however far the window has drifted and whatever thieves do to     *)
(* base meanwhile: there is always room for as many threads as slots.      *)
(***************************************************************************)
AbortsOnlyWhenFull == fatal => Hi - Lo = Size

-----------------------------------------------------------------------------
(***************************************************************************)
(* The queue is a RunQueue.  A push or pass takes effect when it moves     *)
(* top or base over the stored thread, a pop when the owner has read base, *)
(* a take when the thief has read top.                                     *)
(***************************************************************************)
Contents == [i \in 1 .. (Hi - Lo) |-> ptr[Lo + i - 1]]
Out == [w \in Workers |->
          IF pc[w] \in {"pop_fast", "take_get"} THEN hand[w] \cup {ptr[idx[w]]}
                                               ELSE hand[w]]

RQ == INSTANCE RunQueue WITH queue <- Contents, out <- Out

\* Every behaviour of the array, with its unlocked pushes and pops, is one of
\* the RunQueue: newest first for the owner, oldest first for everybody else.
ImplementsRunQueue == RQ!Spec
=============================================================================
