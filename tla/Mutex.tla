------------------------------- MODULE Mutex -------------------------------
(***************************************************************************)
(* A mutex of MassiveThreads and the condition variables used with it      *)
(* (myth_sync_func.h), on top of the switching of threads in Blocking.     *)
(*                                                                         *)
(* state = 2 * (threads that reserved a seat in sleepq) + lock bit.  A     *)
(* locker that finds the bit set reserves a seat with a CAS and then       *)
(* blocks; the callback that enqueues it comes later.  An unlocker that    *)
(* finds seats takes one with a CAS, waits until a thread is in sleepq,    *)
(* dequeues it, and only then clears the bit.  The woken thread starts     *)
(* over and competes with everybody else.                                  *)
(*                                                                         *)
(* One action is one access to state, or one operation on a sleep queue,   *)
(* which are critical sections of the queue's own spin lock.               *)
(***************************************************************************)
EXTENDS Blocking, Sequences

CONSTANT Conds  \* the condition variables

ASSUME CondsAssumption == NULL \notin Conds

VARIABLES
    state,      \* mutex->state
    sleepq,     \* mutex->sleep_q
    condq,      \* cond->sleep_q of each condition variable
    val,        \* the local variable s of each agent; 0 when it is dead
    waking,     \* the local variable to_wake of each agent, or NULL
    cond,       \* the condition variable a thread waits on or wakes, or NULL
    then        \* where a thread goes after the call it is in

mutexVars == <<state, sleepq, condq, val, waking, cond, then>>
vars == <<pc, switchVars, mutexVars>>

IsLocked(s) == s % 2 = 1

\* Threads that have locked the mutex are at "held", all others at "idle".
Init ==
    /\ SwitchInit
    /\ pc = [a \in Agents |-> IF a \in Threads THEN "idle" ELSE "run"]
    /\ state = 0
    /\ sleepq = <<>>
    /\ condq = [c \in Conds |-> <<>>]
    /\ val = [a \in Agents |-> 0]
    /\ waking = [a \in Agents |-> NULL]
    /\ cond = [th \in Threads |-> NULL]
    /\ then = [th \in Threads |-> "idle"]

\* __sync_bool_compare_and_swap(&mutex->state, s, new)
CAS(a, new) ==
    /\ state = val[a]
    /\ state' = new
    /\ val' = [val EXCEPT ![a] = 0]

\* Agent a takes the oldest thread of sleep queue q and goes to "to".  The
\* thread will continue after its call of myth_block_on_queue: at the head of
\* the loop in lock, or at the call of lock in cond_wait.
Dequeue(a, q, from, to) ==
    /\ At(a, from)
    /\ waking' = [waking EXCEPT ![a] = Head(q)]
    /\ pc' = [pc EXCEPT ![a] = to, ![Head(q)] = "lock_read"]

\* ... and pushes it to its run queue.
Push(a) ==
    /\ ready' = ready \cup {waking[a]}
    /\ waking' = [waking EXCEPT ![a] = NULL]
    /\ UNCHANGED <<this, leaving, saved>>

-----------------------------------------------------------------------------
(* myth_mutex_lock, trylock and timedlock                                  *)

LockBegin(th) ==
    /\ Goto(th, "idle", "lock_read")
    /\ UNCHANGED <<switchVars, mutexVars>>

\* A trylock that fails returns EBUSY; the first one of timedlock is
\* followed by a look at the clock.
TryBegin(th, failed) ==
    /\ Goto(th, "idle", "try_read")
    /\ then' = [then EXCEPT ![th] = failed]
    /\ UNCHANGED <<switchVars, state, sleepq, condq, val, waking, cond>>

TryLockBegin(th) == TryBegin(th, "idle")
TimedLockBegin(th) == TryBegin(th, "timed_check")

ReadPCs == {"lock_read", "try_read"}
CASPCs == {"lock_cas", "try_cas"}
AfterRead(p) == IF p = "lock_read" THEN "lock_cas" ELSE "try_cas"
BeforeCAS(p) == IF p = "lock_cas" THEN "lock_read" ELSE "try_read"

\* lock always tries to change state; trylock returns when the bit is set.
LockRead(th) ==
    /\ pc[th] \in ReadPCs
    /\ pc[th] = "try_read" => ~IsLocked(state)
    /\ Goto(th, pc[th], AfterRead(pc[th]))
    /\ val' = [val EXCEPT ![th] = state]
    /\ UNCHANGED <<switchVars, state, sleepq, condq, waking, cond, then>>

TryBusy(th) ==
    /\ IsLocked(state)
    /\ Goto(th, "try_read", then[th])
    /\ then' = [then EXCEPT ![th] = "idle"]
    /\ UNCHANGED <<switchVars, state, sleepq, condq, val, waking, cond>>

\* Mutant: a plain store instead of the CAS.
LockTakeNoCAS(th) ==
    /\ pc[th] \in CASPCs
    /\ Goto(th, pc[th], "held")
    /\ ~IsLocked(val[th])
    /\ state' = val[th] + 1
    /\ val' = [val EXCEPT ![th] = 0]
    /\ then' = [then EXCEPT ![th] = "idle"]
    /\ UNCHANGED <<switchVars, sleepq, condq, waking, cond>>

LockTake(th) ==
    /\ pc[th] \in CASPCs
    /\ Goto(th, pc[th], "held")
    /\ ~IsLocked(val[th])
    /\ CAS(th, val[th] + 1)
    /\ then' = [then EXCEPT ![th] = "idle"]
    /\ UNCHANGED <<switchVars, sleepq, condq, waking, cond>>

\* Mutant: a seat is reserved although the mutex was unlocked meanwhile.
LockSeatBlind(th) ==
    /\ Goto(th, "lock_cas", "lock_block")
    /\ IsLocked(val[th])
    /\ state' = state + 2
    /\ val' = [val EXCEPT ![th] = 0]
    /\ UNCHANGED <<switchVars, sleepq, condq, waking, cond, then>>

LockSeat(th) ==
    /\ Goto(th, "lock_cas", "lock_block")
    /\ IsLocked(val[th])
    /\ CAS(th, val[th] + 2)
    /\ UNCHANGED <<switchVars, sleepq, condq, waking, cond, then>>

LockRetry(th) ==
    /\ pc[th] \in CASPCs
    /\ Goto(th, pc[th], BeforeCAS(pc[th]))
    /\ state # val[th]
    /\ val' = [val EXCEPT ![th] = 0]
    /\ UNCHANGED <<switchVars, state, sleepq, condq, waking, cond, then>>

LockBlock(w, th) ==
    /\ Block(w, th, "lock_block", "mutex_sleep")
    /\ UNCHANGED mutexVars

\* The clock of timedlock: ETIMEDOUT, or another trylock that is followed by
\* a yield when it fails; the yield may find no other thread.
TimedOut(th) ==
    /\ Goto(th, "timed_check", "idle")
    /\ UNCHANGED <<switchVars, mutexVars>>

TimedRetry(th) ==
    /\ Goto(th, "timed_check", "try_read")
    /\ then' = [then EXCEPT ![th] = "timed_yield"]
    /\ UNCHANGED <<switchVars, state, sleepq, condq, val, waking, cond>>

TimedYield(w, th) ==
    /\ Yield(w, th, "timed_yield", "timed_check")
    /\ UNCHANGED mutexVars

TimedNoYield(th) ==
    /\ Goto(th, "timed_yield", "timed_check")
    /\ UNCHANGED <<switchVars, mutexVars>>

-----------------------------------------------------------------------------
(* myth_mutex_unlock, by the thread that holds the mutex or, on behalf of  *)
(* a thread in cond_wait, by the callback of a worker                      *)

\* Where an agent goes when its unlock returns.
Unlocked(a) == IF a \in Threads THEN "idle" ELSE "run"

UnlockBegin(th) ==
    /\ Goto(th, "held", "unlock_read")
    /\ UNCHANGED <<switchVars, mutexVars>>

UnlockRead(a) ==
    /\ Goto(a, "unlock_read", "unlock_cas")
    /\ val' = [val EXCEPT ![a] = state]
    /\ UNCHANGED <<switchVars, state, sleepq, condq, waking, cond, then>>

\* Takes one of the seats, still holding the lock bit.
UnlockSeat(a) ==
    /\ Goto(a, "unlock_cas", "unlock_dequeue")
    /\ val[a] > 1
    /\ CAS(a, val[a] - 2)
    /\ UNCHANGED <<switchVars, sleepq, condq, waking, cond, then>>

\* Nobody has a seat.
UnlockFree(a) ==
    /\ Goto(a, "unlock_cas", Unlocked(a))
    /\ val[a] = 1
    /\ CAS(a, 0)
    /\ UNCHANGED <<switchVars, sleepq, condq, waking, cond, then>>

UnlockRetry(a) ==
    /\ Goto(a, "unlock_cas", "unlock_read")
    /\ state # val[a]
    /\ val' = [val EXCEPT ![a] = 0]
    /\ UNCHANGED <<switchVars, state, sleepq, condq, waking, cond, then>>

\* Mutant: a dequeue that finds nobody is not repeated.
UnlockDequeueOnce(a) ==
    /\ IF sleepq = <<>>
       THEN Goto(a, "unlock_dequeue", "unlock_clear") /\ UNCHANGED waking
       ELSE Dequeue(a, sleepq, "unlock_dequeue", "unlock_clear")
    /\ sleepq' = IF sleepq = <<>> THEN sleepq ELSE Tail(sleepq)
    /\ UNCHANGED <<switchVars, state, condq, val, cond, then>>

\* Mutant: the thread stays in the queue.
UnlockDequeueKeepsHead(a) ==
    /\ sleepq # <<>>
    /\ Dequeue(a, sleepq, "unlock_dequeue", "unlock_clear")
    /\ UNCHANGED <<switchVars, state, sleepq, condq, val, cond, then>>

\* Repeated until the thread that reserved a seat has arrived in the queue.
UnlockDequeue(a) ==
    /\ sleepq # <<>>
    /\ Dequeue(a, sleepq, "unlock_dequeue", "unlock_clear")
    /\ sleepq' = Tail(sleepq)
    /\ UNCHANGED <<switchVars, state, condq, val, cond, then>>

\* myth_mutex_clear_lock_bit
UnlockClear(a) ==
    /\ Goto(a, "unlock_clear", "unlock_push")
    /\ state' = state - 1
    /\ UNCHANGED <<switchVars, sleepq, condq, val, waking, cond, then>>

UnlockPush(a) ==
    /\ Goto(a, "unlock_push", Unlocked(a))
    /\ Push(a)
    /\ UNCHANGED <<state, sleepq, condq, val, cond, then>>

-----------------------------------------------------------------------------
(* myth_cond_wait, signal and broadcast                                    *)

WaitBlock(w, th, c) ==
    /\ Block(w, th, "held", "cond_sleep")
    /\ cond' = [cond EXCEPT ![th] = c]
    /\ UNCHANGED <<state, sleepq, condq, val, waking, then>>

\* With the mutex held or not.
WakeBegin(th, kind, c) ==
    /\ pc[th] \in {"idle", "held"}
    /\ Goto(th, pc[th], kind)
    /\ then' = [then EXCEPT ![th] = pc[th]]
    /\ cond' = [cond EXCEPT ![th] = c]
    /\ UNCHANGED <<switchVars, state, sleepq, condq, val, waking>>

SignalBegin(th, c) == WakeBegin(th, "signal", c)
BroadcastBegin(th, c) == WakeBegin(th, "broadcast", c)

\* The call of signal or broadcast returns.
WakeReturn(th) ==
    /\ then' = [then EXCEPT ![th] = "idle"]
    /\ cond' = [cond EXCEPT ![th] = NULL]

\* Nobody is waiting, or the broadcast has woken everybody.
WakeNobody(th) ==
    /\ pc[th] \in {"signal", "broadcast"}
    /\ condq[cond[th]] = <<>>
    /\ Goto(th, pc[th], then[th])
    /\ WakeReturn(th)
    /\ UNCHANGED <<switchVars, state, sleepq, condq, val, waking>>

WakeDequeue(th) ==
    LET q == condq[cond[th]] IN
    /\ pc[th] \in {"signal", "broadcast"}
    /\ q # <<>>
    /\ Dequeue(th, q, pc[th], IF pc[th] = "signal" THEN "signal_push"
                                                 ELSE "broadcast_push")
    /\ condq' = [condq EXCEPT ![cond[th]] = Tail(q)]
    /\ cond' = [cond EXCEPT ![Head(q)] = NULL]
    /\ UNCHANGED <<switchVars, state, sleepq, val, then>>

SignalPush(th) ==
    /\ Goto(th, "signal_push", then[th])
    /\ Push(th)
    /\ WakeReturn(th)
    /\ UNCHANGED <<state, sleepq, condq, val>>

BroadcastPush(th) ==
    /\ Goto(th, "broadcast_push", "broadcast")
    /\ Push(th)
    /\ UNCHANGED <<state, sleepq, condq, val, cond, then>>

-----------------------------------------------------------------------------
(* The callbacks, and the rest of the runtime                              *)

\* myth_block_on_queue_cb for lock
EnqueueLocker(w) ==
    /\ leaving[w] \in Threads /\ pc[leaving[w]] = "mutex_sleep"
    /\ Left(w, "callback", "run")
    /\ sleepq' = Append(sleepq, leaving[w])
    /\ UNCHANGED <<ready, this, saved, state, condq, val, waking, cond, then>>

\* Mutant: the newest waiter comes first.
QueueWaiterFirst(th) == condq' = [condq EXCEPT ![cond[th]] = <<th>> \o @]

QueueWaiter(th) == condq' = [condq EXCEPT ![cond[th]] = Append(@, th)]

\* Mutant: the mutex is unlocked before the thread is in the queue.
EnqueueWaiterLate(w) ==
    /\ leaving[w] \in Threads /\ pc[leaving[w]] = "cond_sleep"
    /\ \/ /\ Goto(w, "callback", "unlock_read")
          /\ UNCHANGED <<leaving, condq>>
       \/ /\ pc[w] = "run"
          /\ leaving' = [leaving EXCEPT ![w] = NULL]
          /\ QueueWaiter(leaving[w])
          /\ UNCHANGED pc
    /\ UNCHANGED <<ready, this, saved, state, sleepq, val, waking, cond, then>>

\* myth_block_on_queue_cb for cond_wait, which unlocks the mutex afterwards
EnqueueWaiter(w) ==
    /\ leaving[w] \in Threads /\ pc[leaving[w]] = "cond_sleep"
    /\ Left(w, "callback", "unlock_read")
    /\ QueueWaiter(leaving[w])
    /\ UNCHANGED <<ready, this, saved, state, sleepq, val, waking, cond, then>>

\* myth_yield_ex_1 for a thread that yields between two calls or in timedlock
PutYielder(w) ==
    /\ leaving[w] \in Threads /\ pc[leaving[w]] \in {"idle", "timed_check"}
    /\ YieldPut(w)
    /\ UNCHANGED mutexVars

IdleYield(w, th) ==
    /\ Yield(w, th, "idle", "idle")
    /\ UNCHANGED mutexVars

Switch(w) == (Resume(w) \/ SwapContext(w)) /\ UNCHANGED mutexVars

WorkerStep(w) ==
    \/ Switch(w) \/ EnqueueLocker(w) \/ EnqueueWaiter(w) \/ PutYielder(w)
    \/ \E th \in Threads : LockBlock(w, th) \/ TimedYield(w, th)

\* What a client may do, of its own will, with a mutex it obeys the rules of.
ClientStep(w) ==
    \E th \in Threads :
        \/ LockBegin(th) \/ TryLockBegin(th) \/ TimedLockBegin(th)
        \/ UnlockBegin(th) \/ IdleYield(w, th)
        \/ \E c \in Conds :
            WaitBlock(w, th, c) \/ SignalBegin(th, c) \/ BroadcastBegin(th, c)

ThreadStep(th) ==
    \/ LockRead(th) \/ TryBusy(th) \/ LockTake(th) \/ LockSeat(th)
    \/ LockRetry(th) \/ TimedOut(th) \/ TimedRetry(th) \/ TimedNoYield(th)
    \/ WakeNobody(th) \/ WakeDequeue(th) \/ SignalPush(th)
    \/ BroadcastPush(th)

UnlockStep(a) ==
    \/ UnlockRead(a) \/ UnlockSeat(a) \/ UnlockFree(a) \/ UnlockRetry(a)
    \/ UnlockDequeue(a) \/ UnlockClear(a) \/ UnlockPush(a)

Next ==
    \/ \E w \in Workers : WorkerStep(w) \/ ClientStep(w)
    \/ \E th \in Threads : ThreadStep(th)
    \/ \E a \in Agents : UnlockStep(a)

Spec == Init /\ [][Next]_vars

-----------------------------------------------------------------------------
ThreadPCs == {"idle", "lock_read", "lock_cas", "lock_block", "mutex_sleep",
              "try_read", "try_cas", "timed_check", "timed_yield", "held",
              "signal", "signal_push", "broadcast", "broadcast_push",
              "cond_sleep"}
UnlockPCs == {"unlock_read", "unlock_cas", "unlock_dequeue", "unlock_clear",
              "unlock_push"}
WorkerPCs == {"run", "swap", "callback"}

TypeOK ==
    /\ SwitchTypeOK
    /\ pc \in [Agents -> ThreadPCs \cup UnlockPCs \cup WorkerPCs]
    /\ \A th \in Threads : pc[th] \in ThreadPCs \cup UnlockPCs
    /\ \A w \in Workers : pc[w] \in WorkerPCs \cup UnlockPCs
    /\ state \in Nat
    /\ sleepq \in Seq(Threads)
    /\ condq \in [Conds -> Seq(Threads)]
    /\ val \in [Agents -> Nat]
    /\ waking \in [Agents -> Threads \cup {NULL}]
    /\ cond \in [Threads -> Conds \cup {NULL}]
    /\ then \in [Threads -> {"idle", "held", "timed_check", "timed_yield"}]

Elements(q) == {q[i] : i \in DOMAIN q}

\* Agent a holds the mutex: a thread from its CAS in lock to the step of
\* unlock that clears the bit, or, when it waits, until it is in condq; the
\* worker whose callback then unlocks for it, from there.
Holds(a) ==
    \/ pc[a] \in {"held", "unlock_read", "unlock_cas", "unlock_dequeue",
                  "unlock_clear"}
    \/ a \in Threads /\ then[a] = "held"
    \/ pc[a] = "cond_sleep" /\ \E w \in Workers : leaving[w] = a

(***************************************************************************)
(* At most one agent holds the mutex, waiting threads and the callbacks    *)
(* that unlock for them included.                                          *)
(***************************************************************************)
MutualExclusion == \A a, b \in Agents : Holds(a) /\ Holds(b) => a = b

\* The threads that have reserved a seat and have not been dequeued.
Seated == {th \in Threads : pc[th] \in {"lock_block", "mutex_sleep"}}
\* The seats an unlocker has taken without having dequeued a thread yet.
Taken == {a \in Agents : pc[a] = "unlock_dequeue"}

(***************************************************************************)
(* state is what its comment says: the lock bit says that somebody holds   *)
(* the mutex, and the rest counts the threads that nobody has undertaken   *)
(* to wake.  So an unlocker that spins on an empty sleepq has a thread to  *)
(* wait for.                                                               *)
(***************************************************************************)
StateCounts ==
    /\ IsLocked(state) <=> \E a \in Agents : Holds(a)
    /\ state \div 2 + Cardinality(Taken) = Cardinality(Seated)

(***************************************************************************)
(* No lost wakeup: when the mutex is free but threads have a seat, some    *)
(* thread that is not asleep is going to lock it, and its unlock will see  *)
(* the seats.                                                              *)
(***************************************************************************)
NoSleeperForgotten ==
    state > 0 /\ ~IsLocked(state) =>
        \E th \in Threads : pc[th] \in {"lock_read", "lock_cas"}

(***************************************************************************)
(* No lost signal: to a thread that signals while it holds the mutex,      *)
(* every thread that called cond_wait before, and was not woken since, is  *)
(* already in the queue of its condition variable.                         *)
(***************************************************************************)
WaitersAreQueued ==
    \A th, other \in Threads :
        then[th] = "held" /\ pc[other] = "cond_sleep" =>
            other \in Elements(condq[cond[other]])

(***************************************************************************)
(* A thread that another worker can get hold of, in a run queue, in a      *)
(* sleep queue or being woken, has its context saved.                      *)
(***************************************************************************)
ContextSaved ==
    /\ ready \cup Elements(sleepq) \subseteq saved
    /\ \A c \in Conds : Elements(condq[c]) \subseteq saved
    /\ \A a \in Agents : waking[a] # NULL => waking[a] \in saved

\* The places a thread can be in: on a worker, on its way to or in a sleep
\* queue, with the agent that wakes it, in a run queue.
PlacesOf(th) ==
    {<<"this", w>> : w \in {v \in Workers : this[v] = th}}
    \cup {<<"leaving", w>> : w \in {v \in Workers : leaving[v] = th}}
    \cup {<<"waking", a>> : a \in {b \in Agents : waking[b] = th}}
    \cup {<<"sleepq", i>> : i \in {j \in DOMAIN sleepq : sleepq[j] = th}}
    \cup (UNION {{<<c, i>> : i \in {j \in DOMAIN condq[c] : condq[c][j] = th}} :
                    c \in Conds})
    \cup {<<"ready", 0>> : r \in ready \cap {th}}

(***************************************************************************)
(* No thread is lost, and none is in two places: woken twice, asleep and   *)
(* runnable, or run by two workers.                                        *)
(***************************************************************************)
InOnePlace == \A th \in Threads : Cardinality(PlacesOf(th)) = 1

(***************************************************************************)
(* The assertions of lock, unlock and myth_mutex_clear_lock_bit: a mutex   *)
(* is unlocked only while its bit is set, whatever lockers do to state in  *)
(* the meantime; so "called on unlocked mutex, abort" is never reached by  *)
(* a thread that unlocks what it holds, nor by a callback of cond_wait.    *)
(***************************************************************************)
AssertionsHold ==
    \A a \in Agents :
        /\ pc[a] \in {"unlock_read", "unlock_cas", "unlock_clear"} => IsLocked(state)
        /\ pc[a] = "unlock_cas" => IsLocked(val[a])

-----------------------------------------------------------------------------
(***************************************************************************)
(* The mutex and its condition variables are a Monitor.  A thread leaves    *)
(* the monitor when it clears the lock bit, or enters condq to wait.       *)
(***************************************************************************)
Owner ==
    IF \E th \in Threads : Holds(th) THEN CHOOSE th \in Threads : Holds(th)
                                    ELSE NULL

M == INSTANCE Monitor WITH owner <- Owner, waiting <- condq

\* Every behaviour of the two is one of the Monitor: an unlock of cond_wait
\* that comes after the thread is in the queue looks atomic to everybody.
ImplementsMonitor == M!Spec
=============================================================================
