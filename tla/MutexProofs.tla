---------------------------- MODULE MutexProofs ----------------------------
(***************************************************************************)
(* The safety of mutexes and condition variables, for any finite number of *)
(* threads and any number of workers and condition variables, and that     *)
(* together they implement the Monitor; and that of the full/empty lock    *)
(* that is made of them, for any number of incrementers and iterations.    *)
(***************************************************************************)
EXTENDS FELock, FiniteSetTheorems, TLAPS

SleepPCs == {"mutex_sleep", "cond_sleep"}
WakePCs == {"unlock_clear", "unlock_push", "signal_push", "broadcast_push"}
SignalPCs == {"signal", "signal_push", "broadcast", "broadcast_push"}

\* What the program counters say about leaving and waking.
Roles ==
    /\ \A w \in Workers : leaving[w] # NULL <=> pc[w] \in {"swap", "callback"}
    /\ \A a \in Agents : waking[a] # NULL <=> pc[a] \in WakePCs

\* A thread is in at most one of: a run queue, a worker, a callback, the
\* hands of the agent that wakes it.
Placed ==
    /\ \A v, w \in Workers : v # w /\ this[v] # NULL => this[v] # this[w]
    /\ \A v, w \in Workers : v # w /\ leaving[v] # NULL => leaving[v] # leaving[w]
    /\ \A a, b \in Agents : a # b /\ waking[a] # NULL => waking[a] # waking[b]
    /\ \A v, w \in Workers : this[v] # NULL => this[v] # leaving[w]
    /\ \A w \in Workers, a \in Agents :
           waking[a] # NULL => waking[a] # this[w] /\ waking[a] # leaving[w]
    /\ \A w \in Workers : this[w] \notin ready /\ leaving[w] \notin ready
    /\ \A a \in Agents : waking[a] \notin ready

\* Only threads that sleep or are about to are in a sleep queue or leaving.
Asleep ==
    /\ \A th \in ready : pc[th] \notin SleepPCs
    /\ \A w \in Workers : this[w] # NULL => pc[this[w]] \notin SleepPCs
    /\ \A a \in Agents : waking[a] # NULL => pc[waking[a]] = "lock_read"
    /\ \A w \in Workers :
           leaving[w] # NULL => pc[leaving[w]] \in SleepPCs \cup {"idle", "timed_check"}

\* The threads of sleep queue q are at p, are in it once, and have left their
\* workers; pcs and left stand for pc and leaving.
Sleeping(q, p, pcs, left) ==
    /\ \A i \in 1 .. Len(q) : pcs[q[i]] = p
    /\ \A i, j \in 1 .. Len(q) : q[i] = q[j] => i = j
    /\ \A i \in 1 .. Len(q), w \in Workers : left[w] # q[i]

QueuesOK ==
    /\ Sleeping(sleepq, "mutex_sleep", pc, leaving)
    /\ \A c \in Conds : Sleeping(condq[c], "cond_sleep", pc, leaving)
    /\ \A c \in Conds : \A i \in 1 .. Len(condq[c]) : cond[condq[c][i]] = c

\* A thread that sleeps or is about to for a signal is in a callback, on its
\* way to the queue, or in it.
Waiting ==
    \A th \in Threads : pc[th] = "cond_sleep" =>
        \/ \E w \in Workers : leaving[w] = th
        \/ \E i \in 1 .. Len(condq[cond[th]]) : condq[cond[th]][i] = th

\* What the local variables hold where they are used.
LocalsOK ==
    /\ \A th \in Threads : pc[th] \in SignalPCs \cup {"cond_sleep"} => cond[th] \in Conds
    /\ \A th \in Threads : pc[th] \in SignalPCs => then[th] \in {"idle", "held"}
    /\ \A th \in Threads : then[th] = "held" => pc[th] \in SignalPCs

SavedOK ==
    /\ ready \subseteq saved
    /\ \A i \in 1 .. Len(sleepq) : sleepq[i] \in saved
    /\ \A c \in Conds : \A i \in 1 .. Len(condq[c]) : condq[c][i] \in saved
    /\ \A a \in Agents : waking[a] # NULL => waking[a] \in saved
    /\ \A w \in Workers : pc[w] = "callback" => leaving[w] \in saved

MutexOK ==
    /\ MutualExclusion
    /\ StateCounts
    /\ NoSleeperForgotten
    /\ \A a \in Agents : pc[a] = "unlock_cas" => IsLocked(val[a])

IInv ==
    /\ TypeOK /\ Roles /\ Placed /\ Asleep /\ QueuesOK /\ Waiting /\ LocalsOK
    /\ SavedOK /\ MutexOK

-----------------------------------------------------------------------------
(* Arithmetic and counting                                                 *)

\* What adding and subtracting 1 and 2 does to the bit and the count of state.
LEMMA Parity ==
    ASSUME NEW s \in Nat
    PROVE  /\ IsLocked(s + 1) <=> ~IsLocked(s)
           /\ IsLocked(s + 2) <=> IsLocked(s)
           /\ ~IsLocked(s) => (s + 1) \div 2 = s \div 2
           /\ (s + 2) \div 2 = s \div 2 + 1
           /\ IsLocked(s) => s >= 1 /\ (s - 1) \div 2 = s \div 2 /\ ~IsLocked(s - 1)
           /\ s >= 2 => (s - 2) \div 2 = s \div 2 - 1 /\ (IsLocked(s - 2) <=> IsLocked(s))
           /\ IsLocked(s) => (s > 1 <=> s >= 3)
           /\ s \div 2 \in Nat
BY DEF IsLocked


-----------------------------------------------------------------------------
(* Type correctness                                                        *)

PCsOf(a) == UnlockPCs \cup (IF a \in Threads THEN ThreadPCs ELSE WorkerPCs)

PcTypeOK ==
    /\ pc \in [Agents -> ThreadPCs \cup UnlockPCs \cup WorkerPCs]
    /\ \A th \in Threads : pc[th] \in ThreadPCs \cup UnlockPCs
    /\ \A w \in Workers : pc[w] \in WorkerPCs \cup UnlockPCs

\* A step of one agent to one of its program counters keeps the type of pc.
LEMMA PcType ==
    ASSUME PcTypeOK, NEW a \in Agents, NEW to \in PCsOf(a), pc' = [pc EXCEPT ![a] = to]
    PROVE  PcTypeOK'
BY BlockingAssumption DEF PcTypeOK, PCsOf, Agents

\* The same for a step that moves two agents.
LEMMA PcTypeTwo ==
    ASSUME PcTypeOK, NEW a \in Agents, NEW to \in PCsOf(a),
           NEW b \in Agents, NEW bto \in PCsOf(b),
           pc' = [pc EXCEPT ![a] = to, ![b] = bto]
    PROVE  PcTypeOK'
BY BlockingAssumption DEF PcTypeOK, PCsOf, Agents

\* Giving up a worker keeps the types of Blocking.
LEMMA LeaveType ==
    ASSUME TypeOK, NEW w \in Workers, NEW th \in Threads, NEW next, NEW from,
           NEW to \in ThreadPCs, Leave(w, th, next, from, to)
    PROVE  SwitchTypeOK' /\ PcTypeOK'
<1>1. th \in Agents /\ to \in PCsOf(th) /\ w \in Agents /\ "swap" \in PCsOf(w)
  BY BlockingAssumption DEF Agents, PCsOf, WorkerPCs
<1>2. PcTypeOK'
  BY <1>1, PcTypeTwo DEF TypeOK, PcTypeOK, Leave
<1>3. SwitchTypeOK'
  BY DEF TypeOK, SwitchTypeOK, Leave, Dispatch
<1> QED BY <1>2, <1>3

\* A dequeue keeps the types of pc and waking.
LEMMA DequeueType ==
    ASSUME TypeOK, NEW a \in Agents, NEW q \in Seq(Threads), q # <<>>, NEW from,
           NEW to \in PCsOf(a), Dequeue(a, q, from, to)
    PROVE  /\ PcTypeOK'
           /\ waking' \in [Agents -> Threads \cup {NULL}]
           /\ Head(q) \in Threads /\ Tail(q) \in Seq(Threads)
<1>1. Head(q) \in Threads /\ Tail(q) \in Seq(Threads)
  OBVIOUS
<1>2. Head(q) \in Agents /\ "lock_read" \in PCsOf(Head(q))
  BY <1>1 DEF Agents, PCsOf, ThreadPCs
<1>3. PcTypeOK'
  BY <1>2, PcTypeTwo DEF TypeOK, PcTypeOK, Dequeue
<1> QED BY <1>1, <1>3 DEF TypeOK, Dequeue

\* Every step keeps TypeOK.
LEMMA TypeStep ==
    ASSUME IInv, [Next]_vars
    PROVE  TypeOK'
<1>0. TypeOK /\ Roles /\ LocalsOK
  BY DEF IInv
<1>0a. \A a \in Agents : pc[a] = "unlock_clear" => state >= 1
  BY Parity DEF IInv, MutexOK, StateCounts, Holds, TypeOK
<1>1. ASSUME NEW w \in Workers, NEW th \in Threads, LockBlock(w, th)
      PROVE  TypeOK'
  <2>1. PICK next : Leave(w, th, next, "lock_block", "mutex_sleep")
    BY <1>1 DEF LockBlock, Block, Yield
  <2>2. "mutex_sleep" \in ThreadPCs
    BY DEF ThreadPCs
  <2>3. SwitchTypeOK' /\ PcTypeOK'
    BY <1>0, <2>1, <2>2, LeaveType
  <2> QED BY <1>0, <2>3, <1>1 DEF LockBlock, TypeOK, PcTypeOK, mutexVars
<1>2. ASSUME NEW w \in Workers, NEW th \in Threads, TimedYield(w, th)
      PROVE  TypeOK'
  <2>1. PICK next : Leave(w, th, next, "timed_yield", "timed_check")
    BY <1>2 DEF TimedYield, Block, Yield
  <2>2. "timed_check" \in ThreadPCs
    BY DEF ThreadPCs
  <2>3. SwitchTypeOK' /\ PcTypeOK'
    BY <1>0, <2>1, <2>2, LeaveType
  <2> QED BY <1>0, <2>3, <1>2 DEF TimedYield, TypeOK, PcTypeOK, mutexVars
<1>3. ASSUME NEW w \in Workers, NEW th \in Threads, IdleYield(w, th)
      PROVE  TypeOK'
  <2>1. PICK next : Leave(w, th, next, "idle", "idle")
    BY <1>3 DEF IdleYield, Block, Yield
  <2>2. "idle" \in ThreadPCs
    BY DEF ThreadPCs
  <2>3. SwitchTypeOK' /\ PcTypeOK'
    BY <1>0, <2>1, <2>2, LeaveType
  <2> QED BY <1>0, <2>3, <1>3 DEF IdleYield, TypeOK, PcTypeOK, mutexVars
<1>4. ASSUME NEW w \in Workers, NEW th \in Threads, NEW c \in Conds,
   WaitBlock(w, th, c)
      PROVE  TypeOK'
  <2>1. PICK next : Leave(w, th, next, "held", "cond_sleep")
    BY <1>4 DEF WaitBlock, Block, Yield
  <2>2. "cond_sleep" \in ThreadPCs
    BY DEF ThreadPCs
  <2>3. SwitchTypeOK' /\ PcTypeOK'
    BY <1>0, <2>1, <2>2, LeaveType
  <2> QED BY <1>0, <2>3, <1>4 DEF WaitBlock, TypeOK, PcTypeOK, mutexVars
<1>5. ASSUME NEW a \in Agents, UnlockDequeue(a)
      PROVE  TypeOK'
  <2>1. sleepq # <<>> /\ Dequeue(a, sleepq, "unlock_dequeue", "unlock_clear")
    BY <1>5 DEF UnlockDequeue
  <2>2. "unlock_clear" \in PCsOf(a) /\ sleepq \in Seq(Threads)
    BY <1>0 DEF PCsOf, UnlockPCs, TypeOK
  <2>3. /\ PcTypeOK' /\ waking' \in [Agents -> Threads \cup {NULL}]
        /\ Head(sleepq) \in Threads /\ Tail(sleepq) \in Seq(Threads)
    BY <1>0, <2>1, <2>2, DequeueType
  <2> QED
    BY <1>0, <1>5, <2>3 DEF UnlockDequeue, TypeOK, PcTypeOK, SwitchTypeOK,
       switchVars
<1>6. ASSUME NEW th \in Threads, WakeDequeue(th)
      PROVE  TypeOK'
  <2> DEFINE q == condq[cond[th]]
  <2>1. q \in Seq(Threads) /\ cond[th] \in Conds
    BY <1>0, <1>6 DEF WakeDequeue, LocalsOK, SignalPCs, TypeOK
  <2>2. PICK to \in {"signal_push", "broadcast_push"} :
            q # <<>> /\ Dequeue(th, q, pc[th], to)
    BY <1>6 DEF WakeDequeue
  <2>3. to \in PCsOf(th) /\ th \in Agents
    BY DEF PCsOf, ThreadPCs, Agents
  <2> HIDE DEF q
  <2>4. /\ PcTypeOK' /\ waking' \in [Agents -> Threads \cup {NULL}]
        /\ Head(q) \in Threads /\ Tail(q) \in Seq(Threads)
    BY <1>0, <2>1, <2>2, <2>3, DequeueType
  <2>5. /\ condq' = [condq EXCEPT ![cond[th]] = Tail(q)]
        /\ cond' = [cond EXCEPT ![Head(q)] = NULL]
        /\ UNCHANGED <<switchVars, state, sleepq, val, then>>
    BY <1>6 DEF WakeDequeue, q
  <2> QED
    BY <1>0, <2>4, <2>5 DEF TypeOK, PcTypeOK, SwitchTypeOK, switchVars
<1> USE BlockingAssumption, CondsAssumption
        DEF TypeOK, SwitchTypeOK, Agents, mutexVars, switchVars, ThreadPCs,
            UnlockPCs, WorkerPCs, Executes, At, Goto, CAS
<1>7. ASSUME NEW w \in Workers, EnqueueWaiter(w)
      PROVE  TypeOK'
  <2>1. leaving[w] \in Threads /\ cond[leaving[w]] \in Conds
    BY <1>0, <1>7 DEF EnqueueWaiter, LocalsOK
  <2> QED BY <1>0, <1>7, <2>1 DEF EnqueueWaiter, QueueWaiter, Left
<1>8. ASSUME NEW w \in Workers, Resume(w) /\ UNCHANGED mutexVars
      PROVE  TypeOK'
  BY <1>0, <1>8 DEF Resume, Dispatch
<1>9. ASSUME NEW w \in Workers, SwapContext(w) /\ UNCHANGED mutexVars
      PROVE  TypeOK'
  BY <1>0, <1>9 DEF SwapContext, Roles
<1>10. ASSUME NEW w \in Workers, EnqueueLocker(w)
      PROVE  TypeOK'
  BY <1>0, <1>10 DEF EnqueueLocker, Left
<1>11. ASSUME NEW w \in Workers, PutYielder(w)
      PROVE  TypeOK'
  BY <1>0, <1>11 DEF PutYielder, YieldPut, Left
<1>12. ASSUME NEW th \in Threads, LockBegin(th)
      PROVE  TypeOK'
  BY <1>0, <1>12 DEF LockBegin
<1>13. ASSUME NEW th \in Threads, TryLockBegin(th)
      PROVE  TypeOK'
  BY <1>0, <1>13 DEF TryLockBegin, TryBegin
<1>14. ASSUME NEW th \in Threads, TimedLockBegin(th)
      PROVE  TypeOK'
  BY <1>0, <1>14 DEF TimedLockBegin, TryBegin
<1>15. ASSUME NEW th \in Threads, UnlockBegin(th)
      PROVE  TypeOK'
  BY <1>0, <1>15 DEF UnlockBegin
<1>16. ASSUME NEW th \in Threads, NEW c \in Conds, SignalBegin(th, c)
      PROVE  TypeOK'
  BY <1>0, <1>16 DEF SignalBegin, WakeBegin
<1>17. ASSUME NEW th \in Threads, NEW c \in Conds, BroadcastBegin(th, c)
      PROVE  TypeOK'
  BY <1>0, <1>17 DEF BroadcastBegin, WakeBegin
<1>18. ASSUME NEW th \in Threads, LockRead(th)
      PROVE  TypeOK'
  BY <1>0, <1>18 DEF LockRead, ReadPCs, AfterRead
<1>19. ASSUME NEW th \in Threads, TryBusy(th)
      PROVE  TypeOK'
  BY <1>0, <1>19 DEF TryBusy
<1>20. ASSUME NEW th \in Threads, LockTake(th)
      PROVE  TypeOK'
  BY <1>0, <1>20 DEF LockTake, CASPCs
<1>21. ASSUME NEW th \in Threads, LockSeat(th)
      PROVE  TypeOK'
  BY <1>0, <1>21 DEF LockSeat
<1>22. ASSUME NEW th \in Threads, LockRetry(th)
      PROVE  TypeOK'
  BY <1>0, <1>22 DEF LockRetry, CASPCs, BeforeCAS
<1>23. ASSUME NEW th \in Threads, TimedOut(th)
      PROVE  TypeOK'
  BY <1>0, <1>23 DEF TimedOut
<1>24. ASSUME NEW th \in Threads, TimedRetry(th)
      PROVE  TypeOK'
  BY <1>0, <1>24 DEF TimedRetry
<1>25. ASSUME NEW th \in Threads, TimedNoYield(th)
      PROVE  TypeOK'
  BY <1>0, <1>25 DEF TimedNoYield
<1>26. ASSUME NEW th \in Threads, WakeNobody(th)
      PROVE  TypeOK'
  BY <1>0, <1>26 DEF WakeNobody, WakeReturn
<1>27. ASSUME NEW th \in Threads, SignalPush(th)
      PROVE  TypeOK'
  BY <1>0, <1>27 DEF SignalPush, WakeReturn, Push, Roles, WakePCs
<1>28. ASSUME NEW th \in Threads, BroadcastPush(th)
      PROVE  TypeOK'
  BY <1>0, <1>28 DEF BroadcastPush, Push, Roles, WakePCs
<1>29. ASSUME NEW a \in Agents, UnlockRead(a)
      PROVE  TypeOK'
  BY <1>0, <1>29 DEF UnlockRead
<1>30. ASSUME NEW a \in Agents, UnlockSeat(a)
      PROVE  TypeOK'
  BY <1>0, <1>30 DEF UnlockSeat
<1>31. ASSUME NEW a \in Agents, UnlockFree(a)
      PROVE  TypeOK'
  BY <1>0, <1>31 DEF UnlockFree, Unlocked
<1>32. ASSUME NEW a \in Agents, UnlockRetry(a)
      PROVE  TypeOK'
  BY <1>0, <1>32 DEF UnlockRetry
<1>33. ASSUME NEW a \in Agents, UnlockClear(a)
      PROVE  TypeOK'
  BY <1>0, <1>0a, <1>33 DEF UnlockClear
<1>34. ASSUME NEW a \in Agents, UnlockPush(a)
      PROVE  TypeOK'
  BY <1>0, <1>34 DEF UnlockPush, Push, Unlocked, Roles, WakePCs
<1>35. CASE UNCHANGED vars
  BY <1>0, <1>35 DEF vars
<1> HIDE DEF TypeOK, SwitchTypeOK, Agents, mutexVars, switchVars, ThreadPCs,
            UnlockPCs, WorkerPCs, Executes, At, Goto, CAS
<1> QED
  BY <1>1, <1>2, <1>3, <1>4, <1>5, <1>6, <1>7, <1>8, <1>9, <1>10, <1>11, <1>12,
     <1>13, <1>14, <1>15, <1>16, <1>17, <1>18, <1>19, <1>20, <1>21, <1>22,
     <1>23, <1>24, <1>25, <1>26, <1>27, <1>28, <1>29, <1>30, <1>31, <1>32,
     <1>33, <1>34, <1>35 DEF Next, WorkerStep, ClientStep, ThreadStep,
     UnlockStep, Switch, vars

-----------------------------------------------------------------------------
(* What a step does to the places of threads                               *)

AwayPCs == SleepPCs \cup {"swap", "callback"}

\* An agent goes on by itself: no thread changes its place.
Local(a) ==
    /\ Executes(a)
    /\ pc[a] \notin AwayPCs
    /\ \E to \in PCsOf(a) :
        /\ to \notin AwayPCs
        /\ to \in WakePCs <=> pc[a] \in WakePCs
        /\ pc' = [pc EXCEPT ![a] = to]
    /\ \A th \in Threads : th # a => cond'[th] = cond[th]
    /\ UNCHANGED <<switchVars, sleepq, condq, waking>>

\* A thread gives up its worker.
Leaves(w, th) ==
    /\ this[w] = th /\ pc[w] = "run"
    /\ pc[th] \notin SleepPCs \cup WakePCs
    /\ \E next \in ready \cup {NULL}, to \in SleepPCs \cup {"idle", "timed_check"} :
        /\ Dispatch(w, next)
        /\ ready' = ready \ {next}
        /\ leaving' = [leaving EXCEPT ![w] = th]
        /\ pc' = [pc EXCEPT ![th] = to, ![w] = "swap"]
    /\ \A t \in Threads : t # th => cond'[t] = cond[t]
    /\ UNCHANGED <<sleepq, condq, waking>>

\* An agent pushes the thread it wakes.
Pushes(a) ==
    /\ Executes(a)
    /\ pc[a] \in WakePCs
    /\ \E to \in PCsOf(a) :
        /\ to \notin AwayPCs \cup WakePCs
        /\ pc' = [pc EXCEPT ![a] = to]
    /\ Push(a)
    /\ \A th \in Threads : th # a => cond'[th] = cond[th]
    /\ UNCHANGED <<sleepq, condq>>

StepOfWorker(w) ==
    \/ Resume(w) /\ UNCHANGED mutexVars
    \/ SwapContext(w) /\ UNCHANGED mutexVars
    \/ EnqueueLocker(w) \/ EnqueueWaiter(w) \/ PutYielder(w)
    \/ \E th \in Threads : Leaves(w, th)

StepOfAgent(a) == Local(a) \/ Pushes(a) \/ UnlockDequeue(a)

\* Every step is one of those, or a dequeue.
Kinds ==
    \/ \E w \in Workers : StepOfWorker(w)
    \/ \E a \in Agents : StepOfAgent(a)
    \/ \E th \in Threads : WakeDequeue(th)
    \/ UNCHANGED vars

\* Outside of the mutex's own state there are few kinds of steps.
LEMMA StepKinds ==
    ASSUME TypeOK, LocalsOK, [Next]_vars
    PROVE  Kinds
<1> USE BlockingAssumption
    DEF Local, Leaves, Pushes, PCsOf, AwayPCs, SleepPCs, WakePCs, Agents, At,
       Goto,
        mutexVars, switchVars, ThreadPCs, UnlockPCs, WorkerPCs
<1>0. TypeOK /\ LocalsOK
  OBVIOUS
<1>1. ASSUME NEW w \in Workers, NEW th \in Threads, LockBlock(w, th)
      PROVE  Leaves(w, th)
  BY <1>0, <1>1 DEF TypeOK, LockBlock, Block, Yield, Leave
<1>2. ASSUME NEW w \in Workers, NEW th \in Threads, TimedYield(w, th)
      PROVE  Leaves(w, th)
  BY <1>0, <1>2 DEF TypeOK, TimedYield, Block, Yield, Leave
<1>3. ASSUME NEW w \in Workers, NEW th \in Threads, IdleYield(w, th)
      PROVE  Leaves(w, th)
  BY <1>0, <1>3 DEF TypeOK, IdleYield, Block, Yield, Leave
<1>4. ASSUME NEW w \in Workers, NEW th \in Threads, NEW c \in Conds,
   WaitBlock(w, th, c)
      PROVE  Leaves(w, th)
  BY <1>0, <1>4 DEF TypeOK, WaitBlock, Block, Yield, Leave
<1>5. ASSUME NEW th \in Threads, SignalPush(th)
      PROVE  Pushes(th)
  BY <1>0, <1>5 DEF TypeOK, SignalPush, WakeReturn, Push
<1>6. ASSUME NEW th \in Threads, BroadcastPush(th)
      PROVE  Pushes(th)
  BY <1>0, <1>6 DEF TypeOK, BroadcastPush, Push
<1>7. ASSUME NEW a \in Agents, UnlockPush(a)
      PROVE  Pushes(a)
  BY <1>0, <1>7 DEF TypeOK, UnlockPush, Push, Unlocked
<1>8. ASSUME NEW th \in Threads, LockBegin(th)
      PROVE  Local(th)
  BY <1>0, <1>8 DEF TypeOK, LockBegin
<1>9. ASSUME NEW th \in Threads, TryLockBegin(th)
      PROVE  Local(th)
  BY <1>0, <1>9 DEF TypeOK, TryLockBegin, TryBegin
<1>10. ASSUME NEW th \in Threads, TimedLockBegin(th)
      PROVE  Local(th)
  BY <1>0, <1>10 DEF TypeOK, TimedLockBegin, TryBegin
<1>11. ASSUME NEW th \in Threads, UnlockBegin(th)
      PROVE  Local(th)
  BY <1>0, <1>11 DEF TypeOK, UnlockBegin
<1>12. ASSUME NEW th \in Threads, NEW c \in Conds, SignalBegin(th, c)
      PROVE  Local(th)
  BY <1>0, <1>12 DEF TypeOK, SignalBegin, WakeBegin
<1>13. ASSUME NEW th \in Threads, NEW c \in Conds, BroadcastBegin(th, c)
      PROVE  Local(th)
  BY <1>0, <1>13 DEF TypeOK, BroadcastBegin, WakeBegin
<1>14. ASSUME NEW th \in Threads, LockRead(th)
      PROVE  Local(th)
  BY <1>0, <1>14 DEF TypeOK, LockRead, ReadPCs, AfterRead
<1>15. ASSUME NEW th \in Threads, TryBusy(th)
      PROVE  Local(th)
  BY <1>0, <1>15 DEF TypeOK, TryBusy
<1>16. ASSUME NEW th \in Threads, LockTake(th)
      PROVE  Local(th)
  BY <1>0, <1>16 DEF TypeOK, LockTake, CASPCs, CAS
<1>17. ASSUME NEW th \in Threads, LockSeat(th)
      PROVE  Local(th)
  BY <1>0, <1>17 DEF TypeOK, LockSeat, CAS
<1>18. ASSUME NEW th \in Threads, LockRetry(th)
      PROVE  Local(th)
  BY <1>0, <1>18 DEF TypeOK, LockRetry, CASPCs, BeforeCAS
<1>19. ASSUME NEW th \in Threads, TimedOut(th)
      PROVE  Local(th)
  BY <1>0, <1>19 DEF TypeOK, TimedOut
<1>20. ASSUME NEW th \in Threads, TimedRetry(th)
      PROVE  Local(th)
  BY <1>0, <1>20 DEF TypeOK, TimedRetry
<1>21. ASSUME NEW th \in Threads, TimedNoYield(th)
      PROVE  Local(th)
  BY <1>0, <1>21 DEF TypeOK, TimedNoYield
<1>22. ASSUME NEW th \in Threads, WakeNobody(th)
      PROVE  Local(th)
  BY <1>0, <1>22 DEF TypeOK, WakeNobody, WakeReturn
<1>23. ASSUME NEW a \in Agents, UnlockRead(a)
      PROVE  Local(a)
  BY <1>0, <1>23 DEF TypeOK, UnlockRead
<1>24. ASSUME NEW a \in Agents, UnlockSeat(a)
      PROVE  Local(a)
  BY <1>0, <1>24 DEF TypeOK, UnlockSeat, CAS
<1>25. ASSUME NEW a \in Agents, UnlockFree(a)
      PROVE  Local(a)
  BY <1>0, <1>25 DEF TypeOK, UnlockFree, Unlocked, CAS
<1>26. ASSUME NEW a \in Agents, UnlockRetry(a)
      PROVE  Local(a)
  BY <1>0, <1>26 DEF TypeOK, UnlockRetry
<1>27. ASSUME NEW a \in Agents, UnlockClear(a)
      PROVE  Local(a)
  BY <1>0, <1>27 DEF TypeOK, UnlockClear
<1> HIDE DEF Local, Leaves, Pushes, PCsOf, AwayPCs, SleepPCs, WakePCs, At,
              Goto, mutexVars, switchVars, ThreadPCs, UnlockPCs, WorkerPCs
<1> QED
  BY <1>1, <1>2, <1>3, <1>4, <1>5, <1>6, <1>7, <1>8, <1>9, <1>10, <1>11, <1>12,
     <1>13, <1>14, <1>15, <1>16, <1>17, <1>18, <1>19, <1>20, <1>21, <1>22,
     <1>23, <1>24, <1>25, <1>26, <1>27 DEF Kinds, StepOfWorker, StepOfAgent,
     Next, WorkerStep, ClientStep, ThreadStep, UnlockStep, Switch

\* What TypeOK says about the places of threads.
PlaceTypes ==
    /\ Threads \subseteq Agents /\ Workers \subseteq Agents
    /\ \A w \in Workers : /\ this[w] \in Threads \cup {NULL}
                          /\ leaving[w] \in Threads \cup {NULL}
    /\ \A a \in Agents : waking[a] \in Threads \cup {NULL}
    /\ ready \subseteq Threads
    /\ sleepq \in Seq(Threads)
    /\ \A i \in 1 .. Len(sleepq) : sleepq[i] \in Threads
    /\ \A c \in Conds : /\ condq[c] \in Seq(Threads)
                        /\ \A i \in 1 .. Len(condq[c]) : condq[c][i] \in Threads

\* PlaceTypes is part of TypeOK.
LEMMA Types == TypeOK => PlaceTypes
BY DEF TypeOK, SwitchTypeOK, Agents, PlaceTypes

\* Agent a has dequeued the head of sleep queue q, whose threads are at p.
Woken(a, q, p, to) ==
    /\ 1 \in 1 .. Len(q) /\ q[1] = Head(q) /\ \A i \in 1 .. Len(q) : q[i] \in Threads
    /\ Head(q) \in Threads /\ Head(q) # a /\ pc[Head(q)] = p /\ Head(q) \notin ready
    /\ \A w \in Workers : this[w] # Head(q) /\ leaving[w] # Head(q)
    /\ \A b \in Agents : waking[b] # Head(q)
    /\ \A i \in 1 .. Len(Tail(q)) : i + 1 \in 1 .. Len(q) /\ Tail(q)[i] = q[i + 1]
    /\ \A i \in 2 .. Len(q) : i - 1 \in 1 .. Len(Tail(q)) /\ Tail(q)[i - 1] = q[i]
    /\ \A i \in 1 .. Len(Tail(q)) : Tail(q)[i] # Head(q)
    /\ \A i \in 1 .. Len(q) : q[i] = Head(q) => i = 1
    /\ \A b \in Agents : pc'[b] = IF b = Head(q) THEN "lock_read"
                                 ELSE IF b = a THEN to ELSE pc[b]
    /\ \A b \in Agents : waking'[b] = IF b = a THEN Head(q) ELSE waking[b]

\* A dequeue takes a thread that is nowhere else and leaves the others alone.
LEMMA DequeueWakes ==
    ASSUME TypeOK, Placed, Asleep,
           NEW a \in Agents, NEW q \in Seq(Threads), q # <<>>, NEW p \in SleepPCs,
           Sleeping(q, p, pc, leaving), NEW from, from \notin SleepPCs, NEW to,
           Dequeue(a, q, from, to)
    PROVE  Woken(a, q, p, to)
<1> DEFINE h == Head(q)
<1>1. 1 \in 1 .. Len(q) /\ q[1] = h /\ h \in Threads /\ h \in Agents
  BY DEF Agents
<1>2. pc[h] = p /\ \A w \in Workers : leaving[w] # h
  BY <1>1 DEF Sleeping
<1>3. /\ Len(Tail(q)) = Len(q) - 1
      /\ \A i \in 1 .. Len(Tail(q)) : Tail(q)[i] = q[i + 1]
  OBVIOUS
<1>4. h \notin ready /\ \A w \in Workers : this[w] # h
  BY <1>1, <1>2, BlockingAssumption DEF Asleep
<1>5. \A b \in Agents : waking[b] # h
  BY <1>1, <1>2, BlockingAssumption DEF Asleep, SleepPCs
<1>6. h # a
  BY <1>2 DEF Dequeue, At
<1>7. \A i \in 1 .. Len(Tail(q)) : Tail(q)[i] # h
  BY <1>1, <1>3 DEF Sleeping
<1>8. \A i \in 1 .. Len(q) : q[i] = h => i = 1
  BY <1>1 DEF Sleeping
<1>9. Len(q) \in Nat /\ \A i \in 1 .. Len(q) : q[i] \in Threads
  OBVIOUS
<1> HIDE DEF h
<1>10. /\ \A b \in Agents : pc'[b] = IF b = h THEN "lock_read"
                                   ELSE IF b = a THEN to ELSE pc[b]
       /\ \A b \in Agents : waking'[b] = IF b = a THEN h ELSE waking[b]
  BY <1>1, <1>6 DEF Dequeue, TypeOK, h
<1> QED
  BY <1>1, <1>2, <1>3, <1>4, <1>5, <1>6, <1>7, <1>8, <1>9, <1>10 DEF Woken, h

\* The dequeue of unlock wakes a thread that sleeps in the mutex.
LEMMA UnlockDequeueWakes ==
    ASSUME TypeOK, Placed, Asleep, QueuesOK, NEW a \in Agents, UnlockDequeue(a)
    PROVE  /\ Woken(a, sleepq, "mutex_sleep", "unlock_clear")
           /\ sleepq' = Tail(sleepq) /\ pc[a] = "unlock_dequeue"
           /\ UNCHANGED <<switchVars, state, condq, val, cond, then>>
<1>1. /\ sleepq # <<>> /\ sleepq \in Seq(Threads)
      /\ Dequeue(a, sleepq, "unlock_dequeue", "unlock_clear")
  BY DEF UnlockDequeue, TypeOK
<1>2. "mutex_sleep" \in SleepPCs /\ "unlock_dequeue" \notin SleepPCs
  BY DEF SleepPCs
<1>3. Sleeping(sleepq, "mutex_sleep", pc, leaving)
  BY DEF QueuesOK
<1> QED
  BY <1>1, <1>2, <1>3, DequeueWakes DEF UnlockDequeue, Dequeue, At

WakePush(p) == IF p = "signal" THEN "signal_push" ELSE "broadcast_push"

\* That of signal and broadcast wakes one that waits for the condition variable.
LEMMA WakeDequeueWakes ==
    ASSUME TypeOK, Placed, Asleep, QueuesOK, LocalsOK, NEW th \in Threads,
           WakeDequeue(th)
    PROVE  /\ cond[th] \in Conds
           /\ pc[th] \in {"signal", "broadcast"}
           /\ Woken(th, condq[cond[th]], "cond_sleep", WakePush(pc[th]))
           /\ condq' = [condq EXCEPT ![cond[th]] = Tail(condq[cond[th]])]
           /\ cond' = [cond EXCEPT ![Head(condq[cond[th]])] = NULL]
           /\ UNCHANGED <<switchVars, state, sleepq, val, then>>
<1> DEFINE q == condq[cond[th]]
<1>1. pc[th] \in {"signal", "broadcast"}
  BY DEF WakeDequeue
<1>2. cond[th] \in Conds
  BY <1>1 DEF LocalsOK, SignalPCs
<1>3. /\ q # <<>> /\ q \in Seq(Threads)
      /\ Dequeue(th, q, pc[th], WakePush(pc[th]))
  BY <1>1, <1>2 DEF WakeDequeue, TypeOK, WakePush
<1>4. "cond_sleep" \in SleepPCs /\ pc[th] \notin SleepPCs
  BY <1>1 DEF SleepPCs
<1>5. Sleeping(q, "cond_sleep", pc, leaving)
  BY <1>2 DEF QueuesOK
<1>6. th \in Agents
  BY DEF Agents
<1> HIDE DEF q
<1>7. Woken(th, q, "cond_sleep", WakePush(pc[th]))
  BY <1>3, <1>4, <1>5, <1>6, DequeueWakes
<1> QED
  BY <1>1, <1>2, <1>7 DEF WakeDequeue, q

-----------------------------------------------------------------------------
(* The parts of the invariant, one lemma each                              *)

\* Every step keeps Roles.
LEMMA RolesStep ==
    ASSUME IInv, Kinds
    PROVE  Roles'
<1>0. TypeOK /\ Roles /\ Placed /\ Asleep /\ QueuesOK /\ LocalsOK
  BY DEF IInv
<1>0a. PlaceTypes
  BY <1>0, Types
<1>4. ASSUME NEW w \in Workers, EnqueueWaiter(w)
      PROVE  Roles'
  <2>1. /\ \A b \in Agents : pc'[b] = IF b = w THEN "unlock_read" ELSE pc[b]
        /\ \A v \in Workers : leaving'[v] = IF v = w THEN NULL ELSE leaving[v]
        /\ pc[w] = "callback" /\ UNCHANGED waking
    BY <1>0, <1>4 DEF TypeOK, SwitchTypeOK, Agents, EnqueueWaiter, Left, At,
       Goto
  <2> QED BY <1>0, <2>1, BlockingAssumption DEF Roles, Agents, WakePCs
<1>5. ASSUME NEW w \in Workers, PutYielder(w)
      PROVE  Roles'
  <2>1. /\ \A b \in Agents : pc'[b] = IF b = w THEN "run" ELSE pc[b]
        /\ \A v \in Workers : leaving'[v] = IF v = w THEN NULL ELSE leaving[v]
        /\ pc[w] = "callback" /\ UNCHANGED waking
    BY <1>0, <1>5 DEF TypeOK, SwitchTypeOK, Agents, mutexVars, PutYielder,
       YieldPut, Left, At, Goto
  <2> QED BY <1>0, <2>1, BlockingAssumption DEF Roles, Agents, WakePCs
<1>6. ASSUME NEW w \in Workers, NEW th \in Threads, Leaves(w, th)
      PROVE  Roles'
  <2>1. PICK to \in SleepPCs \cup {"idle", "timed_check"} :
            pc' = [pc EXCEPT ![th] = to, ![w] = "swap"]
    BY <1>6 DEF Leaves
  <2>2. \A b \in Agents : pc'[b] = IF b = w THEN "swap" ELSE IF b = th THEN to
     ELSE pc[b]
    BY <1>0, <2>1 DEF TypeOK, Agents
  <2>3. /\ \A v \in Workers : leaving'[v] = IF v = w THEN th ELSE leaving[v]
        /\ pc[w] = "run" /\ pc[th] \notin WakePCs /\ UNCHANGED waking
    BY <1>0, <1>6 DEF Leaves, TypeOK, SwitchTypeOK
  <2> QED
    BY <1>0, <2>2, <2>3, BlockingAssumption DEF Roles, Agents, WakePCs, SleepPCs
<1>9. ASSUME NEW a \in Agents, UnlockDequeue(a)
      PROVE  Roles'
  <2>1. /\ Woken(a, sleepq, "mutex_sleep", "unlock_clear")
        /\ sleepq' = Tail(sleepq) /\ pc[a] = "unlock_dequeue"
        /\ UNCHANGED <<switchVars, state, condq, val, cond, then>>
    BY <1>0, <1>9, UnlockDequeueWakes
  <2> QED
    BY <1>0, <2>1, BlockingAssumption DEF Woken, switchVars, Roles, Agents,
       WakePCs
<1>10. ASSUME NEW th \in Threads, WakeDequeue(th)
      PROVE  Roles'
  <2> DEFINE q == condq[cond[th]]
  <2>1. /\ cond[th] \in Conds
        /\ pc[th] \in {"signal", "broadcast"}
        /\ Woken(th, q, "cond_sleep", WakePush(pc[th]))
        /\ condq' = [condq EXCEPT ![cond[th]] = Tail(q)]
        /\ cond' = [cond EXCEPT ![Head(q)] = NULL]
        /\ UNCHANGED <<switchVars, state, sleepq, val, then>>
    BY <1>0, <1>10, WakeDequeueWakes
  <2> HIDE DEF q
  <2> QED
    BY <1>0, <2>1, BlockingAssumption DEF Woken, WakePush, switchVars, Roles,
       Agents, WakePCs
<1>11. CASE UNCHANGED vars
  BY <1>0, <1>11 DEF vars, switchVars, mutexVars, Roles
<1> USE BlockingAssumption, CondsAssumption DEF TypeOK, SwitchTypeOK, Agents,
   Executes, mutexVars, switchVars, AwayPCs, SleepPCs, WakePCs, ThreadPCs,
   UnlockPCs, WorkerPCs, Roles, Placed, Asleep, QueuesOK, LocalsOK, Sleeping
<1>1. ASSUME NEW w \in Workers, Resume(w) /\ UNCHANGED mutexVars
      PROVE  Roles'
  BY <1>0, <1>1 DEF Resume, Dispatch
<1>2. ASSUME NEW w \in Workers, SwapContext(w) /\ UNCHANGED mutexVars
      PROVE  Roles'
  BY <1>0, <1>2 DEF SwapContext
<1>3. ASSUME NEW w \in Workers, EnqueueLocker(w)
      PROVE  Roles'
  BY <1>0, <1>3 DEF EnqueueLocker, Left, At, Goto
<1>7. ASSUME NEW a \in Agents, Local(a)
      PROVE  Roles'
  BY <1>0, <1>7 DEF Local, PCsOf
<1>8. ASSUME NEW a \in Agents, Pushes(a)
      PROVE  Roles'
  BY <1>0, <1>8 DEF Pushes, Push, PCsOf
<1> HIDE DEF TypeOK, SwitchTypeOK, Agents, Executes, mutexVars, switchVars,
   AwayPCs, SleepPCs, WakePCs, ThreadPCs, UnlockPCs, WorkerPCs, Roles, Placed,
   Asleep, QueuesOK, LocalsOK, Sleeping
<1> QED
  BY <1>1, <1>2, <1>3, <1>4, <1>5, <1>6, <1>7, <1>8, <1>9, <1>10, <1>11 DEF
     Kinds, StepOfWorker, StepOfAgent

\* Every step keeps Placed: whoever takes a thread takes it from one place.
LEMMA PlacedStep ==
    ASSUME IInv, Kinds
    PROVE  Placed'
<1>0. TypeOK /\ Roles /\ Placed /\ Asleep /\ QueuesOK /\ LocalsOK
  BY DEF IInv
<1>0a. PlaceTypes
  BY <1>0, Types
<1>9. ASSUME NEW a \in Agents, UnlockDequeue(a)
      PROVE  Placed'
  <2>1. /\ Woken(a, sleepq, "mutex_sleep", "unlock_clear")
        /\ sleepq' = Tail(sleepq) /\ pc[a] = "unlock_dequeue"
        /\ UNCHANGED <<switchVars, state, condq, val, cond, then>>
    BY <1>0, <1>9, UnlockDequeueWakes
  <2> QED
    BY <1>0, <2>1, BlockingAssumption DEF Woken, switchVars, Placed
<1>10. ASSUME NEW th \in Threads, WakeDequeue(th)
      PROVE  Placed'
  <2> DEFINE q == condq[cond[th]]
  <2>1. /\ cond[th] \in Conds
        /\ pc[th] \in {"signal", "broadcast"}
        /\ Woken(th, q, "cond_sleep", WakePush(pc[th]))
        /\ condq' = [condq EXCEPT ![cond[th]] = Tail(q)]
        /\ cond' = [cond EXCEPT ![Head(q)] = NULL]
        /\ UNCHANGED <<switchVars, state, sleepq, val, then>>
    BY <1>0, <1>10, WakeDequeueWakes
  <2> HIDE DEF q
  <2> QED
    BY <1>0, <2>1, BlockingAssumption DEF Woken, WakePush, switchVars, Placed
<1>11. CASE UNCHANGED vars
  BY <1>0, <1>11 DEF vars, switchVars, mutexVars, Placed
<1> USE BlockingAssumption, CondsAssumption DEF TypeOK, SwitchTypeOK, Agents,
   Executes, mutexVars, switchVars, AwayPCs, SleepPCs, WakePCs, ThreadPCs,
   UnlockPCs, WorkerPCs, Roles, Placed, Asleep, QueuesOK, LocalsOK, Sleeping
<1>1. ASSUME NEW w \in Workers, Resume(w) /\ UNCHANGED mutexVars
      PROVE  Placed'
  BY <1>0, <1>1 DEF Resume, Dispatch
<1>2. ASSUME NEW w \in Workers, SwapContext(w) /\ UNCHANGED mutexVars
      PROVE  Placed'
  BY <1>0, <1>2 DEF SwapContext
<1>3. ASSUME NEW w \in Workers, EnqueueLocker(w)
      PROVE  Placed'
  BY <1>0, <1>3 DEF EnqueueLocker, Left, At, Goto
<1>4. ASSUME NEW w \in Workers, EnqueueWaiter(w)
      PROVE  Placed'
  BY <1>0, <1>4 DEF EnqueueWaiter, QueueWaiter, Left, At, Goto
<1>5. ASSUME NEW w \in Workers, PutYielder(w)
      PROVE  Placed'
  BY <1>0, <1>5 DEF PutYielder, YieldPut, Left, At, Goto
<1>6. ASSUME NEW w \in Workers, NEW th \in Threads, Leaves(w, th)
      PROVE  Placed'
  BY <1>0, <1>6 DEF Leaves, Dispatch
<1>7. ASSUME NEW a \in Agents, Local(a)
      PROVE  Placed'
  BY <1>0, <1>7 DEF Local, PCsOf
<1>8. ASSUME NEW a \in Agents, Pushes(a)
      PROVE  Placed'
  BY <1>0, <1>8 DEF Pushes, Push, PCsOf
<1> HIDE DEF TypeOK, SwitchTypeOK, Agents, Executes, mutexVars, switchVars,
   AwayPCs, SleepPCs, WakePCs, ThreadPCs, UnlockPCs, WorkerPCs, Roles, Placed,
   Asleep, QueuesOK, LocalsOK, Sleeping
<1> QED
  BY <1>1, <1>2, <1>3, <1>4, <1>5, <1>6, <1>7, <1>8, <1>9, <1>10, <1>11 DEF
     Kinds, StepOfWorker, StepOfAgent

\* Every step keeps Asleep.
LEMMA AsleepStep ==
    ASSUME IInv, Kinds
    PROVE  Asleep'
<1>0. TypeOK /\ Roles /\ Placed /\ Asleep /\ QueuesOK /\ LocalsOK
  BY DEF IInv
<1>0a. PlaceTypes
  BY <1>0, Types
<1>9. ASSUME NEW a \in Agents, UnlockDequeue(a)
      PROVE  Asleep'
  <2>1. /\ Woken(a, sleepq, "mutex_sleep", "unlock_clear")
        /\ sleepq' = Tail(sleepq) /\ pc[a] = "unlock_dequeue"
        /\ UNCHANGED <<switchVars, state, condq, val, cond, then>>
    BY <1>0, <1>9, UnlockDequeueWakes
  <2>2. \A t \in Threads : pc'[t] \in SleepPCs => pc[t] \in SleepPCs
    BY <2>1 DEF Woken, SleepPCs, Agents
  <2>3. \A b \in Agents : waking'[b] # NULL => pc'[waking'[b]] = "lock_read"
    BY <1>0, <1>0a, <2>1 DEF Woken, Asleep, PlaceTypes
  <2>4. \A w \in Workers :
            leaving[w] # NULL => pc'[leaving[w]] \in SleepPCs \cup {"idle",
               "timed_check"}
    BY <1>0, <1>0a, <2>1 DEF Woken, Asleep, PlaceTypes, SleepPCs
  <2> QED
    BY <1>0, <1>0a, <2>1, <2>2, <2>3, <2>4 DEF Asleep, switchVars, PlaceTypes
<1>10. ASSUME NEW th \in Threads, WakeDequeue(th)
      PROVE  Asleep'
  <2> DEFINE q == condq[cond[th]]
  <2>1. /\ cond[th] \in Conds
        /\ pc[th] \in {"signal", "broadcast"}
        /\ Woken(th, q, "cond_sleep", WakePush(pc[th]))
        /\ condq' = [condq EXCEPT ![cond[th]] = Tail(q)]
        /\ cond' = [cond EXCEPT ![Head(q)] = NULL]
        /\ UNCHANGED <<switchVars, state, sleepq, val, then>>
    BY <1>0, <1>10, WakeDequeueWakes
  <2>2. \A t \in Threads : pc'[t] \in SleepPCs => pc[t] \in SleepPCs
    BY <2>1 DEF Woken, WakePush, SleepPCs, Agents
  <2>3. \A b \in Agents : waking'[b] # NULL => pc'[waking'[b]] = "lock_read"
    BY <1>0, <1>0a, <2>1 DEF Woken, Asleep, PlaceTypes
  <2>4. \A w \in Workers :
            leaving[w] # NULL => pc'[leaving[w]] \in SleepPCs \cup {"idle",
               "timed_check"}
    BY <1>0, <1>0a, <2>1 DEF Woken, Asleep, PlaceTypes, SleepPCs
  <2> QED
    BY <1>0, <1>0a, <2>1, <2>2, <2>3, <2>4 DEF Asleep, switchVars, PlaceTypes
<1>11. CASE UNCHANGED vars
  BY <1>0, <1>11 DEF vars, switchVars, mutexVars, Asleep
<1> USE BlockingAssumption, CondsAssumption DEF TypeOK, SwitchTypeOK, Agents,
   Executes, mutexVars, switchVars, AwayPCs, SleepPCs, WakePCs, ThreadPCs,
   UnlockPCs, WorkerPCs, Roles, Placed, Asleep, QueuesOK, LocalsOK, Sleeping
<1>1. ASSUME NEW w \in Workers, Resume(w) /\ UNCHANGED mutexVars
      PROVE  Asleep'
  BY <1>0, <1>1 DEF Resume, Dispatch
<1>2. ASSUME NEW w \in Workers, SwapContext(w) /\ UNCHANGED mutexVars
      PROVE  Asleep'
  BY <1>0, <1>2 DEF SwapContext
<1>3. ASSUME NEW w \in Workers, EnqueueLocker(w)
      PROVE  Asleep'
  BY <1>0, <1>3 DEF EnqueueLocker, Left, At, Goto
<1>4. ASSUME NEW w \in Workers, EnqueueWaiter(w)
      PROVE  Asleep'
  BY <1>0, <1>4 DEF EnqueueWaiter, QueueWaiter, Left, At, Goto
<1>5. ASSUME NEW w \in Workers, PutYielder(w)
      PROVE  Asleep'
  BY <1>0, <1>5 DEF PutYielder, YieldPut, Left, At, Goto
<1>6. ASSUME NEW w \in Workers, NEW th \in Threads, Leaves(w, th)
      PROVE  Asleep'
  BY <1>0, <1>6 DEF Leaves, Dispatch
<1>7. ASSUME NEW a \in Agents, Local(a)
      PROVE  Asleep'
  BY <1>0, <1>7 DEF Local, PCsOf
<1>8. ASSUME NEW a \in Agents, Pushes(a)
      PROVE  Asleep'
  BY <1>0, <1>8 DEF Pushes, Push, PCsOf
<1> HIDE DEF TypeOK, SwitchTypeOK, Agents, Executes, mutexVars, switchVars,
   AwayPCs, SleepPCs, WakePCs, ThreadPCs, UnlockPCs, WorkerPCs, Roles, Placed,
   Asleep, QueuesOK, LocalsOK, Sleeping
<1> QED
  BY <1>1, <1>2, <1>3, <1>4, <1>5, <1>6, <1>7, <1>8, <1>9, <1>10, <1>11 DEF
     Kinds, StepOfWorker, StepOfAgent

\* Every step keeps QueuesOK: no thread is enqueued twice or while it runs.
LEMMA QueuesStep ==
    ASSUME IInv, Kinds
    PROVE  QueuesOK'
<1>0. TypeOK /\ Roles /\ Placed /\ Asleep /\ QueuesOK /\ LocalsOK
  BY DEF IInv
<1>0a. PlaceTypes
  BY <1>0, Types
<1>1. ASSUME NEW w \in Workers, Resume(w) /\ UNCHANGED mutexVars
      PROVE  QueuesOK'
  BY <1>0, <1>1 DEF Resume, QueuesOK, Sleeping, mutexVars
<1>3. ASSUME NEW w \in Workers, EnqueueLocker(w)
      PROVE  QueuesOK'
  <2> DEFINE th == leaving[w]
  <2>1. /\ th \in Threads /\ pc[th] = "mutex_sleep" /\ sleepq \in Seq(Threads)
    BY <1>0, <1>3 DEF EnqueueLocker, TypeOK
  <2>2. /\ sleepq' = Append(sleepq, th)
        /\ UNCHANGED <<condq, cond>>
        /\ leaving' = [leaving EXCEPT ![w] = NULL]
        /\ pc' = [pc EXCEPT ![w] = "run"]
    BY <1>3 DEF EnqueueLocker, Left, Goto
  <2>3. \A t \in Threads : pc'[t] = pc[t]
    BY <1>0, <2>2, BlockingAssumption DEF TypeOK, Agents
  <2>4. \A v \in Workers : v # w => leaving[v] # th
    BY <1>0, <2>1, BlockingAssumption DEF Placed
  <2>5. \A v \in Workers : leaving'[v] = IF v = w THEN NULL ELSE leaving[v]
    BY <1>0, <2>2 DEF TypeOK, SwitchTypeOK
  <2>6. \A i \in 1 .. Len(sleepq) : sleepq[i] \in Threads /\ sleepq[i] # th
    BY <1>0, <2>1 DEF QueuesOK, Sleeping
  <2>7. \A i \in 1 .. Len(sleepq') :
            IF i = Len(sleepq) + 1 THEN sleepq'[i] = th
                                  ELSE i \in 1 .. Len(sleepq) /\ sleepq'[i] =
                                     sleepq[i]
    BY <2>1, <2>2
  <2>8. \A c \in Conds : \A i \in 1 .. Len(condq[c]) : condq[c][i] \in Threads
    BY <1>0 DEF TypeOK
  <2> HIDE DEF th
  <2>9. Sleeping(sleepq', "mutex_sleep", pc', leaving')
    BY <1>0, <2>1, <2>3, <2>4, <2>5, <2>6, <2>7, BlockingAssumption DEF
       QueuesOK, Sleeping
  <2> QED
    BY <1>0, <2>2, <2>3, <2>5, <2>8, <2>9, BlockingAssumption DEF QueuesOK,
       Sleeping
<1>4. ASSUME NEW w \in Workers, EnqueueWaiter(w)
      PROVE  QueuesOK'
  <2> DEFINE th == leaving[w]
  <2>1. /\ th \in Threads /\ pc[th] = "cond_sleep" /\ cond[th] \in Conds
        /\ condq[cond[th]] \in Seq(Threads)
    BY <1>0, <1>4 DEF EnqueueWaiter, LocalsOK, TypeOK
  <2>2. /\ condq' = [condq EXCEPT ![cond[th]] = Append(@, th)]
        /\ UNCHANGED <<sleepq, cond>>
        /\ leaving' = [leaving EXCEPT ![w] = NULL]
        /\ pc' = [pc EXCEPT ![w] = "unlock_read"]
    BY <1>4 DEF EnqueueWaiter, QueueWaiter, Left, Goto
  <2>3. \A t \in Threads : pc'[t] = pc[t]
    BY <1>0, <2>2, BlockingAssumption DEF TypeOK, Agents
  <2>4. \A v \in Workers : v # w => leaving[v] # th
    BY <1>0, <2>1, BlockingAssumption DEF Placed
  <2>5. \A v \in Workers : leaving'[v] = IF v = w THEN NULL ELSE leaving[v]
    BY <1>0, <2>2 DEF TypeOK, SwitchTypeOK
  <2>6. \A i \in 1 .. Len(sleepq) : sleepq[i] \in Threads
    BY <1>0 DEF TypeOK
  <2>7. \A c \in Conds : \A i \in 1 .. Len(condq[c]) : condq[c][i] \in Threads
    BY <1>0 DEF TypeOK
  <2>8. Sleeping(sleepq, "mutex_sleep", pc', leaving')
    BY <1>0, <2>2, <2>3, <2>5, <2>6, BlockingAssumption DEF QueuesOK, Sleeping
  <2>9. ASSUME NEW c \in Conds
        PROVE  /\ Sleeping(condq'[c], "cond_sleep", pc', leaving')
               /\ \A i \in 1 .. Len(condq'[c]) : cond'[condq'[c][i]] = c
    <3> DEFINE p == condq[c]
    <3>1. CASE c = cond[th]
      <4>1. condq'[c] = Append(p, th) /\ p \in Seq(Threads)
        BY <1>0, <2>1, <2>2, <3>1 DEF TypeOK
      <4>2. /\ Len(Append(p, th)) = Len(p) + 1 /\ Len(p) \in Nat
            /\ \A i \in 1 .. Len(p) : Append(p, th)[i] = p[i]
            /\ Append(p, th)[Len(p) + 1] = th
        BY <4>1
      <4>3. \A i \in 1 .. Len(p) : p[i] # th
        BY <1>0 DEF QueuesOK, Sleeping
      <4>4. Sleeping(p, "cond_sleep", pc, leaving) /\ \A i \in 1 .. Len(p) :
         cond[p[i]] = c
        BY <1>0 DEF QueuesOK
      <4>5. \A i \in 1 .. Len(p) : p[i] \in Threads
        BY <2>7
      <4> HIDE DEF p, th
      <4>6. Sleeping(Append(p, th), "cond_sleep", pc', leaving')
        BY <2>1, <2>3, <2>4, <2>5, <4>2, <4>3, <4>4, <4>5, BlockingAssumption
        DEF Sleeping
      <4>7. \A i \in 1 .. Len(p) + 1 : cond'[Append(p, th)[i]] = c
        BY <2>2, <3>1, <4>2, <4>4
      <4> QED BY <4>1, <4>2, <4>6, <4>7
    <3>2. CASE c # cond[th]
      <4>1. condq'[c] = p
        BY <1>0, <2>1, <2>2, <3>2 DEF TypeOK
      <4>2. Sleeping(p, "cond_sleep", pc, leaving) /\ \A i \in 1 .. Len(p) :
         cond[p[i]] = c
        BY <1>0 DEF QueuesOK
      <4>3. \A i \in 1 .. Len(p) : p[i] \in Threads
        BY <2>7
      <4> HIDE DEF p
      <4>4. Sleeping(p, "cond_sleep", pc', leaving')
        BY <2>3, <2>5, <4>2, <4>3, BlockingAssumption DEF Sleeping
      <4> QED BY <2>2, <4>1, <4>2, <4>4
    <3> QED BY <3>1, <3>2
  <2> QED
    BY <2>2, <2>8, <2>9 DEF QueuesOK
<1>5. ASSUME NEW w \in Workers, PutYielder(w)
      PROVE  QueuesOK'
  <2>1. /\ \A t \in Threads : pc'[t] = pc[t]
        /\ \A v \in Workers : leaving'[v] \in {leaving[v], NULL}
        /\ UNCHANGED <<sleepq, condq, cond>>
    BY <1>0, <1>5, BlockingAssumption
    DEF TypeOK, SwitchTypeOK, Agents, PutYielder, YieldPut, Left, Goto,
       mutexVars
  <2> QED
    BY <1>0, <1>0a, <2>1, BlockingAssumption DEF QueuesOK, Sleeping, PlaceTypes
<1>6. ASSUME NEW w \in Workers, NEW th \in Threads, Leaves(w, th)
      PROVE  QueuesOK'
  <2>1. /\ pc[th] \notin SleepPCs
        /\ \A t \in Threads : t # th => pc'[t] = pc[t]
        /\ \A v \in Workers : leaving'[v] \in {leaving[v], th}
        /\ UNCHANGED <<sleepq, condq>>
        /\ \A t \in Threads : t # th => cond'[t] = cond[t]
    BY <1>0, <1>6, BlockingAssumption
    DEF TypeOK, SwitchTypeOK, Agents, Leaves, AwayPCs, SleepPCs
  <2>2. /\ \A i \in 1 .. Len(sleepq) : sleepq[i] # th
        /\ \A c \in Conds : \A i \in 1 .. Len(condq[c]) : condq[c][i] # th
    BY <1>0, <2>1 DEF QueuesOK, Sleeping, SleepPCs
  <2>3. Sleeping(sleepq', "mutex_sleep", pc', leaving')
    BY <1>0, <1>0a, <2>1, <2>2 DEF QueuesOK, Sleeping, PlaceTypes
  <2>4. \A c \in Conds : Sleeping(condq'[c], "cond_sleep", pc', leaving')
    BY <1>0, <1>0a, <2>1, <2>2 DEF QueuesOK, Sleeping, PlaceTypes
  <2> QED
    BY <1>0, <1>0a, <2>1, <2>2, <2>3, <2>4 DEF QueuesOK, PlaceTypes
<1>9. ASSUME NEW a \in Agents, UnlockDequeue(a)
      PROVE  QueuesOK'
  <2>1. /\ Woken(a, sleepq, "mutex_sleep", "unlock_clear")
        /\ sleepq' = Tail(sleepq) /\ pc[a] = "unlock_dequeue"
        /\ UNCHANGED <<switchVars, state, condq, val, cond, then>>
    BY <1>0, <1>9, UnlockDequeueWakes
  <2>2. Sleeping(Tail(sleepq), "mutex_sleep", pc', leaving')
    BY <1>0, <1>0a, <2>1 DEF Woken, QueuesOK, Sleeping, PlaceTypes, switchVars
  <2>3. \A c \in Conds : \A i \in 1 .. Len(condq[c]) : condq[c][i] \in Agents
    BY <1>0a DEF PlaceTypes
  <2>4. \A c \in Conds : Sleeping(condq[c], "cond_sleep", pc', leaving')
    BY <1>0, <2>1, <2>3 DEF Woken, QueuesOK, Sleeping, switchVars
  <2> QED
    BY <1>0, <2>1, <2>2, <2>4 DEF QueuesOK
<1>10. ASSUME NEW th \in Threads, WakeDequeue(th)
      PROVE  QueuesOK'
  <2> DEFINE q == condq[cond[th]]
  <2>1. /\ cond[th] \in Conds
        /\ pc[th] \in {"signal", "broadcast"}
        /\ Woken(th, q, "cond_sleep", WakePush(pc[th]))
        /\ condq' = [condq EXCEPT ![cond[th]] = Tail(q)]
        /\ cond' = [cond EXCEPT ![Head(q)] = NULL]
        /\ UNCHANGED <<switchVars, state, sleepq, val, then>>
    BY <1>0, <1>10, WakeDequeueWakes
  <2>2. \A i \in 1 .. Len(sleepq) : sleepq[i] \in Agents
    BY <1>0 DEF TypeOK, Agents
  <2>3. Sleeping(sleepq, "mutex_sleep", pc', leaving')
    BY <1>0, <2>1, <2>2 DEF Woken, QueuesOK, Sleeping, switchVars
  <2>4. \A c \in Conds : \A i \in 1 .. Len(condq[c]) : condq[c][i] \in Threads
    BY <1>0 DEF TypeOK
  <2>5. ASSUME NEW c \in Conds
        PROVE  /\ Sleeping(condq'[c], "cond_sleep", pc', leaving')
               /\ \A i \in 1 .. Len(condq'[c]) : cond'[condq'[c][i]] = c
    <3>1. CASE c = cond[th]
      <4>1. condq'[c] = Tail(q) /\ q = condq[c]
        BY <1>0, <2>1, <3>1 DEF TypeOK, q
      <4>2. Sleeping(Tail(q), "cond_sleep", pc', leaving')
        BY <1>0, <1>0a, <2>1, <4>1 DEF Woken, QueuesOK, Sleeping, PlaceTypes,
           switchVars
      <4>3. \A i \in 1 .. Len(Tail(q)) : cond'[Tail(q)[i]] = c
        BY <1>0, <2>1, <4>1 DEF Woken, QueuesOK, TypeOK
      <4> QED BY <4>1, <4>2, <4>3
    <3>2. CASE c # cond[th]
      <4>1. condq'[c] = condq[c]
        BY <1>0, <2>1, <3>2 DEF TypeOK
      <4>2. cond[Head(q)] = cond[th] /\ Head(q) \in Threads
        <5>1. \A i \in 1 .. Len(q) : cond[q[i]] = cond[th]
          BY <1>0, <2>1 DEF QueuesOK, q
        <5>2. 1 \in 1 .. Len(q) /\ q[1] = Head(q) /\ Head(q) \in Threads
          BY <2>1 DEF Woken, q
        <5> QED BY <5>1, <5>2
      <4>3. \A i \in 1 .. Len(condq[c]) : condq[c][i] # Head(q) /\ condq[c][i]
         # th
        BY <1>0, <2>1, <3>2, <4>2 DEF QueuesOK, Sleeping
      <4>4. Sleeping(condq[c], "cond_sleep", pc', leaving')
        BY <1>0, <1>0a, <2>1, <4>3, SMTT(30) DEF Woken, QueuesOK, Sleeping, PlaceTypes,
           switchVars
      <4>5. \A i \in 1 .. Len(condq[c]) : cond'[condq[c][i]] = c
        BY <1>0, <2>1, <2>4, <4>2, <4>3 DEF QueuesOK, TypeOK
      <4> QED BY <4>1, <4>4, <4>5
    <3> QED BY <3>1, <3>2
  <2> QED
    BY <2>1, <2>3, <2>5 DEF QueuesOK
<1>11. CASE UNCHANGED vars
  BY <1>0, <1>11 DEF vars, switchVars, mutexVars, QueuesOK
<1>2. ASSUME NEW w \in Workers, SwapContext(w) /\ UNCHANGED mutexVars
      PROVE  QueuesOK'
  <2>1. \A th \in Threads : pc'[th] = pc[th]
    BY <1>0, <1>2, BlockingAssumption DEF SwapContext, TypeOK, Agents
  <2>2. /\ UNCHANGED <<leaving, sleepq, condq, cond>>
        /\ \A i \in 1 .. Len(sleepq) : sleepq[i] \in Threads
        /\ \A c \in Conds : \A i \in 1 .. Len(condq[c]) : condq[c][i] \in Threads
    BY <1>0, <1>2 DEF SwapContext, mutexVars, TypeOK
  <2> QED BY <1>0, <2>1, <2>2 DEF QueuesOK, Sleeping
<1> USE BlockingAssumption, CondsAssumption DEF TypeOK, SwitchTypeOK, Agents,
   Executes, mutexVars, switchVars, AwayPCs, SleepPCs, WakePCs, ThreadPCs,
   UnlockPCs, WorkerPCs, Roles, Placed, Asleep, QueuesOK, LocalsOK, Sleeping
<1>7. ASSUME NEW a \in Agents, Local(a)
      PROVE  QueuesOK'
  BY <1>0, <1>7, SMTT(30) DEF Local, PCsOf
<1>8. ASSUME NEW a \in Agents, Pushes(a)
      PROVE  QueuesOK'
  BY <1>0, <1>8, SMTT(30) DEF Pushes, Push, PCsOf
<1> HIDE DEF TypeOK, SwitchTypeOK, Agents, Executes, mutexVars, switchVars,
   AwayPCs, SleepPCs, WakePCs, ThreadPCs, UnlockPCs, WorkerPCs, Roles, Placed,
   Asleep, QueuesOK, LocalsOK, Sleeping
<1> QED
  BY <1>1, <1>2, <1>3, <1>4, <1>5, <1>6, <1>7, <1>8, <1>9, <1>10, <1>11 DEF
     Kinds, StepOfWorker, StepOfAgent

\* Every step keeps SavedOK.
LEMMA SavedStep ==
    ASSUME IInv, Kinds
    PROVE  SavedOK'
<1>0. TypeOK /\ Roles /\ Placed /\ Asleep /\ QueuesOK /\ LocalsOK /\ SavedOK
  BY DEF IInv
<1>0a. PlaceTypes
  BY <1>0, Types
<1>9. ASSUME NEW a \in Agents, UnlockDequeue(a)
      PROVE  SavedOK'
  <2>1. /\ Woken(a, sleepq, "mutex_sleep", "unlock_clear")
        /\ sleepq' = Tail(sleepq) /\ pc[a] = "unlock_dequeue"
        /\ UNCHANGED <<switchVars, state, condq, val, cond, then>>
    BY <1>0, <1>9, UnlockDequeueWakes
  <2> QED
    BY <1>0, <1>0a, <2>1 DEF Woken, SavedOK, switchVars, PlaceTypes
<1>10. ASSUME NEW th \in Threads, WakeDequeue(th)
      PROVE  SavedOK'
  <2> DEFINE q == condq[cond[th]]
  <2>1. /\ cond[th] \in Conds
        /\ pc[th] \in {"signal", "broadcast"}
        /\ Woken(th, q, "cond_sleep", WakePush(pc[th]))
        /\ condq' = [condq EXCEPT ![cond[th]] = Tail(q)]
        /\ cond' = [cond EXCEPT ![Head(q)] = NULL]
        /\ UNCHANGED <<switchVars, state, sleepq, val, then>>
    BY <1>0, <1>10, WakeDequeueWakes
  <2>2. Head(q) \in saved /\ \A i \in 1 .. Len(Tail(q)) : Tail(q)[i] \in saved
    BY <1>0, <2>1 DEF Woken, SavedOK, q
  <2>3. \A c \in Conds : condq'[c] = IF c = cond[th] THEN Tail(q) ELSE condq[c]
    BY <1>0, <2>1 DEF TypeOK
  <2>4. \A c \in Conds : \A i \in 1 .. Len(condq'[c]) : condq'[c][i] \in saved
    BY <1>0, <2>2, <2>3 DEF SavedOK
  <2>5. \A b \in Agents : waking'[b] # NULL => waking'[b] \in saved
    BY <1>0, <2>1, <2>2 DEF Woken, SavedOK
  <2>6. \A w \in Workers : pc'[w] = "callback" => pc[w] = "callback"
    BY <1>0a, <2>1 DEF PlaceTypes, Woken, WakePush
  <2> QED
    BY <1>0, <2>1, <2>4, <2>5, <2>6 DEF SavedOK, switchVars
<1>11. CASE UNCHANGED vars
  BY <1>0, <1>11 DEF vars, switchVars, mutexVars, SavedOK
<1> USE BlockingAssumption, CondsAssumption DEF TypeOK, SwitchTypeOK, Agents,
   Executes, mutexVars, switchVars, AwayPCs, SleepPCs, WakePCs, ThreadPCs,
   UnlockPCs, WorkerPCs, Roles, Placed, Asleep, QueuesOK, LocalsOK, Sleeping,
   SavedOK
<1>1. ASSUME NEW w \in Workers, Resume(w) /\ UNCHANGED mutexVars
      PROVE  SavedOK'
  BY <1>0, <1>1 DEF Resume, Dispatch
<1>2. ASSUME NEW w \in Workers, SwapContext(w) /\ UNCHANGED mutexVars
      PROVE  SavedOK'
  BY <1>0, <1>2 DEF SwapContext
<1>3. ASSUME NEW w \in Workers, EnqueueLocker(w)
      PROVE  SavedOK'
  BY <1>0, <1>3 DEF EnqueueLocker, Left, At, Goto
<1>4. ASSUME NEW w \in Workers, EnqueueWaiter(w)
      PROVE  SavedOK'
  BY <1>0, <1>4 DEF EnqueueWaiter, QueueWaiter, Left, At, Goto
<1>5. ASSUME NEW w \in Workers, PutYielder(w)
      PROVE  SavedOK'
  BY <1>0, <1>5 DEF PutYielder, YieldPut, Left, At, Goto
<1>6. ASSUME NEW w \in Workers, NEW th \in Threads, Leaves(w, th)
      PROVE  SavedOK'
  BY <1>0, <1>6 DEF Leaves, Dispatch
<1>7. ASSUME NEW a \in Agents, Local(a)
      PROVE  SavedOK'
  BY <1>0, <1>7 DEF Local, PCsOf
<1>8. ASSUME NEW a \in Agents, Pushes(a)
      PROVE  SavedOK'
  BY <1>0, <1>8 DEF Pushes, Push, PCsOf
<1> HIDE DEF TypeOK, SwitchTypeOK, Agents, Executes, mutexVars, switchVars,
   AwayPCs, SleepPCs, WakePCs, ThreadPCs, UnlockPCs, WorkerPCs, Roles, Placed,
   Asleep, QueuesOK, LocalsOK, Sleeping, SavedOK
<1> QED
  BY <1>1, <1>2, <1>3, <1>4, <1>5, <1>6, <1>7, <1>8, <1>9, <1>10, <1>11 DEF
     Kinds, StepOfWorker, StepOfAgent

\* Threads that do not start to wait keep their place in the queue.
LEMMA WaitingFrame ==
    ASSUME Waiting, condq' = condq,
           \A t \in Threads : pc'[t] = "cond_sleep" =>
               /\ pc[t] = "cond_sleep" /\ cond'[t] = cond[t]
               /\ \A v \in Workers : leaving[v] = t =>
                      \E w \in Workers : leaving'[w] = t
    PROVE  Waiting'
BY DEF Waiting

\* Every step keeps Waiting.
LEMMA WaitingStep ==
    ASSUME IInv, Kinds
    PROVE  Waiting'
<1>0. /\ TypeOK /\ Roles /\ Placed /\ Asleep /\ QueuesOK /\ LocalsOK
      /\ Waiting
  BY DEF IInv
<1>0a. PlaceTypes
  BY <1>0, Types
<1>1. ASSUME NEW w \in Workers, Resume(w) /\ UNCHANGED mutexVars
      PROVE  Waiting'
  BY <1>0, <1>1, WaitingFrame DEF Resume, mutexVars
<1>2. ASSUME NEW w \in Workers, SwapContext(w) /\ UNCHANGED mutexVars
      PROVE  Waiting'
  <2>1. \A t \in Threads : pc'[t] = pc[t]
    BY <1>0, <1>0a, <1>2, BlockingAssumption DEF SwapContext, PlaceTypes, TypeOK
  <2> QED
    BY <1>0, <1>2, <2>1, WaitingFrame DEF SwapContext, mutexVars
<1>3. ASSUME NEW w \in Workers, EnqueueLocker(w)
      PROVE  Waiting'
  <2>1. \A t \in Threads : pc'[t] = pc[t]
    BY <1>0, <1>0a, <1>3, BlockingAssumption
    DEF EnqueueLocker, Left, Goto, PlaceTypes, TypeOK
  <2>2. \A v \in Workers : v # w => leaving'[v] = leaving[v]
    BY <1>0, <1>3 DEF EnqueueLocker, Left, TypeOK, SwitchTypeOK
  <2> QED
    BY <1>0, <1>3, <2>1, <2>2, WaitingFrame DEF EnqueueLocker
<1>4. ASSUME NEW w \in Workers, EnqueueWaiter(w)
      PROVE  Waiting'
  <2> DEFINE th == leaving[w]
  <2>1. /\ th \in Threads /\ pc[th] = "cond_sleep" /\ cond[th] \in Conds
        /\ condq[cond[th]] \in Seq(Threads)
    BY <1>0, <1>4 DEF EnqueueWaiter, LocalsOK, TypeOK
  <2>2. /\ condq' = [condq EXCEPT ![cond[th]] = Append(@, th)]
        /\ UNCHANGED cond
        /\ leaving' = [leaving EXCEPT ![w] = NULL]
        /\ pc' = [pc EXCEPT ![w] = "unlock_read"]
    BY <1>4 DEF EnqueueWaiter, QueueWaiter, Left, Goto
  <2>3. \A t \in Threads : pc'[t] = pc[t]
    BY <1>0, <1>0a, <2>2, BlockingAssumption DEF TypeOK, PlaceTypes
  <2>4. \A v \in Workers : leaving'[v] = IF v = w THEN NULL ELSE leaving[v]
    BY <1>0, <2>2 DEF TypeOK, SwitchTypeOK
  <2> DEFINE q == condq[cond[th]]
  <2>5. condq'[cond[th]] = Append(q, th) /\ q \in Seq(Threads)
    BY <1>0, <2>1, <2>2 DEF TypeOK
  <2>6. /\ Len(Append(q, th)) = Len(q) + 1 /\ Len(q) \in Nat
        /\ \A i \in 1 .. Len(q) : Append(q, th)[i] = q[i]
        /\ Append(q, th)[Len(q) + 1] = th
    BY <2>5
  <2>7. \A c \in Conds : c # cond[th] => condq'[c] = condq[c]
    BY <1>0, <2>1, <2>2 DEF TypeOK
  <2>8. ASSUME NEW t \in Threads, pc'[t] = "cond_sleep",
               \A v \in Workers : leaving'[v] # t
        PROVE  \E i \in 1 .. Len(condq'[cond'[t]]) : condq'[cond'[t]][i] = t
    <3>1. pc[t] = "cond_sleep" /\ cond'[t] = cond[t] /\ cond[t] \in Conds
      BY <1>0, <2>2, <2>3, <2>8 DEF LocalsOK
    <3>2. CASE t = th
      <4>1. Len(q) + 1 \in 1 .. Len(Append(q, th))
        BY <2>6
      <4> QED
        BY <2>2, <2>5, <2>6, <3>2, <4>1
    <3>3. CASE t # th
      <4>1. PICK i \in 1 .. Len(condq[cond[t]]) : condq[cond[t]][i] = t
        BY <1>0, <2>4, <2>8, <3>1, <3>3 DEF Waiting
      <4>2. CASE cond[t] = cond[th]
        <5>1. i \in 1 .. Len(Append(q, th)) /\ Append(q, th)[i] = t
          BY <2>6, <4>1, <4>2
        <5> QED BY <2>5, <3>1, <4>2, <5>1
      <4>3. CASE cond[t] # cond[th]
        BY <2>7, <3>1, <4>1, <4>3
      <4> QED BY <4>2, <4>3
    <3> QED BY <3>2, <3>3
  <2> QED
    BY <2>8 DEF Waiting
<1>5. ASSUME NEW w \in Workers, PutYielder(w)
      PROVE  Waiting'
  <2>1. \A t \in Threads : pc'[t] = pc[t]
    BY <1>0, <1>0a, <1>5, BlockingAssumption
    DEF PutYielder, YieldPut, Left, Goto, PlaceTypes, TypeOK
  <2>2. \A v \in Workers : v # w => leaving'[v] = leaving[v]
    BY <1>0, <1>5 DEF PutYielder, YieldPut, Left, TypeOK, SwitchTypeOK
  <2> QED
    BY <1>0, <1>5, <2>1, <2>2, WaitingFrame DEF PutYielder, mutexVars
<1>6. ASSUME NEW w \in Workers, NEW th \in Threads, Leaves(w, th)
      PROVE  Waiting'
  <2>1. \A t \in Threads : t # th => pc'[t] = pc[t] /\ cond'[t] = cond[t]
    BY <1>0, <1>0a, <1>6, BlockingAssumption DEF Leaves, PlaceTypes, TypeOK
  <2>2. \A v \in Workers : leaving'[v] = IF v = w THEN th ELSE leaving[v]
    BY <1>0, <1>6 DEF Leaves, TypeOK, SwitchTypeOK
  <2>3. leaving[w] = NULL
    BY <1>0, <1>6 DEF Leaves, Roles
  <2>4. condq' = condq
    BY <1>6 DEF Leaves
  <2> QED
    BY <1>0, <2>1, <2>2, <2>3, <2>4, BlockingAssumption DEF Waiting
<1>7. ASSUME NEW a \in Agents, Local(a)
      PROVE  Waiting'
  <2>1. \A t \in Threads : pc'[t] = "cond_sleep" => t # a /\ pc[t] =
     "cond_sleep"
    BY <1>0, <1>0a, <1>7 DEF Local, TypeOK, PlaceTypes, AwayPCs, SleepPCs
  <2> QED
    BY <1>0, <1>7, <2>1, WaitingFrame DEF Local, switchVars
<1>8. ASSUME NEW a \in Agents, Pushes(a)
      PROVE  Waiting'
  <2>1. \A t \in Threads : pc'[t] = "cond_sleep" => t # a /\ pc[t] =
     "cond_sleep"
    BY <1>0, <1>0a, <1>8 DEF Pushes, TypeOK, PlaceTypes, AwayPCs, SleepPCs
  <2> QED
    BY <1>0, <1>8, <2>1, WaitingFrame DEF Pushes, Push
<1>9. ASSUME NEW a \in Agents, UnlockDequeue(a)
      PROVE  Waiting'
  <2>1. /\ Woken(a, sleepq, "mutex_sleep", "unlock_clear")
        /\ sleepq' = Tail(sleepq) /\ pc[a] = "unlock_dequeue"
        /\ UNCHANGED <<switchVars, state, condq, val, cond, then>>
    BY <1>0, <1>9, UnlockDequeueWakes
  <2>2. \A t \in Threads : pc'[t] = "cond_sleep" => pc[t] = "cond_sleep"
    BY <1>0a, <2>1 DEF Woken, PlaceTypes
  <2> QED
    BY <1>0, <2>1, <2>2, WaitingFrame DEF switchVars
<1>10. ASSUME NEW th \in Threads, WakeDequeue(th)
      PROVE  Waiting'
  <2> DEFINE q == condq[cond[th]]
  <2>1. /\ cond[th] \in Conds
        /\ pc[th] \in {"signal", "broadcast"}
        /\ Woken(th, q, "cond_sleep", WakePush(pc[th]))
        /\ condq' = [condq EXCEPT ![cond[th]] = Tail(q)]
        /\ cond' = [cond EXCEPT ![Head(q)] = NULL]
        /\ UNCHANGED <<switchVars, state, sleepq, val, then>>
    BY <1>0, <1>10, WakeDequeueWakes
  <2>2. \A t \in Threads : pc'[t] = "cond_sleep" =>
            t # Head(q) /\ pc[t] = "cond_sleep" /\ cond'[t] = cond[t]
    BY <1>0, <1>0a, <2>1 DEF Woken, WakePush, PlaceTypes, TypeOK
  <2>3. \A c \in Conds : condq'[c] = IF c = cond[th] THEN Tail(q) ELSE condq[c]
    BY <1>0, <2>1 DEF TypeOK
  <2>4. ASSUME NEW t \in Threads, pc'[t] = "cond_sleep",
               \A v \in Workers : leaving'[v] # t
        PROVE  \E i \in 1 .. Len(condq'[cond'[t]]) : condq'[cond'[t]][i] = t
    <3>1. PICK i \in 1 .. Len(condq[cond[t]]) : condq[cond[t]][i] = t
      BY <1>0, <2>1, <2>2, <2>4 DEF Waiting, switchVars
    <3>2. cond[t] \in Conds /\ cond'[t] = cond[t] /\ t # Head(q)
      BY <1>0, <2>2, <2>4 DEF LocalsOK
    <3>3. CASE cond[t] = cond[th]
      <4>1. i \in 1 .. Len(q) /\ q[i] = t /\ i # 1 /\ Len(q) \in Nat
        BY <1>0a, <2>1, <3>1, <3>2, <3>3 DEF Woken, PlaceTypes
      <4>2. i \in 2 .. Len(q)
        BY <4>1
      <4>3. i - 1 \in 1 .. Len(Tail(q)) /\ Tail(q)[i - 1] = t
        BY <2>1, <4>1, <4>2 DEF Woken
      <4>4. condq'[cond'[t]] = Tail(q)
        BY <2>3, <3>2, <3>3
      <4> QED BY <4>3, <4>4
    <3>4. CASE cond[t] # cond[th]
      BY <2>3, <3>1, <3>2, <3>4
    <3> QED BY <3>3, <3>4
  <2> QED
    BY <2>4 DEF Waiting
<1>11. CASE UNCHANGED vars
  BY <1>0, <1>11 DEF vars, switchVars, mutexVars, Waiting
<1> QED
  BY <1>1, <1>2, <1>3, <1>4, <1>5, <1>6, <1>7, <1>8, <1>9, <1>10, <1>11
  DEF Kinds, StepOfWorker, StepOfAgent

\* Every step keeps LocalsOK.
LEMMA LocalsStep ==
    ASSUME IInv, [Next]_vars
    PROVE  LocalsOK'
<1>0. /\ TypeOK /\ Roles /\ Placed /\ Asleep /\ QueuesOK /\ LocalsOK
  BY DEF IInv
<1>0a. PlaceTypes
  BY <1>0, Types
<1>1. ASSUME NEW a \in Agents, UnlockDequeue(a)
      PROVE  LocalsOK'
  <2>1. /\ Woken(a, sleepq, "mutex_sleep", "unlock_clear")
        /\ sleepq' = Tail(sleepq) /\ pc[a] = "unlock_dequeue"
        /\ UNCHANGED <<switchVars, state, condq, val, cond, then>>
    BY <1>0, <1>1, UnlockDequeueWakes
  <2>2. ASSUME NEW th \in Threads
        PROVE  /\ pc'[th] \in SignalPCs \cup {"cond_sleep"} => pc'[th] = pc[th]
               /\ pc[th] \in SignalPCs => pc'[th] = pc[th]
    <3>1. /\ th \in Agents /\ pc[Head(sleepq)] = "mutex_sleep"
          /\ pc'[th] = IF th = Head(sleepq) THEN "lock_read"
                       ELSE IF th = a THEN "unlock_clear" ELSE pc[th]
      BY <1>0a, <2>1 DEF Woken, PlaceTypes
    <3> QED BY <2>1, <3>1 DEF SignalPCs
  <2> QED
    BY <1>0, <2>1, <2>2 DEF LocalsOK
<1>2. ASSUME NEW th \in Threads, WakeDequeue(th)
      PROVE  LocalsOK'
  <2> DEFINE q == condq[cond[th]]
  <2>1. /\ cond[th] \in Conds
        /\ pc[th] \in {"signal", "broadcast"}
        /\ Woken(th, q, "cond_sleep", WakePush(pc[th]))
        /\ condq' = [condq EXCEPT ![cond[th]] = Tail(q)]
        /\ cond' = [cond EXCEPT ![Head(q)] = NULL]
        /\ UNCHANGED <<switchVars, state, sleepq, val, then>>
    BY <1>0, <1>2, WakeDequeueWakes
  <2>2. \A t \in Threads : pc'[t] = IF t = Head(q) THEN "lock_read"
                              ELSE IF t = th THEN WakePush(pc[th]) ELSE pc[t]
    BY <1>0a, <2>1 DEF Woken, PlaceTypes
  <2>3. \A t \in Threads : t # Head(q) => cond'[t] = cond[t]
    BY <1>0, <2>1 DEF TypeOK
  <2>4. pc[Head(q)] = "cond_sleep" /\ then' = then
    BY <2>1 DEF Woken
  <2> HIDE DEF q
  <2> QED
    BY <1>0, <2>1, <2>2, <2>3, <2>4 DEF LocalsOK, SignalPCs, WakePush
<1>35. CASE UNCHANGED vars
  BY <1>0, <1>35 DEF vars, mutexVars, LocalsOK
<1> USE BlockingAssumption, CondsAssumption
    DEF TypeOK, Agents, LocalsOK, SignalPCs, CAS, At, Goto, switchVars
<1>3. ASSUME NEW w \in Workers, Resume(w) /\ UNCHANGED mutexVars
      PROVE  LocalsOK'
  BY <1>0, <1>3 DEF Resume, mutexVars
<1>4. ASSUME NEW w \in Workers, SwapContext(w) /\ UNCHANGED mutexVars
      PROVE  LocalsOK'
  BY <1>0, <1>4 DEF SwapContext, mutexVars
<1>5. ASSUME NEW w \in Workers, EnqueueLocker(w)
      PROVE  LocalsOK'
  BY <1>0, <1>5 DEF EnqueueLocker, Left, At, Goto
<1>6. ASSUME NEW w \in Workers, EnqueueWaiter(w)
      PROVE  LocalsOK'
  BY <1>0, <1>6 DEF EnqueueWaiter, QueueWaiter, Left, At, Goto
<1>7. ASSUME NEW w \in Workers, PutYielder(w)
      PROVE  LocalsOK'
  BY <1>0, <1>7 DEF PutYielder, YieldPut, Left, At, Goto, mutexVars
<1>8. ASSUME NEW w \in Workers, NEW th \in Threads, LockBlock(w, th)
      PROVE  LocalsOK'
  BY <1>0, <1>8 DEF LockBlock, Block, Leave, mutexVars
<1>9. ASSUME NEW w \in Workers, NEW th \in Threads, TimedYield(w, th)
      PROVE  LocalsOK'
  BY <1>0, <1>9 DEF TimedYield, Yield, Leave, mutexVars
<1>10. ASSUME NEW w \in Workers, NEW th \in Threads, IdleYield(w, th)
      PROVE  LocalsOK'
  BY <1>0, <1>10 DEF IdleYield, Yield, Leave, mutexVars
<1>11. ASSUME NEW w \in Workers, NEW th \in Threads, NEW c \in Conds,
   WaitBlock(w, th, c)
      PROVE  LocalsOK'
  BY <1>0, <1>11 DEF WaitBlock, Block, Leave
<1>12. ASSUME NEW th \in Threads, LockBegin(th)
      PROVE  LocalsOK'
  BY <1>0, <1>12 DEF LockBegin, mutexVars
<1>13. ASSUME NEW th \in Threads, TryLockBegin(th)
      PROVE  LocalsOK'
  BY <1>0, <1>13 DEF TryLockBegin, TryBegin
<1>14. ASSUME NEW th \in Threads, TimedLockBegin(th)
      PROVE  LocalsOK'
  BY <1>0, <1>14 DEF TimedLockBegin, TryBegin
<1>15. ASSUME NEW th \in Threads, UnlockBegin(th)
      PROVE  LocalsOK'
  BY <1>0, <1>15 DEF UnlockBegin, mutexVars
<1>16. ASSUME NEW th \in Threads, NEW c \in Conds, SignalBegin(th, c)
      PROVE  LocalsOK'
  BY <1>0, <1>16 DEF SignalBegin, WakeBegin
<1>17. ASSUME NEW th \in Threads, NEW c \in Conds, BroadcastBegin(th, c)
      PROVE  LocalsOK'
  BY <1>0, <1>17 DEF BroadcastBegin, WakeBegin
<1>18. ASSUME NEW th \in Threads, LockRead(th)
      PROVE  LocalsOK'
  BY <1>0, <1>18 DEF LockRead, ReadPCs, AfterRead
<1>19. ASSUME NEW th \in Threads, TryBusy(th)
      PROVE  LocalsOK'
  BY <1>0, <1>19 DEF TryBusy
<1>20. ASSUME NEW th \in Threads, LockTake(th)
      PROVE  LocalsOK'
  BY <1>0, <1>20 DEF LockTake, CASPCs
<1>21. ASSUME NEW th \in Threads, LockSeat(th)
      PROVE  LocalsOK'
  BY <1>0, <1>21 DEF LockSeat
<1>22. ASSUME NEW th \in Threads, LockRetry(th)
      PROVE  LocalsOK'
  BY <1>0, <1>22 DEF LockRetry, CASPCs, BeforeCAS
<1>23. ASSUME NEW th \in Threads, TimedOut(th)
      PROVE  LocalsOK'
  BY <1>0, <1>23 DEF TimedOut, mutexVars
<1>24. ASSUME NEW th \in Threads, TimedRetry(th)
      PROVE  LocalsOK'
  BY <1>0, <1>24 DEF TimedRetry
<1>25. ASSUME NEW th \in Threads, TimedNoYield(th)
      PROVE  LocalsOK'
  BY <1>0, <1>25 DEF TimedNoYield, mutexVars
<1>26. ASSUME NEW th \in Threads, WakeNobody(th)
      PROVE  LocalsOK'
  BY <1>0, <1>26 DEF WakeNobody, WakeReturn
<1>27. ASSUME NEW th \in Threads, SignalPush(th)
      PROVE  LocalsOK'
  BY <1>0, <1>27 DEF SignalPush, WakeReturn
<1>28. ASSUME NEW th \in Threads, BroadcastPush(th)
      PROVE  LocalsOK'
  BY <1>0, <1>28 DEF BroadcastPush
<1>29. ASSUME NEW a \in Agents, UnlockRead(a)
      PROVE  LocalsOK'
  BY <1>0, <1>29 DEF UnlockRead
<1>30. ASSUME NEW a \in Agents, UnlockSeat(a)
      PROVE  LocalsOK'
  BY <1>0, <1>30 DEF UnlockSeat
<1>31. ASSUME NEW a \in Agents, UnlockFree(a)
      PROVE  LocalsOK'
  BY <1>0, <1>31 DEF UnlockFree, Unlocked
<1>32. ASSUME NEW a \in Agents, UnlockRetry(a)
      PROVE  LocalsOK'
  BY <1>0, <1>32 DEF UnlockRetry
<1>33. ASSUME NEW a \in Agents, UnlockClear(a)
      PROVE  LocalsOK'
  BY <1>0, <1>33 DEF UnlockClear
<1>34. ASSUME NEW a \in Agents, UnlockPush(a)
      PROVE  LocalsOK'
  BY <1>0, <1>34 DEF UnlockPush, Unlocked
<1> HIDE DEF TypeOK, Agents, LocalsOK, SignalPCs, CAS, At, Goto, switchVars
<1> QED
  BY <1>1, <1>2, <1>3, <1>4, <1>5, <1>6, <1>7, <1>8, <1>9, <1>10, <1>11, <1>12,
     <1>13, <1>14, <1>15, <1>16, <1>17, <1>18, <1>19, <1>20, <1>21, <1>22,
     <1>23, <1>24, <1>25, <1>26, <1>27, <1>28, <1>29, <1>30, <1>31, <1>32,
     <1>33, <1>34, <1>35
  DEF Next, WorkerStep, ClientStep, ThreadStep, UnlockStep, Switch, vars

-----------------------------------------------------------------------------
(* The mutex itself                                                        *)

TryingPCs == {"lock_read", "lock_cas"}
SeatPCs == {"lock_block", "mutex_sleep"}

\* Every thread and worker is at its place among the seats and unlockers, and
\* holds the mutex just as before.
SameRoles ==
    /\ \A a \in Agents : Holds(a)' <=> Holds(a)
    /\ \A th \in Threads : pc'[th] \in SeatPCs <=> pc[th] \in SeatPCs
    /\ \A a \in Agents : pc'[a] = "unlock_dequeue" <=> pc[a] = "unlock_dequeue"

\* A step that matters to nobody else: those that try to lock go on trying, and
\* what an unlocker has read of state is locked.
Quiet ==
    /\ state' = state
    /\ SameRoles
    /\ \A th \in Threads : pc[th] \in TryingPCs => pc'[th] \in TryingPCs
    /\ \A a \in Agents : pc'[a] = "unlock_cas" =>
           \/ pc[a] = "unlock_cas" /\ val'[a] = val[a]
           \/ pc[a] = "unlock_read" /\ val'[a] = state

\* A quiet step keeps MutexOK.
LEMMA QuietStep ==
    ASSUME MutexOK, Quiet
    PROVE  MutexOK'
<1> USE DEF Quiet, SameRoles
<1>1. MutualExclusion'
  BY DEF MutexOK, MutualExclusion
<1>2. Seated' = Seated /\ Taken' = Taken
  BY DEF Seated, Taken, SeatPCs
<1>3. StateCounts'
  BY <1>2 DEF MutexOK, StateCounts
<1>4. NoSleeperForgotten'
  BY DEF MutexOK, NoSleeperForgotten, TryingPCs
<1>5. ASSUME NEW a \in Agents, pc'[a] = "unlock_cas"
      PROVE  IsLocked(val'[a])
  <2>1. pc[a] = "unlock_read" => IsLocked(state)
    BY DEF MutexOK, StateCounts, Holds
  <2> QED BY <1>5, <2>1 DEF MutexOK
<1> QED
  BY <1>1, <1>3, <1>4, <1>5 DEF MutexOK

\* Where a thread neither holds the mutex nor waits for it.
OutsidePCs == {"idle", "try_read", "timed_check", "timed_yield"}

\* A thread that moves among the places of OutsidePCs is quiet.
LEMMA QuietMove ==
    ASSUME TypeOK, PlaceTypes, NEW th \in Threads, NEW to \in OutsidePCs,
           NEW next, next # "held", pc[th] \in OutsidePCs, then[th] # "held",
           pc' = [pc EXCEPT ![th] = to], then' = [then EXCEPT ![th] = next],
           UNCHANGED <<leaving, state, val>>
    PROVE  Quiet
<1>1. /\ \A a \in Agents : pc'[a] = IF a = th THEN to ELSE pc[a]
      /\ \A t \in Threads : then'[t] = IF t = th THEN next ELSE then[t]
  BY DEF TypeOK, PlaceTypes
<1>2. ASSUME NEW a \in Agents
      PROVE  Holds(a)' <=> Holds(a)
  <2>1. CASE a = th
    BY <1>1, <2>1 DEF Holds, OutsidePCs
  <2>2. CASE a # th
    BY <1>1, <2>2 DEF Holds
  <2> QED BY <2>1, <2>2
<1>3. ASSUME NEW t \in Threads
      PROVE  /\ pc'[t] \in SeatPCs <=> pc[t] \in SeatPCs
             /\ pc[t] \in TryingPCs => pc'[t] \in TryingPCs
  BY <1>1 DEF PlaceTypes, SeatPCs, TryingPCs, OutsidePCs
<1>4. ASSUME NEW a \in Agents
      PROVE  /\ pc'[a] = "unlock_dequeue" <=> pc[a] = "unlock_dequeue"
             /\ pc'[a] = "unlock_cas" => pc[a] = "unlock_cas" /\ val'[a] = val[a]
  BY <1>1 DEF OutsidePCs
<1>5. SameRoles
  BY <1>2, <1>3, <1>4 DEF SameRoles
<1> QED
  BY <1>3, <1>4, <1>5 DEF Quiet

\* There are finitely many seats to count.
LEMMA SeatedFinite == IsFiniteSet(Seated) /\ Cardinality(Seated) \in Nat
<1>1. Seated \subseteq Threads
  BY DEF Seated
<1> QED
  BY <1>1, FS_Subset, FS_CardinalityType, BlockingAssumption

\* Under mutual exclusion, at most one unlocker has taken a seat.
LEMMA TakenCount ==
    ASSUME MutualExclusion
    PROVE  /\ (\A a \in Agents : pc[a] # "unlock_dequeue") => Cardinality(Taken) = 0
           /\ \A a \in Agents : pc[a] = "unlock_dequeue" => Cardinality(Taken) = 1
<1>1. ASSUME \A a \in Agents : pc[a] # "unlock_dequeue"
      PROVE  Cardinality(Taken) = 0
  <2>1. Taken = {}
    BY <1>1 DEF Taken
  <2> QED
    BY <2>1, FS_EmptySet
<1>2. ASSUME NEW a \in Agents, pc[a] = "unlock_dequeue"
      PROVE  Cardinality(Taken) = 1
  <2>1. Taken = {a}
    BY <1>2 DEF Taken, MutualExclusion, Holds
  <2> QED
    BY <2>1, FS_Singleton
<1> QED
  BY <1>1, <1>2

\* All but seven actions are quiet.
LEMMA QuietActions ==
    ASSUME IInv, [Next]_vars
    PROVE  \/ Quiet
           \/ \E th \in Threads : LockTake(th) \/ LockSeat(th)
           \/ \E a \in Agents : \/ UnlockSeat(a) \/ UnlockFree(a)
                               \/ UnlockDequeue(a) \/ UnlockClear(a)
           \/ \E w \in Workers : EnqueueWaiter(w)
<1>0. /\ TypeOK /\ Roles /\ Placed /\ Asleep /\ QueuesOK /\ LocalsOK
  BY DEF IInv
<1>0a. PlaceTypes
  BY <1>0, Types
<1>1. ASSUME NEW th \in Threads, WakeDequeue(th)
      PROVE  Quiet
  <2> DEFINE q == condq[cond[th]]
  <2>1. /\ cond[th] \in Conds
        /\ pc[th] \in {"signal", "broadcast"}
        /\ Woken(th, q, "cond_sleep", WakePush(pc[th]))
        /\ condq' = [condq EXCEPT ![cond[th]] = Tail(q)]
        /\ cond' = [cond EXCEPT ![Head(q)] = NULL]
        /\ UNCHANGED <<switchVars, state, sleepq, val, then>>
    BY <1>0, <1>1, WakeDequeueWakes
  <2>2. \A a \in Agents : pc'[a] = IF a = Head(q) THEN "lock_read"
                              ELSE IF a = th THEN WakePush(pc[th]) ELSE pc[a]
    BY <2>1 DEF Woken
  <2>3. pc[Head(q)] = "cond_sleep" /\ \A w \in Workers : leaving[w] # Head(q)
    BY <2>1 DEF Woken
  <2>4. Head(q) \in Threads /\ then[Head(q)] # "held"
    BY <1>0, <2>1, <2>3 DEF LocalsOK, SignalPCs, Woken
  <2> HIDE DEF q
  <2> QED
    BY <1>0, <1>0a, <2>1, <2>2, <2>3, <2>4
    DEF Quiet, SameRoles, Holds, TryingPCs, SeatPCs, WakePush, PlaceTypes,
       switchVars
<1>2. ASSUME NEW th \in Threads, TryBusy(th)
      PROVE  Quiet
  <2>1. /\ pc[th] = "try_read" /\ pc' = [pc EXCEPT ![th] = then[th]]
        /\ then' = [then EXCEPT ![th] = "idle"]
        /\ UNCHANGED <<leaving, state, val>>
    BY <1>2 DEF TryBusy, Goto, At, switchVars
  <2>2. then[th] # "held"
    BY <1>0, <2>1 DEF LocalsOK, SignalPCs
  <2>3. pc[th] \in OutsidePCs /\ then[th] \in OutsidePCs
    BY <1>0, <2>1, <2>2 DEF TypeOK, OutsidePCs
  <2> QED
    BY <1>0, <1>0a, <2>1, <2>2, <2>3, QuietMove
<1>3. ASSUME NEW th \in Threads, TimedRetry(th)
      PROVE  Quiet
  <2>1. /\ pc[th] = "timed_check" /\ pc' = [pc EXCEPT ![th] = "try_read"]
        /\ then' = [then EXCEPT ![th] = "timed_yield"]
        /\ UNCHANGED <<leaving, state, val>>
    BY <1>3 DEF TimedRetry, Goto, At, switchVars
  <2>2. then[th] # "held"
    BY <1>0, <2>1 DEF LocalsOK, SignalPCs
  <2>3. pc[th] \in OutsidePCs /\ "try_read" \in OutsidePCs
    BY <1>0, <2>1, <2>2 DEF TypeOK, OutsidePCs
  <2> QED
    BY <1>0, <1>0a, <2>1, <2>2, <2>3, QuietMove
<1>4. ASSUME NEW th \in Threads, TryLockBegin(th)
      PROVE  Quiet
  <2>1. /\ pc[th] = "idle" /\ pc' = [pc EXCEPT ![th] = "try_read"]
        /\ then' = [then EXCEPT ![th] = "idle"]
        /\ UNCHANGED <<leaving, state, val>>
    BY <1>4 DEF TryLockBegin, TryBegin, Goto, At, switchVars
  <2>2. then[th] # "held"
    BY <1>0, <2>1 DEF LocalsOK, SignalPCs
  <2>3. pc[th] \in OutsidePCs /\ "try_read" \in OutsidePCs
    BY <1>0, <2>1, <2>2 DEF TypeOK, OutsidePCs
  <2> QED
    BY <1>0, <1>0a, <2>1, <2>2, <2>3, QuietMove
<1>5. ASSUME NEW th \in Threads, TimedLockBegin(th)
      PROVE  Quiet
  <2>1. /\ pc[th] = "idle" /\ pc' = [pc EXCEPT ![th] = "try_read"]
        /\ then' = [then EXCEPT ![th] = "timed_check"]
        /\ UNCHANGED <<leaving, state, val>>
    BY <1>5 DEF TimedLockBegin, TryBegin, Goto, At, switchVars
  <2>2. then[th] # "held"
    BY <1>0, <2>1 DEF LocalsOK, SignalPCs
  <2>3. pc[th] \in OutsidePCs /\ "try_read" \in OutsidePCs
    BY <1>0, <2>1, <2>2 DEF TypeOK, OutsidePCs
  <2> QED
    BY <1>0, <1>0a, <2>1, <2>2, <2>3, QuietMove
<1>6. ASSUME NEW w \in Workers, NEW th \in Threads, IdleYield(w, th)
      PROVE  Quiet
  <2>1. \A a \in Agents : pc'[a] = IF a = w THEN "swap" ELSE pc[a]
    <3>1. pc' = [pc EXCEPT ![w] = "swap"]
      BY <1>6 DEF IdleYield, Yield, Leave
    <3>2. pc \in [Agents -> ThreadPCs \cup UnlockPCs \cup WorkerPCs]
      BY <1>0 DEF TypeOK
    <3> QED BY <3>1, <3>2
  <2>2. /\ pc[w] = "run" /\ pc[th] = "idle" /\ leaving[w] = NULL
        /\ \A v \in Workers : leaving'[v] = IF v = w THEN th ELSE leaving[v]
        /\ UNCHANGED <<then, state, val>>
    <3>1. /\ pc[w] = "run" /\ pc[th] = "idle"
          /\ leaving' = [leaving EXCEPT ![w] = th]
          /\ UNCHANGED <<then, state, val>>
      BY <1>6 DEF IdleYield, Yield, Leave, mutexVars
    <3>2. leaving[w] = NULL
      BY <1>0, <3>1 DEF Roles
    <3>3. leaving \in [Workers -> Threads \cup {NULL}]
      BY <1>0 DEF TypeOK, SwitchTypeOK
    <3> QED BY <3>1, <3>2, <3>3
  <2> QED
    BY <1>0a, <2>1, <2>2, BlockingAssumption
    DEF Quiet, SameRoles, Holds, TryingPCs, SeatPCs, PlaceTypes, Agents
<1>28. ASSUME UNCHANGED vars
      PROVE  Quiet
  BY <1>28 DEF vars, mutexVars, switchVars, Quiet, SameRoles, Holds
<1> USE BlockingAssumption, CondsAssumption
    DEF TypeOK, SwitchTypeOK, Agents, Roles, Asleep, LocalsOK, SignalPCs,
       SleepPCs, CAS, At, Goto, Executes, switchVars, Quiet, SameRoles, Holds,
       TryingPCs, SeatPCs, ThreadPCs, UnlockPCs, WorkerPCs
<1>7. ASSUME NEW w \in Workers, Resume(w) /\ UNCHANGED mutexVars
      PROVE  Quiet
  BY <1>0, <1>7 DEF Resume, mutexVars
<1>8. ASSUME NEW w \in Workers, SwapContext(w) /\ UNCHANGED mutexVars
      PROVE  Quiet
  BY <1>0, <1>8 DEF SwapContext, mutexVars
<1>9. ASSUME NEW w \in Workers, EnqueueLocker(w)
      PROVE  Quiet
  BY <1>0, <1>9 DEF EnqueueLocker, Left, At, Goto
<1>10. ASSUME NEW w \in Workers, PutYielder(w)
      PROVE  Quiet
  BY <1>0, <1>10 DEF PutYielder, YieldPut, Left, At, Goto, mutexVars
<1>11. ASSUME NEW w \in Workers, NEW th \in Threads, LockBlock(w, th)
      PROVE  Quiet
  BY <1>0, <1>11 DEF LockBlock, Block, Leave, mutexVars
<1>12. ASSUME NEW w \in Workers, NEW th \in Threads, TimedYield(w, th)
      PROVE  Quiet
  BY <1>0, <1>12 DEF TimedYield, Yield, Leave, mutexVars
<1>13. ASSUME NEW w \in Workers, NEW th \in Threads, NEW c \in Conds,
   WaitBlock(w, th, c)
      PROVE  Quiet
  BY <1>0, <1>13 DEF WaitBlock, Block, Leave
<1>14. ASSUME NEW th \in Threads, LockBegin(th)
      PROVE  Quiet
  BY <1>0, <1>14 DEF LockBegin, mutexVars
<1>15. ASSUME NEW th \in Threads, UnlockBegin(th)
      PROVE  Quiet
  BY <1>0, <1>15 DEF UnlockBegin, mutexVars
<1>16. ASSUME NEW th \in Threads, NEW c \in Conds, SignalBegin(th, c)
      PROVE  Quiet
  BY <1>0, <1>16 DEF SignalBegin, WakeBegin
<1>17. ASSUME NEW th \in Threads, NEW c \in Conds, BroadcastBegin(th, c)
      PROVE  Quiet
  BY <1>0, <1>17 DEF BroadcastBegin, WakeBegin
<1>18. ASSUME NEW th \in Threads, LockRead(th)
      PROVE  Quiet
  BY <1>0, <1>18 DEF LockRead, ReadPCs, AfterRead
<1>19. ASSUME NEW th \in Threads, LockRetry(th)
      PROVE  Quiet
  BY <1>0, <1>19 DEF LockRetry, CASPCs, BeforeCAS
<1>20. ASSUME NEW th \in Threads, TimedOut(th)
      PROVE  Quiet
  BY <1>0, <1>20 DEF TimedOut, mutexVars
<1>21. ASSUME NEW th \in Threads, TimedNoYield(th)
      PROVE  Quiet
  BY <1>0, <1>21 DEF TimedNoYield, mutexVars
<1>22. ASSUME NEW th \in Threads, WakeNobody(th)
      PROVE  Quiet
  BY <1>0, <1>22 DEF WakeNobody, WakeReturn
<1>23. ASSUME NEW th \in Threads, SignalPush(th)
      PROVE  Quiet
  BY <1>0, <1>23 DEF SignalPush, WakeReturn, Push
<1>24. ASSUME NEW th \in Threads, BroadcastPush(th)
      PROVE  Quiet
  BY <1>0, <1>24 DEF BroadcastPush, Push
<1>25. ASSUME NEW a \in Agents, UnlockRead(a)
      PROVE  Quiet
  BY <1>0, <1>25 DEF UnlockRead
<1>26. ASSUME NEW a \in Agents, UnlockRetry(a)
      PROVE  Quiet
  BY <1>0, <1>26 DEF UnlockRetry
<1>27. ASSUME NEW a \in Agents, UnlockPush(a)
      PROVE  Quiet
  BY <1>0, <1>27 DEF UnlockPush, Unlocked, Push
<1> HIDE DEF TypeOK, SwitchTypeOK, Agents, Roles, Asleep, LocalsOK, SignalPCs,
   SleepPCs, CAS, At, Goto, Executes, switchVars, Quiet, SameRoles, Holds,
   TryingPCs, SeatPCs, ThreadPCs, UnlockPCs, WorkerPCs
<1> QED
  BY <1>1, <1>2, <1>3, <1>4, <1>5, <1>6, <1>7, <1>8, <1>9, <1>10, <1>11, <1>12,
     <1>13, <1>14, <1>15, <1>16, <1>17, <1>18, <1>19, <1>20, <1>21, <1>22,
     <1>23, <1>24, <1>25, <1>26, <1>27, <1>28
  DEF Next, WorkerStep, ClientStep, ThreadStep, UnlockStep, Switch, vars

-----------------------------------------------------------------------------
\* The other seven: what each does to the holder, to state and to the seats.

\* Who takes the free mutex becomes its only holder.
LEMMA LockTakeOK ==
    ASSUME IInv, NEW th \in Threads, LockTake(th)
    PROVE  MutexOK'
<1>0. TypeOK /\ MutexOK /\ PlaceTypes
  BY Types DEF IInv
<1>1. /\ \A b \in Agents : pc'[b] = IF b = th THEN "held" ELSE pc[b]
      /\ \A b \in Agents : b # th => val'[b] = val[b]
      /\ \A t \in Threads : then'[t] = IF t = th THEN "idle" ELSE then[t]
  BY <1>0 DEF LockTake, Goto, CAS, TypeOK, PlaceTypes
<1>2. pc[th] \in CASPCs /\ ~IsLocked(state) /\ state' = state + 1 /\ leaving' = leaving
  BY DEF LockTake, CAS, switchVars
<1>3. \A b \in Agents : ~Holds(b)
  BY <1>0, <1>2 DEF MutexOK, StateCounts
<1>4. \A b \in Agents : Holds(b)' <=> b = th
  BY <1>0, <1>1, <1>2, <1>3 DEF Holds, PlaceTypes
<1>5. MutualExclusion'
  BY <1>4 DEF MutualExclusion
<1>6. Seated' = Seated /\ Taken' = Taken
  BY <1>0, <1>1, <1>2 DEF Seated, Taken, PlaceTypes, CASPCs
<1>7. IsLocked(state)' /\ state' \div 2 = state \div 2
  BY <1>0, <1>2, Parity DEF TypeOK, IsLocked
<1>8. StateCounts'
  BY <1>0, <1>4, <1>6, <1>7 DEF MutexOK, StateCounts, PlaceTypes
<1>9. NoSleeperForgotten'
  BY <1>7 DEF NoSleeperForgotten
<1>10. \A a \in Agents : pc'[a] # "unlock_cas"
  BY <1>1, <1>3 DEF Holds
<1> QED
  BY <1>5, <1>8, <1>9, <1>10 DEF MutexOK

\* A seat is added to state together with the thread that sits on it.
LEMMA LockSeatOK ==
    ASSUME IInv, NEW th \in Threads, LockSeat(th)
    PROVE  MutexOK'
<1>0. TypeOK /\ MutexOK /\ PlaceTypes
  BY Types DEF IInv
<1>1. /\ \A b \in Agents : pc'[b] = IF b = th THEN "lock_block" ELSE pc[b]
      /\ \A b \in Agents : b # th => val'[b] = val[b]
  BY <1>0 DEF LockSeat, Goto, CAS, TypeOK, PlaceTypes
<1>2. /\ pc[th] = "lock_cas" /\ IsLocked(state) /\ state' = state + 2
      /\ UNCHANGED <<leaving, then>>
  BY DEF LockSeat, Goto, At, CAS, switchVars
<1>3. \A b \in Agents : Holds(b)' <=> Holds(b)
  BY <1>0, <1>1, <1>2 DEF Holds, PlaceTypes
<1>4. MutualExclusion'
  BY <1>0, <1>3 DEF MutexOK, MutualExclusion
<1>5. Seated' = Seated \cup {th} /\ th \notin Seated /\ Taken' = Taken
  BY <1>0, <1>1, <1>2 DEF Seated, Taken, PlaceTypes
<1>6. Cardinality(Seated') = Cardinality(Seated) + 1
  BY <1>5, SeatedFinite, FS_AddElement
<1>7. IsLocked(state)' /\ state' \div 2 = state \div 2 + 1
  BY <1>0, <1>2, Parity DEF TypeOK, IsLocked
<1>8. Cardinality(Taken) \in Nat /\ Cardinality(Seated) \in Nat
  BY <1>0, TakenCount, SeatedFinite DEF MutexOK
<1>9. StateCounts'
  <2>1. state \div 2 + Cardinality(Taken) = Cardinality(Seated)
    BY <1>0 DEF MutexOK, StateCounts
  <2>2. state \div 2 \in Nat
    BY <1>0, Parity DEF TypeOK
  <2>3. state' \div 2 + Cardinality(Taken') = Cardinality(Seated')
    BY <1>5, <1>6, <1>7, <1>8, <2>1, <2>2
  <2>4. \E a \in Agents : Holds(a)'
    BY <1>0, <1>2, <1>3 DEF MutexOK, StateCounts
  <2> QED BY <1>7, <2>3, <2>4 DEF StateCounts
<1>10. NoSleeperForgotten'
  BY <1>7 DEF NoSleeperForgotten
<1>11. \A a \in Agents : pc'[a] = "unlock_cas" => IsLocked(val'[a])
  BY <1>0, <1>1 DEF MutexOK
<1> QED
  BY <1>4, <1>9, <1>10, <1>11 DEF MutexOK

\* The holder takes the only seat that is taken.
LEMMA UnlockSeatOK ==
    ASSUME IInv, NEW a \in Agents, UnlockSeat(a)
    PROVE  MutexOK'
<1>0. TypeOK /\ MutexOK /\ PlaceTypes
  BY Types DEF IInv
<1>1. /\ \A b \in Agents : pc'[b] = IF b = a THEN "unlock_dequeue" ELSE pc[b]
      /\ \A b \in Agents : b # a => val'[b] = val[b]
  BY <1>0 DEF UnlockSeat, Goto, CAS, TypeOK
<1>2. /\ pc[a] = "unlock_cas" /\ state > 1 /\ state' = state - 2
      /\ IsLocked(state) /\ UNCHANGED <<leaving, then>>
  BY <1>0 DEF UnlockSeat, Goto, At, CAS, switchVars, MutexOK
<1>3. \A b \in Agents : Holds(b)' <=> Holds(b)
  BY <1>0, <1>1, <1>2 DEF Holds, PlaceTypes
<1>4. MutualExclusion'
  BY <1>0, <1>3 DEF MutexOK, MutualExclusion
<1>5. Seated' = Seated
  BY <1>0, <1>1, <1>2 DEF Seated, PlaceTypes
<1>6. Taken' = {a}
  BY <1>0, <1>1, <1>2 DEF Taken, MutexOK, MutualExclusion, Holds
<1>7. Cardinality(Taken') = 1
  BY <1>6, FS_Singleton
<1>8. Cardinality(Taken) = 0
  BY <1>0, <1>2, TakenCount DEF MutexOK, MutualExclusion, Holds
<1>9. state \in Nat /\ state >= 2
  BY <1>0, <1>2 DEF TypeOK
<1>10. IsLocked(state)' /\ state' \div 2 = state \div 2 - 1 /\ state \div 2 \in Nat
  BY <1>2, <1>9, Parity DEF IsLocked
<1>11. StateCounts'
  <2>1. state \div 2 + Cardinality(Taken) = Cardinality(Seated)
    BY <1>0 DEF MutexOK, StateCounts
  <2>2. state' \div 2 + Cardinality(Taken') = Cardinality(Seated')
    BY <1>5, <1>7, <1>8, <1>10, <2>1, SeatedFinite
  <2>3. \E b \in Agents : Holds(b)'
    BY <1>1 DEF Holds
  <2> QED BY <1>10, <2>2, <2>3 DEF StateCounts
<1>12. NoSleeperForgotten'
  BY <1>10 DEF NoSleeperForgotten
<1>13. \A b \in Agents : pc'[b] = "unlock_cas" => IsLocked(val'[b])
  BY <1>0, <1>1 DEF MutexOK
<1> QED
  BY <1>4, <1>11, <1>12, <1>13 DEF MutexOK

\* Nobody sleeps when the mutex is released without waking anybody.
LEMMA UnlockFreeOK ==
    ASSUME IInv, NEW a \in Agents, UnlockFree(a)
    PROVE  MutexOK'
<1>0. TypeOK /\ MutexOK /\ LocalsOK /\ PlaceTypes
  BY Types DEF IInv
<1>1. \A b \in Agents : pc'[b] = IF b = a THEN Unlocked(a) ELSE pc[b]
  BY <1>0 DEF UnlockFree, Goto, CAS, TypeOK
<1>2. /\ pc[a] = "unlock_cas" /\ state = 1 /\ state' = 0
      /\ UNCHANGED <<leaving, then>>
  BY <1>0 DEF UnlockFree, Goto, At, CAS, switchVars
<1>3. Unlocked(a) \in {"idle", "run"}
  BY DEF Unlocked
<1>4. \A b \in Agents : Holds(b) => b = a
  BY <1>0, <1>2 DEF MutexOK, MutualExclusion, Holds
<1>5. \A b \in Agents : ~Holds(b)'
  <2>1. a \in Threads => then[a] # "held"
    BY <1>0, <1>2 DEF LocalsOK, SignalPCs
  <2> QED BY <1>1, <1>2, <1>3, <1>4, <2>1 DEF Holds
<1>6. MutualExclusion'
  BY <1>5 DEF MutualExclusion
<1>7. Seated' = Seated
  BY <1>0, <1>1, <1>2, <1>3 DEF Seated, PlaceTypes
<1>8. Taken = {} /\ Taken' = {}
  BY <1>1, <1>2, <1>3, <1>4 DEF Taken, Holds
<1>9. StateCounts'
  <2>1. state \div 2 = 0 /\ state' \div 2 = 0 /\ ~IsLocked(state')
    BY <1>2 DEF IsLocked
  <2>2. state \div 2 + Cardinality(Taken) = Cardinality(Seated)
    BY <1>0 DEF MutexOK, StateCounts
  <2>3. state' \div 2 + Cardinality(Taken') = Cardinality(Seated')
    BY <1>7, <1>8, <2>1, <2>2
  <2> QED BY <1>5, <2>1, <2>3 DEF StateCounts
<1>10. NoSleeperForgotten'
  BY <1>2 DEF NoSleeperForgotten
<1>11. \A b \in Agents : pc'[b] # "unlock_cas"
  BY <1>1, <1>3, <1>4 DEF Holds
<1> QED
  BY <1>6, <1>9, <1>10, <1>11 DEF MutexOK

\* The seat that was taken goes with the thread that was on it.
LEMMA UnlockDequeueOK ==
    ASSUME IInv, NEW a \in Agents, UnlockDequeue(a)
    PROVE  MutexOK'
<1> DEFINE h == Head(sleepq)
<1>0. TypeOK /\ MutexOK /\ LocalsOK /\ PlaceTypes
  BY Types DEF IInv
<1>1. /\ Woken(a, sleepq, "mutex_sleep", "unlock_clear")
      /\ pc[a] = "unlock_dequeue" /\ UNCHANGED <<leaving, state, val, then>>
  BY UnlockDequeueWakes DEF IInv, switchVars
<1>2. /\ h \in Threads /\ h # a /\ pc[h] = "mutex_sleep"
      /\ \A b \in Agents : pc'[b] = IF b = h THEN "lock_read"
                                   ELSE IF b = a THEN "unlock_clear" ELSE pc[b]
  BY <1>1 DEF Woken
<1> HIDE DEF h
<1>3. then[h] # "held"
  BY <1>0, <1>2 DEF LocalsOK, SignalPCs
<1>4. \A b \in Agents : Holds(b)' <=> Holds(b)
  BY <1>0, <1>1, <1>2, <1>3 DEF Holds, PlaceTypes
<1>5. MutualExclusion'
  BY <1>0, <1>4 DEF MutexOK, MutualExclusion
<1>6. Seated' = Seated \ {h} /\ h \in Seated
  BY <1>0, <1>1, <1>2 DEF Seated, PlaceTypes
<1>7. Taken' = {}
  BY <1>0, <1>1, <1>2 DEF Taken, MutexOK, MutualExclusion, Holds
<1>8. Cardinality(Taken') = 0 /\ Cardinality(Taken) = 1
  BY <1>0, <1>1, <1>7, TakenCount, FS_EmptySet DEF MutexOK
<1>9. Cardinality(Seated') = Cardinality(Seated) - 1
  BY <1>6, SeatedFinite, FS_RemoveElement
<1>10. IsLocked(state)
  BY <1>0, <1>1 DEF MutexOK, StateCounts, Holds
<1>11. StateCounts'
  <2>1. state \div 2 + Cardinality(Taken) = Cardinality(Seated)
    BY <1>0 DEF MutexOK, StateCounts
  <2>2. state \div 2 \in Nat
    BY <1>0, Parity DEF TypeOK
  <2>3. state' \div 2 + Cardinality(Taken') = Cardinality(Seated')
    BY <1>1, <1>8, <1>9, <2>1, <2>2, SeatedFinite
  <2> QED BY <1>0, <1>1, <1>4, <2>3 DEF MutexOK, StateCounts
<1>12. NoSleeperForgotten'
  BY <1>1, <1>10 DEF NoSleeperForgotten
<1>13. \A b \in Agents : pc'[b] = "unlock_cas" => IsLocked(val'[b])
  BY <1>0, <1>1, <1>2 DEF MutexOK
<1> QED
  BY <1>5, <1>11, <1>12, <1>13 DEF MutexOK

\* The thread just dequeued is going to lock the mutex that is released here.
LEMMA UnlockClearOK ==
    ASSUME IInv, NEW a \in Agents, UnlockClear(a)
    PROVE  MutexOK'
<1>0. TypeOK /\ Roles /\ Asleep /\ MutexOK /\ LocalsOK /\ PlaceTypes
  BY Types DEF IInv
<1>1. \A b \in Agents : pc'[b] = IF b = a THEN "unlock_push" ELSE pc[b]
  BY <1>0 DEF UnlockClear, Goto, TypeOK
<1>2. /\ pc[a] = "unlock_clear" /\ state' = state - 1
      /\ UNCHANGED <<leaving, then, waking, val>>
  BY DEF UnlockClear, Goto, At, switchVars
<1>3. IsLocked(state)
  BY <1>0, <1>2 DEF MutexOK, StateCounts, Holds
<1>4. \A b \in Agents : Holds(b) => b = a
  BY <1>0, <1>2 DEF MutexOK, MutualExclusion, Holds
<1>5. \A b \in Agents : ~Holds(b)'
  <2>1. a \in Threads => then[a] # "held"
    BY <1>0, <1>2 DEF LocalsOK, SignalPCs
  <2> QED BY <1>1, <1>2, <1>4, <2>1 DEF Holds
<1>6. MutualExclusion'
  BY <1>5 DEF MutualExclusion
<1>7. Seated' = Seated /\ Taken' = Taken
  BY <1>0, <1>1, <1>2 DEF Seated, Taken, PlaceTypes
<1>8. ~IsLocked(state)' /\ state' \div 2 = state \div 2
  BY <1>0, <1>2, <1>3, Parity DEF TypeOK, IsLocked
<1>9. StateCounts'
  BY <1>0, <1>5, <1>7, <1>8 DEF MutexOK, StateCounts
<1>10. NoSleeperForgotten'
  <2>1. waking[a] \in Threads /\ pc[waking[a]] = "lock_read"
    BY <1>0, <1>2 DEF Roles, WakePCs, Asleep, PlaceTypes
  <2>2. pc'[waking[a]] = "lock_read"
    BY <1>0, <1>1, <1>2, <2>1 DEF PlaceTypes
  <2> QED BY <2>1, <2>2 DEF NoSleeperForgotten
<1>11. \A b \in Agents : pc'[b] = "unlock_cas" => IsLocked(val'[b])
  BY <1>0, <1>1, <1>2 DEF MutexOK
<1> QED
  BY <1>6, <1>9, <1>10, <1>11 DEF MutexOK

\* The callback of cond_wait takes over the mutex of the thread it enqueued.
LEMMA EnqueueWaiterOK ==
    ASSUME IInv, NEW w \in Workers, EnqueueWaiter(w)
    PROVE  MutexOK'
<1>0. TypeOK /\ Placed /\ MutexOK /\ LocalsOK /\ PlaceTypes
  BY Types DEF IInv
<1>0a. PICK th \in Threads : th = leaving[w]
  BY DEF EnqueueWaiter
<1>1. /\ \A b \in Agents : pc'[b] = IF b = w THEN "unlock_read" ELSE pc[b]
      /\ \A v \in Workers : leaving'[v] = IF v = w THEN NULL ELSE leaving[v]
  BY <1>0 DEF EnqueueWaiter, Left, Goto, TypeOK, SwitchTypeOK
<1>2. /\ pc[th] = "cond_sleep" /\ pc[w] = "callback"
      /\ UNCHANGED <<then, state, val>>
  BY <1>0a DEF EnqueueWaiter, Left, Goto, At
<1>3. /\ \A v \in Workers : v # w => leaving[v] # th
      /\ NULL \notin Threads /\ NULL \notin Workers /\ th # w
  BY <1>0, <1>0a, BlockingAssumption DEF Placed
<1>4. Holds(th)
  BY <1>0a, <1>2 DEF Holds
<1>5. \A b \in Agents : Holds(b) => b = th
  BY <1>0, <1>2, <1>4 DEF MutexOK, MutualExclusion, PlaceTypes
<1>6. then[th] # "held"
  BY <1>0, <1>2 DEF LocalsOK, SignalPCs
<1>7. \A v \in Workers : leaving'[v] # th /\ (v # w => leaving'[v] = leaving[v])
  BY <1>1, <1>3
<1>8. \A b \in Agents : Holds(b)' <=> b = w
  <2>1. Holds(w)'
    BY <1>0, <1>1 DEF Holds, PlaceTypes
  <2>2. ASSUME NEW b \in Agents, b # w, b # th
        PROVE  ~Holds(b)'
    <3>1. ~Holds(b) /\ pc'[b] = pc[b]
      BY <1>1, <1>5, <2>2
    <3>2. ASSUME NEW v \in Workers, leaving'[v] = b, b \in Threads
          PROVE  leaving[v] = b
      BY <1>1, <1>3, <3>2
    <3>3. pc[b] = "cond_sleep" => b \in Threads
      BY <1>0, <2>2 DEF TypeOK, Agents, WorkerPCs, UnlockPCs
    <3> QED BY <1>2, <3>1, <3>2, <3>3 DEF Holds
  <2>3. ~Holds(th)'
    BY <1>0, <1>1, <1>2, <1>3, <1>6, <1>7 DEF Holds, PlaceTypes
  <2> QED BY <2>1, <2>2, <2>3
<1>9. MutualExclusion'
  BY <1>8 DEF MutualExclusion
<1>10. Seated' = Seated /\ Taken' = Taken
  BY <1>0, <1>1, <1>2, BlockingAssumption DEF Seated, Taken, PlaceTypes
<1>11. IsLocked(state)
  BY <1>0, <1>2, <1>4 DEF MutexOK, StateCounts, PlaceTypes
<1>12. StateCounts'
  BY <1>0, <1>2, <1>8, <1>10, <1>11 DEF MutexOK, StateCounts, PlaceTypes
<1>13. NoSleeperForgotten'
  BY <1>2, <1>11 DEF NoSleeperForgotten
<1>14. \A b \in Agents : pc'[b] = "unlock_cas" => IsLocked(val'[b])
  BY <1>0, <1>1, <1>2 DEF MutexOK
<1> QED
  BY <1>9, <1>12, <1>13, <1>14 DEF MutexOK

\* Every step keeps MutexOK.
LEMMA MutexStep ==
    ASSUME IInv, [Next]_vars
    PROVE  MutexOK'
<1>1. MutexOK
  BY DEF IInv
<1> QED
  BY <1>1, QuietActions, QuietStep, LockTakeOK, LockSeatOK, UnlockSeatOK,
     UnlockFreeOK, UnlockDequeueOK, UnlockClearOK, EnqueueWaiterOK

-----------------------------------------------------------------------------
(* The inductive invariant                                                 *)

\* The inductive invariant holds initially,
LEMMA InitIInv == Init => IInv
<1> SUFFICES ASSUME Init PROVE IInv
  OBVIOUS
<1> USE BlockingAssumption, CondsAssumption DEF Init, SwitchInit, Agents
<1>1. TypeOK
  BY DEF TypeOK, SwitchTypeOK, ThreadPCs, UnlockPCs, WorkerPCs
<1>2. /\ \A th \in Threads : pc[th] = "idle" /\ then[th] = "idle"
      /\ \A w \in Workers : pc[w] = "run" /\ this[w] = NULL /\ leaving[w] = NULL
      /\ \A a \in Agents : waking[a] = NULL
      /\ \A c \in Conds : Len(condq[c]) = 0
      /\ Len(sleepq) = 0 /\ state = 0 /\ ready = Threads /\ saved = Threads
  OBVIOUS
<1> USE DEF SleepPCs, WakePCs, SignalPCs
<1>3. Roles /\ Placed /\ Asleep /\ LocalsOK /\ Waiting
  BY <1>2 DEF Roles, Placed, Asleep, LocalsOK, Waiting
<1>4. QueuesOK /\ SavedOK
  BY <1>2 DEF QueuesOK, Sleeping, SavedOK
<1>5. \A a \in Agents : ~Holds(a)
  BY <1>2 DEF Holds
<1>6. Seated = {} /\ Taken = {}
  BY <1>2 DEF Seated, Taken
<1>7. StateCounts
  BY <1>2, <1>5, <1>6, FS_EmptySet DEF StateCounts, IsLocked
<1>8. MutexOK
  BY <1>2, <1>5, <1>7 DEF MutexOK, MutualExclusion, NoSleeperForgotten
<1> QED
  BY <1>1, <1>3, <1>4, <1>8 DEF IInv

\* is kept by every step,
LEMMA Inductive == IInv /\ [Next]_vars => IInv'
<1> SUFFICES ASSUME IInv, [Next]_vars PROVE IInv'
  OBVIOUS
<1>1. Kinds
  BY StepKinds DEF IInv
<1> QED
  BY <1>1, TypeStep, RolesStep, PlacedStep, AsleepStep, QueuesStep, WaitingStep,
     LocalsStep, SavedStep, MutexStep DEF IInv

\* and so always holds.
LEMMA Invariance == Spec => []IInv
BY InitIInv, Inductive, PTL DEF Spec

-----------------------------------------------------------------------------
(* What follows                                                            *)

(***************************************************************************)
(* Every variable keeps its type; in particular state, which unlock and    *)
(* myth_mutex_clear_lock_bit decrease, is never negative.                  *)
(***************************************************************************)
THEOREM TypeCorrect == Spec => []TypeOK
<1>1. IInv => TypeOK
  BY DEF IInv
<1> QED BY <1>1, Invariance, PTL

(***************************************************************************)
(* However many threads, workers and condition variables there are, at     *)
(* most one thread, or callback on behalf of one, has the mutex.           *)
(***************************************************************************)
THEOREM Exclusion == Spec => []MutualExclusion
<1>1. IInv => MutualExclusion
  BY DEF IInv, MutexOK
<1> QED BY <1>1, Invariance, PTL

(***************************************************************************)
(* The bit of state tells whether the mutex is held, and the rest counts   *)
(* exactly the threads that sleep, or are about to, and that no unlocker   *)
(* has yet undertaken to wake.                                             *)
(***************************************************************************)
THEOREM Counting == Spec => []StateCounts
<1>1. IInv => StateCounts
  BY DEF IInv, MutexOK
<1> QED BY <1>1, Invariance, PTL

(***************************************************************************)
(* While the mutex is free and somebody sleeps in it, somebody else is     *)
(* going to lock it, whose unlock will wake the sleeper.                   *)
(***************************************************************************)
THEOREM NoLostWakeup == Spec => []NoSleeperForgotten
<1>1. IInv => NoSleeperForgotten
  BY DEF IInv, MutexOK
<1> QED BY <1>1, Invariance, PTL

\* The waiter's callback holds the mutex until the waiter is in the queue.
LEMMA Queued == ASSUME IInv PROVE WaitersAreQueued
<1> SUFFICES ASSUME NEW th \in Threads, NEW other \in Threads,
                    then[th] = "held", pc[other] = "cond_sleep"
             PROVE  other \in Elements(condq[cond[other]])
  BY DEF WaitersAreQueued
<1>1. TypeOK /\ Waiting /\ LocalsOK /\ MutualExclusion
  BY DEF IInv, MutexOK
<1>2. th # other
  BY <1>1 DEF LocalsOK, SignalPCs
<1>3. \A w \in Workers : leaving[w] # other
  BY <1>1, <1>2 DEF MutualExclusion, Holds, Agents
<1>4. PICK i \in 1 .. Len(condq[cond[other]]) : condq[cond[other]][i] = other
  BY <1>1, <1>3 DEF Waiting
<1>5. condq[cond[other]] \in Seq(Threads)
  BY <1>1 DEF LocalsOK, TypeOK
<1> QED BY <1>4, <1>5 DEF Elements

(***************************************************************************)
(* A signal sent with the mutex held finds every waiter in the queue,      *)
(* because cond_wait unlocks only after its thread has been enqueued.      *)
(***************************************************************************)
THEOREM NoLostSignal == Spec => []WaitersAreQueued
<1> QED BY Queued, Invariance, PTL

(***************************************************************************)
(* No worker can resume a thread before myth_swap_context_withcall has     *)
(* saved it: callbacks, which alone make a thread visible, come after.     *)
(***************************************************************************)
THEOREM SavedBeforeVisible == Spec => []ContextSaved
<1>1. IInv => ContextSaved
  <2> SUFFICES ASSUME IInv PROVE ContextSaved
    OBVIOUS
  <2>1. SavedOK /\ sleepq \in Seq(Threads) /\ \A c \in Conds : condq[c] \in Seq(Threads)
    BY DEF IInv, TypeOK
  <2>2. Elements(sleepq) \subseteq saved
    BY <2>1 DEF SavedOK, Elements
  <2>3. \A c \in Conds : Elements(condq[c]) \subseteq saved
    BY <2>1 DEF SavedOK, Elements
  <2> QED BY <2>1, <2>2, <2>3 DEF SavedOK, ContextSaved
<1> QED BY <1>1, Invariance, PTL

(***************************************************************************)
(* unlock never aborts and the assertions about the lock bit never fail,   *)
(* as long as a thread unlocks only what it holds.                         *)
(***************************************************************************)
THEOREM NoAbort == Spec => []AssertionsHold
<1>1. IInv => AssertionsHold
  BY DEF IInv, MutexOK, StateCounts, Holds, AssertionsHold
<1> QED BY <1>1, Invariance, PTL

-----------------------------------------------------------------------------
(* No thread is lost                                                       *)

\* Where thread th may be, one definition for each kind of place.
Running(th) == \E w \in Workers : this[w] = th
Leaving(th) == \E w \in Workers : leaving[w] = th
BeingWoken(th) == \E a \in Agents : waking[a] = th
InSleepq(th) == \E i \in 1 .. Len(sleepq) : sleepq[i] = th
InCondq(th) == \E c \in Conds : \E i \in 1 .. Len(condq[c]) : condq[c][i] = th

Somewhere ==
    \A th \in Threads : \/ th \in ready \/ Running(th) \/ Leaving(th)
                        \/ BeingWoken(th) \/ InSleepq(th) \/ InCondq(th)

\* A thread that was in none of the places a step empties is still somewhere.
LEMMA SomewhereStep ==
    ASSUME IInv, Kinds, Somewhere
    PROVE  Somewhere'
<1>0. TypeOK /\ Roles /\ Placed /\ Asleep /\ QueuesOK /\ LocalsOK /\ PlaceTypes
  BY Types DEF IInv
<1>0a. /\ UNCHANGED sleepq => \A th \in Threads : InSleepq(th) => InSleepq(th)'
       /\ UNCHANGED condq => \A th \in Threads : InCondq(th) => InCondq(th)'
  BY DEF InSleepq, InCondq
<1> USE BlockingAssumption, <1>0a DEF Running, Leaving, BeingWoken
<1>1. ASSUME NEW w \in Workers, Resume(w) /\ UNCHANGED mutexVars
      PROVE  Somewhere'
  <2>1. PICK th \in ready : this' = [this EXCEPT ![w] = th] /\ ready' = ready \ {th}
    BY <1>1 DEF Resume, Dispatch
  <2>2. this[w] = NULL /\ UNCHANGED <<leaving, waking, sleepq, condq>>
    BY <1>1 DEF Resume, mutexVars
  <2>3. \A v \in Workers : this'[v] = IF v = w THEN th ELSE this[v]
    BY <1>0, <2>1 DEF TypeOK, SwitchTypeOK
  <2> QED BY <2>1, <2>2, <2>3 DEF Somewhere
<1>2. ASSUME NEW w \in Workers, SwapContext(w) /\ UNCHANGED mutexVars
      PROVE  Somewhere'
  BY <1>2 DEF SwapContext, mutexVars, Somewhere
<1>3. ASSUME NEW w \in Workers, EnqueueLocker(w)
      PROVE  Somewhere'
  <2>1. /\ UNCHANGED <<ready, this, waking, condq>>
        /\ \A v \in Workers : leaving'[v] = IF v = w THEN NULL ELSE leaving[v]
    BY <1>0, <1>3 DEF EnqueueLocker, Left, TypeOK, SwitchTypeOK
  <2>2. sleepq' = Append(sleepq, leaving[w]) /\ sleepq \in Seq(Threads)
    BY <1>0, <1>3 DEF EnqueueLocker, TypeOK
  <2>3. /\ Len(sleepq') = Len(sleepq) + 1 /\ Len(sleepq) \in Nat
        /\ sleepq'[Len(sleepq) + 1] = leaving[w]
        /\ \A i \in 1 .. Len(sleepq) : sleepq'[i] = sleepq[i]
    BY <2>2, <1>3 DEF EnqueueLocker
  <2>4. /\ \A i \in 1 .. Len(sleepq) : i \in 1 .. Len(sleepq')
        /\ Len(sleepq) + 1 \in 1 .. Len(sleepq')
    BY <2>3
  <2>5. \A t \in Threads : InSleepq(t) \/ t = leaving[w] => InSleepq(t)'
    BY <2>3, <2>4 DEF InSleepq
  <2> QED BY <2>1, <2>5 DEF Somewhere
<1>4. ASSUME NEW w \in Workers, EnqueueWaiter(w)
      PROVE  Somewhere'
  <2>0. PICK th \in Threads : th = leaving[w]
    BY <1>4 DEF EnqueueWaiter
  <2> DEFINE q == condq[cond[th]]
  <2>1. /\ UNCHANGED <<ready, this, waking, sleepq>>
        /\ \A v \in Workers : leaving'[v] = IF v = w THEN NULL ELSE leaving[v]
    BY <1>0, <1>4 DEF EnqueueWaiter, Left, TypeOK, SwitchTypeOK
  <2>2. th \in Threads /\ cond[th] \in Conds /\ q \in Seq(Threads)
    BY <1>0, <1>4, <2>0 DEF EnqueueWaiter, LocalsOK, TypeOK
  <2>3. \A c \in Conds : condq'[c] = IF c = cond[th] THEN Append(q, th) ELSE condq[c]
    BY <1>0, <1>4, <2>0 DEF EnqueueWaiter, QueueWaiter, TypeOK
  <2>4. /\ Len(Append(q, th)) = Len(q) + 1 /\ Len(q) \in Nat
        /\ Append(q, th)[Len(q) + 1] = th
        /\ \A i \in 1 .. Len(q) : Append(q, th)[i] = q[i]
    BY <2>2
  <2>5. /\ \A i \in 1 .. Len(q) : i \in 1 .. Len(Append(q, th))
        /\ Len(q) + 1 \in 1 .. Len(Append(q, th))
    BY <2>4
  <2>6. ASSUME NEW t \in Threads, NEW c \in Conds, NEW i \in 1 .. Len(condq[c]),
               condq[c][i] = t
        PROVE  i \in 1 .. Len(condq'[c]) /\ condq'[c][i] = t
    <3>1. CASE c = cond[th]
      BY <2>3, <2>4, <2>5, <2>6, <3>1
    <3>2. CASE c # cond[th]
      BY <2>3, <2>6, <3>2
    <3> QED BY <3>1, <3>2
  <2>7. \A t \in Threads : InCondq(t) => InCondq(t)'
    BY <2>6 DEF InCondq
  <2>8. /\ condq'[cond[th]][Len(q) + 1] = th
        /\ Len(q) + 1 \in 1 .. Len(condq'[cond[th]])
    BY <2>2, <2>3, <2>4, <2>5
  <2>9. InCondq(th)'
    BY <2>2, <2>8 DEF InCondq
  <2> HIDE DEF q
  <2> QED BY <2>0, <2>1, <2>7, <2>9 DEF Somewhere
<1>5. ASSUME NEW w \in Workers, PutYielder(w)
      PROVE  Somewhere'
  BY <1>0, <1>5 DEF PutYielder, YieldPut, Left, mutexVars, TypeOK, SwitchTypeOK,
     Somewhere
<1>6. ASSUME NEW w \in Workers, NEW th \in Threads, Leaves(w, th)
      PROVE  Somewhere'
  <2>1. PICK next \in ready \cup {NULL} :
            /\ this' = [this EXCEPT ![w] = next] /\ ready' = ready \ {next}
            /\ leaving' = [leaving EXCEPT ![w] = th]
    BY <1>6 DEF Leaves, Dispatch
  <2>2. leaving[w] = NULL /\ this[w] = th /\ UNCHANGED <<sleepq, condq, waking>>
    BY <1>0, <1>6 DEF Leaves, Roles
  <2>3. /\ \A v \in Workers : this'[v] = IF v = w THEN next ELSE this[v]
        /\ \A v \in Workers : leaving'[v] = IF v = w THEN th ELSE leaving[v]
    BY <1>0, <2>1 DEF TypeOK, SwitchTypeOK
  <2> QED BY <2>1, <2>2, <2>3 DEF Somewhere
<1>7. ASSUME NEW a \in Agents, Local(a)
      PROVE  Somewhere'
  BY <1>7 DEF Local, switchVars, Somewhere
<1>8. ASSUME NEW a \in Agents, Pushes(a)
      PROVE  Somewhere'
  <2>1. /\ ready' = ready \cup {waking[a]} /\ waking' = [waking EXCEPT ![a] = NULL]
        /\ UNCHANGED <<this, leaving, sleepq, condq>>
    BY <1>8 DEF Pushes, Push
  <2>2. \A b \in Agents : waking'[b] = IF b = a THEN NULL ELSE waking[b]
    BY <1>0, <2>1 DEF TypeOK
  <2> QED BY <2>1, <2>2 DEF Somewhere
<1>9. ASSUME NEW a \in Agents, UnlockDequeue(a)
      PROVE  Somewhere'
  <2>1. /\ Woken(a, sleepq, "mutex_sleep", "unlock_clear")
        /\ sleepq' = Tail(sleepq) /\ pc[a] = "unlock_dequeue"
        /\ UNCHANGED <<switchVars, condq>>
    BY <1>0, <1>9, UnlockDequeueWakes
  <2>2. waking[a] = NULL
    BY <1>0, <2>1 DEF Roles, WakePCs
  <2>3. \A i \in 1 .. Len(sleepq) : i # 1 => i \in 2 .. Len(sleepq)
    OBVIOUS
  <2>4. ASSUME NEW t \in Threads, NEW i \in 1 .. Len(sleepq), sleepq[i] = t,
               t # Head(sleepq)
        PROVE  \E j \in 1 .. Len(sleepq') : sleepq'[j] = t
    <3>1. i \in 2 .. Len(sleepq)
      BY <2>1, <2>3, <2>4 DEF Woken
    <3>2. i - 1 \in 1 .. Len(Tail(sleepq)) /\ Tail(sleepq)[i - 1] = t
      BY <2>1, <2>4, <3>1 DEF Woken
    <3> QED BY <2>1, <3>2
  <2>5. \A t \in Threads : InSleepq(t) => t = Head(sleepq) \/ InSleepq(t)'
    BY <2>4 DEF InSleepq
  <2> QED BY <2>1, <2>2, <2>5 DEF Woken, switchVars, Somewhere
<1>10. ASSUME NEW th \in Threads, WakeDequeue(th)
       PROVE  Somewhere'
  <2> DEFINE q == condq[cond[th]]
  <2>1. /\ cond[th] \in Conds /\ pc[th] \in {"signal", "broadcast"}
        /\ Woken(th, q, "cond_sleep", WakePush(pc[th]))
        /\ condq' = [condq EXCEPT ![cond[th]] = Tail(q)]
        /\ UNCHANGED <<switchVars, sleepq>>
    BY <1>0, <1>10, WakeDequeueWakes
  <2>2. waking[th] = NULL /\ th \in Agents
    BY <1>0, <2>1 DEF Roles, WakePCs, PlaceTypes
  <2>3. \A c \in Conds : condq'[c] = IF c = cond[th] THEN Tail(q) ELSE condq[c]
    BY <1>0, <2>1 DEF TypeOK
  <2>4. \A i \in 1 .. Len(q) : i # 1 => i \in 2 .. Len(q)
    OBVIOUS
  <2> HIDE DEF q
  <2>5. ASSUME NEW t \in Threads, NEW c \in Conds, NEW i \in 1 .. Len(condq[c]),
               condq[c][i] = t, t # Head(q)
        PROVE  \E j \in 1 .. Len(condq'[c]) : condq'[c][j] = t
    <3>1. CASE c = cond[th]
      <4>1. i \in 2 .. Len(q) /\ q[i] = t
        BY <2>1, <2>4, <2>5, <3>1 DEF Woken, q
      <4>2. i - 1 \in 1 .. Len(Tail(q)) /\ Tail(q)[i - 1] = t
        BY <2>1, <4>1 DEF Woken
      <4> QED BY <2>3, <3>1, <4>2
    <3>2. CASE c # cond[th]
      BY <2>3, <2>5, <3>2
    <3> QED BY <3>1, <3>2
  <2>6. \A t \in Threads : InCondq(t) => t = Head(q) \/ InCondq(t)'
    BY <2>5 DEF InCondq
  <2> QED BY <2>1, <2>2, <2>6 DEF Woken, switchVars, Somewhere
<1>11. CASE UNCHANGED vars
  BY <1>11 DEF vars, switchVars, mutexVars, Somewhere
<1> HIDE <1>0a
<1> QED
  BY <1>1, <1>2, <1>3, <1>4, <1>5, <1>6, <1>7, <1>8, <1>9, <1>10, <1>11
  DEF Kinds, StepOfWorker, StepOfAgent

\* What is in PlacesOf.
LEMMA PlaceMembers ==
    ASSUME TypeOK, NEW th \in Threads, NEW p
    PROVE  p \in PlacesOf(th) <=>
             \/ \E w \in Workers : this[w] = th /\ p = <<"this", w>>
             \/ \E w \in Workers : leaving[w] = th /\ p = <<"leaving", w>>
             \/ \E a \in Agents : waking[a] = th /\ p = <<"waking", a>>
             \/ \E i \in 1 .. Len(sleepq) : sleepq[i] = th /\ p = <<"sleepq", i>>
             \/ \E c \in Conds : \E i \in 1 .. Len(condq[c]) :
                    condq[c][i] = th /\ p = <<c, i>>
             \/ th \in ready /\ p = <<"ready", 0>>
<1>1. DOMAIN sleepq = 1 .. Len(sleepq)
  BY DEF TypeOK
<1>2. \A c \in Conds : DOMAIN condq[c] = 1 .. Len(condq[c])
  BY DEF TypeOK
<1> DEFINE T == {<<"this", w>> : w \in {v \in Workers : this[v] = th}}
           L == {<<"leaving", w>> : w \in {v \in Workers : leaving[v] = th}}
           K == {<<"waking", a>> : a \in {b \in Agents : waking[b] = th}}
           S == {<<"sleepq", i>> : i \in {j \in DOMAIN sleepq : sleepq[j] = th}}
           Q(c) == {<<c, i>> : i \in {j \in DOMAIN condq[c] : condq[c][j] = th}}
           R == {<<"ready", 0>> : r \in ready \cap {th}}
           U == UNION {Q(c) : c \in Conds}
<1>3. PlacesOf(th) = T \cup L \cup K \cup S \cup U \cup R
  BY Zenon DEF PlacesOf
<1>4. /\ p \in T <=> \E w \in Workers : this[w] = th /\ p = <<"this", w>>
      /\ p \in L <=> \E w \in Workers : leaving[w] = th /\ p = <<"leaving", w>>
      /\ p \in K <=> \E a \in Agents : waking[a] = th /\ p = <<"waking", a>>
  OBVIOUS
<1>5. /\ p \in S <=> \E i \in 1 .. Len(sleepq) : sleepq[i] = th /\ p = <<"sleepq", i>>
      /\ p \in R <=> th \in ready /\ p = <<"ready", 0>>
  BY <1>1
<1>6. \A c \in Conds :
          p \in Q(c) <=> \E i \in 1 .. Len(condq[c]) : condq[c][i] = th /\ p = <<c, i>>
  BY <1>2
<1>7. p \in U <=> \E c \in Conds : p \in Q(c)
  OBVIOUS
<1>8. p \in U <=> \E c \in Conds : \E i \in 1 .. Len(condq[c]) :
                      condq[c][i] = th /\ p = <<c, i>>
  <2> HIDE DEF Q, U
  <2> QED BY <1>6, <1>7, Zenon
<1> HIDE DEF T, L, K, S, Q, R, U
<1>9. p \in PlacesOf(th) <=>
          p \in T \/ p \in L \/ p \in K \/ p \in S \/ p \in U \/ p \in R
  BY <1>3
<1> QED BY <1>4, <1>5, <1>8, <1>9

\* A thread in one kind of place is in no other, and in one place of its kind.
LEMMA PlacesDiffer ==
    ASSUME IInv, NEW th \in Threads
    PROVE  /\ th \in ready => ~Running(th) /\ ~Leaving(th) /\ ~BeingWoken(th)
           /\ Running(th) => ~Leaving(th) /\ ~BeingWoken(th)
           /\ Leaving(th) => ~BeingWoken(th)
           /\ InSleepq(th) \/ InCondq(th) =>
                 th \notin ready /\ ~Running(th) /\ ~Leaving(th) /\ ~BeingWoken(th)
           /\ InSleepq(th) => ~InCondq(th)
           /\ \A v, w \in Workers : this[v] = th /\ this[w] = th => v = w
           /\ \A v, w \in Workers : leaving[v] = th /\ leaving[w] = th => v = w
           /\ \A a, b \in Agents : waking[a] = th /\ waking[b] = th => a = b
           /\ \A i, j \in 1 .. Len(sleepq) : sleepq[i] = th /\ sleepq[j] = th => i = j
           /\ \A c, d \in Conds : \A i \in 1 .. Len(condq[c]), j \in 1 .. Len(condq[d]) :
                 condq[c][i] = th /\ condq[d][j] = th => c = d /\ i = j
<1>0. Placed /\ Asleep /\ QueuesOK /\ th # NULL
  BY BlockingAssumption DEF IInv
<1> USE DEF Running, Leaving, BeingWoken, InSleepq, InCondq
<1>1. InSleepq(th) => pc[th] = "mutex_sleep" /\ ~Leaving(th)
  BY <1>0 DEF QueuesOK, Sleeping
<1>2. InCondq(th) => pc[th] = "cond_sleep" /\ ~Leaving(th)
  BY <1>0 DEF QueuesOK, Sleeping
<1>3. pc[th] \in SleepPCs => th \notin ready /\ ~Running(th) /\ ~BeingWoken(th)
  BY <1>0 DEF Asleep, SleepPCs
<1>4. /\ th \in ready => ~Running(th) /\ ~Leaving(th) /\ ~BeingWoken(th)
      /\ Running(th) => ~Leaving(th) /\ ~BeingWoken(th)
      /\ Leaving(th) => ~BeingWoken(th)
  BY <1>0 DEF Placed
<1>5. /\ \A v, w \in Workers : this[v] = th /\ this[w] = th => v = w
      /\ \A v, w \in Workers : leaving[v] = th /\ leaving[w] = th => v = w
      /\ \A a, b \in Agents : waking[a] = th /\ waking[b] = th => a = b
  BY <1>0 DEF Placed
<1>6. \A i, j \in 1 .. Len(sleepq) : sleepq[i] = th /\ sleepq[j] = th => i = j
  BY <1>0 DEF QueuesOK, Sleeping
<1>7. \A c, d \in Conds : \A i \in 1 .. Len(condq[c]), j \in 1 .. Len(condq[d]) :
          condq[c][i] = th /\ condq[d][j] = th => c = d /\ i = j
  <2>1. \A c \in Conds : \A i \in 1 .. Len(condq[c]) : condq[c][i] = th => cond[th] = c
    BY <1>0 DEF QueuesOK
  <2>2. \A c \in Conds : \A i, j \in 1 .. Len(condq[c]) :
            condq[c][i] = th /\ condq[c][j] = th => i = j
    BY <1>0 DEF QueuesOK, Sleeping
  <2> QED BY <2>1, <2>2
<1> QED
  BY <1>1, <1>2, <1>3, <1>4, <1>5, <1>6, <1>7 DEF SleepPCs

(***************************************************************************)
(* No thread is lost on its way through block, callback, queue, wakeup and *)
(* run queue, and none is in two of these places: whoever takes a thread   *)
(* from one place puts it in just one other.                               *)
(***************************************************************************)
THEOREM NoThreadLost == Spec => []InOnePlace
<1>1. Init => Somewhere
  BY DEF Init, SwitchInit, Somewhere
<1>2. IInv /\ Somewhere /\ [Next]_vars => Somewhere'
  BY StepKinds, SomewhereStep DEF IInv
<1>3. IInv /\ Somewhere => InOnePlace
  <2> SUFFICES ASSUME IInv, Somewhere, NEW th \in Threads
               PROVE  Cardinality(PlacesOf(th)) = 1
    BY DEF InOnePlace
  <2>1. TypeOK
    BY DEF IInv
  <2>2. \E p : p \in PlacesOf(th)
    <3>1. CASE th \in ready
      BY <2>1, <3>1, PlaceMembers
    <3>2. CASE Running(th) \/ Leaving(th)
      BY <2>1, <3>2, PlaceMembers DEF Running, Leaving
    <3>3. CASE BeingWoken(th)
      BY <2>1, <3>3, PlaceMembers DEF BeingWoken
    <3>4. CASE InSleepq(th)
      BY <2>1, <3>4, PlaceMembers DEF InSleepq
    <3>5. CASE InCondq(th)
      <4>1. PICK c \in Conds : \E i \in 1 .. Len(condq[c]) : condq[c][i] = th
        BY <3>5 DEF InCondq
      <4>2. PICK i \in 1 .. Len(condq[c]) : condq[c][i] = th
        BY <4>1
      <4>3. <<c, i>> \in PlacesOf(th)
        BY <2>1, <4>2, PlaceMembers
      <4> QED BY <4>3
    <3> QED BY <3>1, <3>2, <3>3, <3>4, <3>5 DEF Somewhere
  <2>3. ASSUME NEW p \in PlacesOf(th), NEW q \in PlacesOf(th)
        PROVE  p = q
    BY <2>1, <2>3, PlaceMembers, PlacesDiffer
    DEF Running, Leaving, BeingWoken, InSleepq, InCondq
  <2>4. PICK p : PlacesOf(th) = {p}
    BY <2>2, <2>3
  <2> QED BY <2>4, FS_Singleton
<1> QED BY <1>1, <1>2, <1>3, Invariance, PTL DEF Spec

-----------------------------------------------------------------------------
(* The refinement of Monitor                                               *)

\* The thread that holds the mutex is the owner; there is none when nobody
\* holds it or a worker does, for a thread that has started to wait.
OwnerOK ==
    /\ \A th \in Threads : Holds(th) => Owner = th
    /\ (\A th \in Threads : ~Holds(th)) => Owner = NULL

\* Under mutual exclusion Owner is what it says, before a step,
LEMMA OwnerNow == MutualExclusion => OwnerOK
BY DEF MutualExclusion, OwnerOK, Owner, Agents

\* and after it.
LEMMA OwnerNext == MutualExclusion' => OwnerOK'
BY DEF MutualExclusion, OwnerOK, Owner, Agents

\* The owner stays the same when the same threads hold the mutex.
LEMMA SameOwner ==
    ASSUME OwnerOK, OwnerOK', \A th \in Threads : Holds(th)' <=> Holds(th)
    PROVE  Owner' = Owner
<1>1. CASE \E th \in Threads : Holds(th)
  BY <1>1 DEF OwnerOK
<1>2. CASE \A th \in Threads : ~Holds(th)
  BY <1>2 DEF OwnerOK
<1> QED BY <1>1, <1>2

\* The steps that change the queue of a condition variable.
LEMMA QueueChanges ==
    ASSUME Kinds
    PROVE  \/ condq' = condq
           \/ \E w \in Workers : EnqueueWaiter(w)
           \/ \E th \in Threads : WakeDequeue(th)
<1>1. ASSUME NEW w \in Workers, StepOfWorker(w), ~EnqueueWaiter(w)
      PROVE  condq' = condq
  BY <1>1 DEF StepOfWorker, EnqueueLocker, PutYielder, Leaves, mutexVars
<1>2. ASSUME NEW a \in Agents, StepOfAgent(a)
      PROVE  condq' = condq
  BY <1>2 DEF StepOfAgent, Local, Pushes, UnlockDequeue
<1>3. CASE UNCHANGED vars
  BY <1>3 DEF vars, mutexVars
<1> QED BY <1>1, <1>2, <1>3 DEF Kinds

-----------------------------------------------------------------------------
(* One lemma for each kind of step                                         *)

\* The context of the lemmas: the invariant before a step, and what it says of
\* the owner before and after.
Facts ==
    /\ IInv /\ TypeOK /\ LocalsOK /\ QueuesOK /\ MutualExclusion /\ PlaceTypes
    /\ OwnerOK /\ OwnerOK'

\* A CAS that sets the bit is a Lock: the thread waits for no signal.
LEMMA LockTakeLocks ==
    ASSUME Facts, NEW th \in Threads, LockTake(th)
    PROVE  M!Lock(th)
<1>1. /\ \A b \in Agents : pc'[b] = IF b = th THEN "held" ELSE pc[b]
      /\ condq' = condq /\ ~IsLocked(state) /\ pc[th] \in CASPCs
  BY DEF Facts, LockTake, Goto, CAS, TypeOK, PlaceTypes
<1>2. \A b \in Agents : ~Holds(b)
  BY <1>1 DEF Facts, IInv, MutexOK, StateCounts
<1>3. Owner = NULL
  BY <1>2 DEF Facts, OwnerOK, PlaceTypes
<1>4. Holds(th)'
  BY <1>1 DEF Holds, Facts, PlaceTypes
<1>5. Owner' = th
  BY <1>4 DEF Facts, OwnerOK
<1>6. ASSUME NEW c \in Conds, NEW i \in DOMAIN condq[c]
      PROVE  condq[c][i] # th
  <2>1. i \in 1 .. Len(condq[c])
    BY <1>6 DEF Facts, PlaceTypes
  <2>2. pc[condq[c][i]] = "cond_sleep"
    BY <2>1 DEF Facts, QueuesOK, Sleeping
  <2> QED BY <1>1, <2>2 DEF CASPCs
<1> QED BY <1>1, <1>3, <1>5, <1>6 DEF M!Lock

\* The end of the holding agent's unlock: a thread's is an Unlock, and that of
\* a callback changes nothing, since the thread had left when it began to wait.
LEMMA ReleaseUnlocks ==
    ASSUME Facts, NEW a \in Agents, Holds(a), \A b \in Agents : ~Holds(b)',
           condq' = condq
    PROVE  \/ a \in Threads /\ M!Unlock(a)
           \/ UNCHANGED <<Owner, condq>>
<1>1. Owner' = NULL
  BY DEF Facts, OwnerOK, PlaceTypes
<1>2. CASE a \in Threads
  <2>1. Owner = a
    BY <1>2 DEF Facts, OwnerOK
  <2> QED BY <1>1, <1>2, <2>1 DEF M!Unlock
<1>3. CASE a \notin Threads
  <2>1. \A th \in Threads : ~Holds(th)
    BY <1>3 DEF Facts, MutualExclusion, PlaceTypes
  <2>2. Owner = NULL
    BY <2>1 DEF Facts, OwnerOK
  <2> QED BY <1>1, <2>2
<1> QED BY <1>2, <1>3

\* After the store or the CAS that clears the bit nobody holds the mutex.
LEMMA FreeReleases ==
    ASSUME Facts, NEW a \in Agents, UnlockFree(a) \/ UnlockClear(a)
    PROVE  Holds(a) /\ (\A b \in Agents : ~Holds(b)') /\ condq' = condq
<1>1. PICK to \in {"idle", "run", "unlock_push"} :
          \A b \in Agents : pc'[b] = IF b = a THEN to ELSE pc[b]
  BY DEF Facts, UnlockFree, UnlockClear, Unlocked, Goto, TypeOK
<1>2. /\ pc[a] \in {"unlock_cas", "unlock_clear"}
      /\ UNCHANGED <<leaving, then, condq>>
  BY DEF UnlockFree, UnlockClear, Goto, At, switchVars
<1>3. Holds(a) /\ \A b \in Agents : Holds(b) => b = a
  BY <1>2 DEF Facts, MutualExclusion, Holds
<1>4. a \in Threads => then[a] # "held"
  BY <1>2 DEF Facts, LocalsOK, SignalPCs
<1> QED BY <1>1, <1>2, <1>3, <1>4 DEF Holds

\* A callback that puts a thread in condq is its Wait.
LEMMA EnqueueWaits ==
    ASSUME Facts, NEW w \in Workers, EnqueueWaiter(w)
    PROVE  \E th \in Threads, c \in Conds : M!Wait(th, c)
<1> DEFINE th == leaving[w]
<1>1. /\ th \in Threads /\ pc[th] = "cond_sleep" /\ cond[th] \in Conds
      /\ condq' = [condq EXCEPT ![cond[th]] = Append(@, th)]
  BY DEF Facts, LocalsOK, EnqueueWaiter, QueueWaiter
<1>2. Holds(th)
  BY <1>1 DEF Holds
<1>3. Owner = th
  BY <1>1, <1>2 DEF Facts, OwnerOK
<1>4. pc'[w] = "unlock_read" /\ w \in Agents
  BY DEF Facts, TypeOK, PlaceTypes, EnqueueWaiter, Left, Goto
<1>5. Holds(w)' /\ MutualExclusion'
  BY <1>4, Inductive, EnqueueWaiterOK DEF Holds, Facts, MutexOK
<1>6. \A t \in Threads : ~Holds(t)'
  BY <1>4, <1>5, BlockingAssumption DEF MutualExclusion, Facts, PlaceTypes
<1>7. Owner' = NULL
  BY <1>6 DEF Facts, OwnerOK
<1> QED BY <1>1, <1>3, <1>7 DEF M!Wait

\* The dequeue of signal and broadcast is a Wake, if the owner stays.
LEMMA DequeueIsWake ==
    ASSUME Facts, Owner' = Owner, NEW th \in Threads, WakeDequeue(th)
    PROVE  \E c \in Conds : M!Wake(c)
<1>1. cond[th] \in Conds
  BY DEF Facts, LocalsOK, WakeDequeue, SignalPCs
<1>2. /\ condq[cond[th]] # <<>>
      /\ condq' = [condq EXCEPT ![cond[th]] = Tail(condq[cond[th]])]
  BY DEF WakeDequeue
<1>3. M!Wake(cond[th])
  BY <1>1, <1>2 DEF M!Wake
<1> QED BY <1>1, <1>3

\* Taking a seat, and waking a thread from one, change no holder.
LEMMA SeatsChangeNoHolder ==
    ASSUME Facts,
           \/ \E th \in Threads : LockSeat(th)
           \/ \E a \in Agents : UnlockSeat(a) \/ UnlockDequeue(a)
    PROVE  UNCHANGED <<Owner, condq>>
<1>1. ASSUME NEW th \in Threads, LockSeat(th)
      PROVE  condq' = condq /\ \A t \in Threads : Holds(t)' <=> Holds(t)
  <2>1. \A b \in Agents : pc'[b] = IF b = th THEN "lock_block" ELSE pc[b]
    BY <1>1 DEF Facts, LockSeat, Goto, TypeOK
  <2>2. pc[th] = "lock_cas" /\ UNCHANGED <<leaving, then, condq>>
    BY <1>1 DEF LockSeat, Goto, At, switchVars
  <2> QED BY <2>1, <2>2 DEF Holds, Facts, PlaceTypes
<1>2. ASSUME NEW a \in Agents, UnlockSeat(a)
      PROVE  condq' = condq /\ \A t \in Threads : Holds(t)' <=> Holds(t)
  <2>1. \A b \in Agents : pc'[b] = IF b = a THEN "unlock_dequeue" ELSE pc[b]
    BY <1>2 DEF Facts, UnlockSeat, Goto, TypeOK
  <2>2. pc[a] = "unlock_cas" /\ UNCHANGED <<leaving, then, condq>>
    BY <1>2 DEF UnlockSeat, Goto, At, switchVars
  <2> QED BY <2>1, <2>2 DEF Holds, Facts, PlaceTypes
<1>3. ASSUME NEW a \in Agents, UnlockDequeue(a)
      PROVE  condq' = condq /\ \A t \in Threads : Holds(t)' <=> Holds(t)
  <2> DEFINE h == Head(sleepq)
  <2>1. /\ Woken(a, sleepq, "mutex_sleep", "unlock_clear")
        /\ pc[a] = "unlock_dequeue" /\ UNCHANGED <<leaving, then, condq>>
    BY <1>3, UnlockDequeueWakes DEF Facts, IInv, switchVars
  <2>2. /\ h \in Threads /\ pc[h] = "mutex_sleep"
        /\ \A b \in Agents : pc'[b] = IF b = h THEN "lock_read"
                                     ELSE IF b = a THEN "unlock_clear" ELSE pc[b]
    BY <2>1 DEF Woken
  <2> HIDE DEF h
  <2> QED BY <2>1, <2>2 DEF Holds, Facts, PlaceTypes
<1>4. condq' = condq /\ \A t \in Threads : Holds(t)' <=> Holds(t)
  BY <1>1, <1>2, <1>3
<1> QED BY <1>4, SameOwner DEF Facts

-----------------------------------------------------------------------------
(* The refinement                                                          *)

\* The first state is one of a Monitor.
LEMMA MonitorInit == Init => M!Init
<1> SUFFICES ASSUME Init PROVE M!Init
  OBVIOUS
<1>1. \A th \in Threads : ~Holds(th)
  BY BlockingAssumption DEF Init, SwitchInit, Holds, Agents
<1> QED BY <1>1 DEF M!Init, Owner, Init

\* Every step is one of the Monitor, or changes nothing of it.
LEMMA MonitorStep ==
    ASSUME IInv, [Next]_vars
    PROVE  [M!Next]_<<Owner, condq>>
<1>1. IInv'
  BY Inductive
<1>2. Facts
  BY <1>1, OwnerNow, OwnerNext, Types DEF Facts, IInv, MutexOK
<1>3. CASE Quiet
  <2>1. Owner' = Owner
    BY <1>2, <1>3, SameOwner DEF Quiet, SameRoles, Facts, PlaceTypes
  <2>2. CASE condq' = condq
    BY <2>1, <2>2
  <2>3. CASE \E w \in Workers : EnqueueWaiter(w)
    BY <1>2, <2>3, EnqueueWaits DEF M!Next
  <2>4. CASE \E th \in Threads : WakeDequeue(th)
    BY <1>2, <2>1, <2>4, DequeueIsWake DEF M!Next
  <2>5. Kinds
    BY StepKinds DEF IInv
  <2> QED BY <2>2, <2>3, <2>4, <2>5, QueueChanges
<1>4. CASE \E th \in Threads : LockTake(th)
  BY <1>2, <1>4, LockTakeLocks DEF M!Next
<1>5. CASE \/ \E th \in Threads : LockSeat(th)
           \/ \E a \in Agents : UnlockSeat(a) \/ UnlockDequeue(a)
  <2>1. UNCHANGED <<Owner, condq>>
    BY <1>2, <1>5, SeatsChangeNoHolder
  <2> QED BY <2>1
<1>6. CASE \E a \in Agents : UnlockFree(a) \/ UnlockClear(a)
  <2>1. PICK a \in Agents : UnlockFree(a) \/ UnlockClear(a)
    BY <1>6
  <2>2. Holds(a) /\ (\A b \in Agents : ~Holds(b)') /\ condq' = condq
    BY <1>2, <2>1, FreeReleases
  <2>3. (a \in Threads /\ M!Unlock(a)) \/ UNCHANGED <<Owner, condq>>
    BY <1>2, <2>2, ReleaseUnlocks
  <2> QED BY <2>3 DEF M!Next
<1>7. CASE \E w \in Workers : EnqueueWaiter(w)
  BY <1>2, <1>7, EnqueueWaits DEF M!Next
<1> QED BY <1>3, <1>4, <1>5, <1>6, <1>7, QuietActions

(***************************************************************************)
(* lock, unlock, cond_wait, signal and broadcast together are a Monitor:   *)
(* although cond_wait queues its thread and unlocks the mutex in two steps *)
(* of a callback, nobody can come between the two, and a signal wakes the  *)
(* thread that has waited longest.                                         *)
(***************************************************************************)
THEOREM Implements == Spec => ImplementsMonitor
<1>1. Init => M!Init
  BY MonitorInit
<1>2. IInv /\ [Next]_vars => [M!Next]_<<Owner, condq>>
  BY MonitorStep
<1> QED BY <1>1, <1>2, Invariance, PTL DEF Spec, ImplementsMonitor, M!Spec

-----------------------------------------------------------------------------
(***************************************************************************)
(* The full/empty lock in the program of FELock.  What is known of its     *)
(* mutex and condition variables carries over.  FELockAssumption is the    *)
(* hypothesis of what is proved from here on, and of nothing before.       *)
(***************************************************************************)

LockingPCs == {"lock_read", "lock_cas", "lock_block", "mutex_sleep", "cond_sleep"}
MarkingPCs == {"signal", "signal_push"}

\* A thread that has returned from wait_and_lock and has not unlocked yet.
Inside(th) == awaited[th] = NULL /\ pc[th] \in {"held"} \cup MarkingPCs

FETypes ==
    /\ status \in Statuses
    /\ awaited \in [Threads -> Statuses \cup {NULL}]
    /\ count \in Nat
    /\ mine \in [Threads -> Nat \cup {NULL}]
    /\ calls \in [Threads -> 0 .. 2 * Iterations]
    /\ calls[Main] \in {0, 1}

\* Where a thread is while it waits for a status, and while it does not.
Places(th) ==
    /\ awaited[th] # NULL =>
        /\ pc[th] \in LockingPCs \cup {"held"}
        /\ ~IsOver(th)
        /\ awaited[th] = IF Takes(th) THEN 1 ELSE 0
    /\ awaited[th] = NULL =>
        pc[th] \in {"idle", "held"} \cup MarkingPCs \cup UnlockPCs
    /\ pc[th] \in MarkingPCs => then[th] = "held"
    /\ awaited[th] = NULL /\ pc[th] \in {"held"} \cup MarkingPCs => ~IsOver(th)

\* An incrementer has the counter from its take to its put.
TakenOK ==
    \A th \in Threads :
        /\ mine[th] # NULL <=>
             th # Main /\ (IF Inside(th) THEN Takes(th) ELSE ~Takes(th))
        /\ mine[th] # NULL => mine[th] = count

\* Whatever the status is while a thread is inside, nobody but that thread
\* has the counter; and when nobody is, the status tells.
StatusOK ==
    /\ \A th, other \in Takers : th = other
    /\ Takers # {} => calls[Main] = 1
    /\ \A th \in Threads : Inside(th) =>
        /\ Takers \subseteq {th}
        /\ th # Main => calls[Main] = 1
    /\ (\A th \in Threads : ~Inside(th)) =>
        (status = 0 <=> Takers # {} \/ calls[Main] = 0)

\* The puts that have been done: the k-th of incrementer th.
PutsOf(th) == calls[th] + (IF Inside(th) /\ ~Takes(th) THEN 1 ELSE 0)
Puts == {t \in Incrementers \X (1 .. Iterations) : 2 * t[2] <= PutsOf(t[1])}

FEInv ==
    /\ FETypes
    /\ \A th \in Threads : Places(th)
    /\ TakenOK /\ StatusOK
    /\ count = Cardinality(Puts)

-----------------------------------------------------------------------------
(* The program uses the mutex as it may                                    *)

\* A worker without a thread is as good as one that never had it.
LEMMA FinishKeeps ==
    ASSUME IInv, NEW w \in Workers, NEW th \in Threads, Finish(w, th)
    PROVE  IInv'
<1>1. /\ UNCHANGED <<pc, ready, leaving, mutexVars>>
      /\ this' = [this EXCEPT ![w] = NULL] /\ saved' = saved \ {NULL}
  BY DEF Finish, Dispatch
<1>2. UNCHANGED <<pc, ready, leaving, state, sleepq, condq, val, waking, cond, then>>
  BY <1>1 DEF mutexVars
<1>3. TypeOK /\ Placed /\ Asleep /\ SavedOK
  BY DEF IInv
<1>4. /\ this \in [Workers -> Threads \cup {NULL}]
      /\ leaving \in [Workers -> Threads \cup {NULL}] /\ NULL \notin Threads
      /\ ready \subseteq Threads
      /\ \A v \in Workers : this'[v] = this[v] \/ this'[v] = NULL
  BY <1>1, <1>3, BlockingAssumption DEF TypeOK, SwitchTypeOK
<1>5. TypeOK'
  BY <1>1, <1>2, <1>3 DEF TypeOK, SwitchTypeOK
<1>6. Placed'
  <2>1. \A v \in Workers : this'[v] # NULL => this'[v] = this[v]
    BY <1>4
  <2>2. /\ \A v, u \in Workers : v # u /\ this'[v] # NULL => this'[v] # this'[u]
        /\ \A v, u \in Workers : this'[v] # NULL => this'[v] # leaving'[u]
    BY <1>2, <1>3, <2>1 DEF Placed
  <2>3. \A v \in Workers, a \in Agents : waking'[a] # NULL =>
            waking'[a] # this'[v] /\ waking'[a] # leaving'[v]
    BY <1>2, <1>3, <1>4 DEF Placed
  <2>4. \A v \in Workers : this'[v] \notin ready' /\ leaving'[v] \notin ready'
    BY <1>2, <1>3, <1>4 DEF Placed
  <2> QED BY <1>2, <1>3, <2>2, <2>3, <2>4 DEF Placed
<1>7. Asleep'
  BY <1>2, <1>3, <1>4 DEF Asleep
<1>8. SavedOK'
  BY <1>1, <1>2, <1>3, BlockingAssumption DEF SavedOK, TypeOK, SwitchTypeOK, Roles, IInv
<1>9. (Roles /\ QueuesOK /\ Waiting /\ LocalsOK)'
  BY <1>2 DEF IInv, Roles, QueuesOK, Sleeping, Waiting, LocalsOK
<1>10. MutexOK'
  BY <1>2 DEF IInv, MutexOK, MutualExclusion, Holds, StateCounts, Taken, Seated,
     NoSleeperForgotten
<1> QED BY <1>5, <1>6, <1>7, <1>8, <1>9, <1>10 DEF IInv

LEMMA MutexKept == ASSUME FELockAssumption, IInv, [FENext]_allVars PROVE IInv'
<1>1. ASSUME NEW a \in Agents, RuntimeStep(a) PROVE Next
  BY <1>1 DEF RuntimeStep, Next
<1>2. ASSUME NEW w \in Workers, NEW th \in Threads,
             WaitAndLock(th) \/ WaitForStatus(w, th) \/ MarkAndSignal(th) \/ MarkedUnlock(th)
      PROVE  Next
  BY <1>2 DEF FELockAssumption, WaitAndLock, WaitForStatus, MarkAndSignal, MarkedUnlock,
     ClientStep, Next, Statuses
<1>3. ASSUME NEW th \in Threads, StatusReached(th) PROVE UNCHANGED vars
  BY <1>3 DEF StatusReached
<1>4. UNCHANGED allVars => UNCHANGED vars
  BY DEF allVars
<1> QED
  BY <1>1, <1>2, <1>3, <1>4, Inductive, FinishKeeps DEF FENext, FEStep

-----------------------------------------------------------------------------
(* What the mutex does meanwhile                                           *)

\* How a step of the mutex moves a thread of the program.
Moves(th) ==
    \/ pc'[th] = pc[th] /\ then'[th] = then[th]
    \/ pc[th] \in LockingPCs /\ pc'[th] \in LockingPCs \cup {"held"}
    \/ pc[th] \in UnlockPCs /\ pc'[th] \in UnlockPCs \cup {"idle"}
    \/ /\ pc[th] \in MarkingPCs
       /\ pc'[th] = "held" \/ (pc'[th] = "signal_push" /\ then'[th] = then[th])

AllPlaces == \A th \in Threads : Places(th)

LEMMA DequeueMoves ==
    ASSUME IInv, AllPlaces, NEW a \in Agents, NEW q \in Seq(Threads), q # <<>>,
           \A i \in 1 .. Len(q) : pc[q[i]] \in SleepPCs,
           NEW from, NEW to, Dequeue(a, q, from, to), UNCHANGED then,
           a \in Threads => <<from, to>> \in
               {<<"unlock_dequeue", "unlock_clear">>, <<"signal", "signal_push">>}
    PROVE  \A th \in Threads : Moves(th)
<1> TAKE th \in Threads
<1>1. pc \in [Agents -> ThreadPCs \cup UnlockPCs \cup WorkerPCs] /\ th \in Agents
  BY DEF IInv, TypeOK, Agents
<1>2. /\ pc' = [pc EXCEPT ![a] = to, ![Head(q)] = "lock_read"]
      /\ pc[a] = from /\ Head(q) \in Threads /\ pc[Head(q)] \in SleepPCs
  BY DEF Dequeue, At
<1>3. CASE th = Head(q)
  BY <1>1, <1>2, <1>3 DEF Moves, SleepPCs, LockingPCs
<1>4. CASE th # Head(q) /\ th = a
  BY <1>1, <1>2, <1>4 DEF Moves, MarkingPCs, UnlockPCs
<1>5. CASE th # Head(q) /\ th # a
  BY <1>1, <1>2, <1>5 DEF Moves
<1> QED BY <1>3, <1>4, <1>5

\* A thread of the program is never at the other calls of the mutex.
LEMMA OwnPCs ==
    ASSUME AllPlaces, NEW th \in Threads
    PROVE  pc[th] \in LockingPCs \cup MarkingPCs \cup UnlockPCs \cup {"idle", "held"}
BY DEF AllPlaces, Places

LEMMA RuntimeMoves ==
    ASSUME IInv, AllPlaces, NEW a \in Agents, RuntimeStep(a)
    PROVE  \A th \in Threads : Moves(th)
<1>0. /\ TypeOK /\ LocalsOK /\ QueuesOK
      /\ pc \in [Agents -> ThreadPCs \cup UnlockPCs \cup WorkerPCs]
      /\ then \in [Threads -> {"idle", "held", "timed_check", "timed_yield"}]
      /\ Threads \subseteq Agents /\ Workers \subseteq Agents \ Threads
  BY BlockingAssumption DEF IInv, TypeOK, Agents
<1>1. ASSUME NEW w \in Workers, WorkerStep(w) PROVE \A th \in Threads : Moves(th)
  <2>1. CASE Switch(w) \/ EnqueueLocker(w) \/ EnqueueWaiter(w) \/ PutYielder(w)
    <3> TAKE th \in Threads
    <3>1. pc'[th] = pc[th] /\ then'[th] = then[th]
      BY <1>0, <2>1 DEF Switch, Resume, SwapContext, EnqueueLocker, EnqueueWaiter,
         PutYielder, YieldPut, Left, Goto, At, mutexVars
    <3> QED BY <3>1 DEF Moves
  <2>2. CASE \E t \in Threads : LockBlock(w, t) \/ TimedYield(w, t)
    <3> TAKE th \in Threads
    <3>1. PICK t \in Threads : LockBlock(w, t) \/ TimedYield(w, t)
      BY <2>2
    <3>2. /\ LockBlock(w, t)
          /\ pc[t] = "lock_block" /\ then' = then
          /\ pc' = [pc EXCEPT ![t] = "mutex_sleep", ![w] = "swap"]
      BY <3>1, OwnPCs DEF LockBlock, TimedYield, Block, Yield, Leave, mutexVars,
         LockingPCs, MarkingPCs, UnlockPCs
    <3>3. CASE th = t
      BY <1>0, <3>2, <3>3 DEF Moves, LockingPCs
    <3>4. CASE th # t
      BY <1>0, <3>2, <3>4 DEF Moves
    <3> QED BY <3>3, <3>4
  <2> QED BY <1>1, <2>1, <2>2 DEF WorkerStep
<1>2. ASSUME NEW t \in Threads, ThreadStep(t) PROVE \A th \in Threads : Moves(th)
  <2>0. pc[t] \in LockingPCs \cup MarkingPCs \cup UnlockPCs \cup {"idle", "held"}
    BY OwnPCs
  <2>0a. pc[t] \in MarkingPCs => then[t] = "held"
    BY DEF AllPlaces, Places
  <2> DEFINE Goes(to) == pc' = [pc EXCEPT ![t] = to]
  <2>1. CASE LockRead(t) \/ LockTake(t) \/ LockSeat(t) \/ LockRetry(t)
    <3>1. pc[t] \in LockingPCs
      BY <2>0, <2>1 DEF LockRead, LockTake, LockSeat, LockRetry, ReadPCs, CASPCs, Goto, At,
         LockingPCs, MarkingPCs, UnlockPCs
    <3>2. \E to \in LockingPCs \cup {"held"} : Goes(to)
      BY <2>1, <3>1 DEF LockRead, LockTake, LockSeat, LockRetry, AfterRead, BeforeCAS, Goto,
         CASPCs, ReadPCs, LockingPCs
    <3>3. \A o \in Threads \ {t} : then'[o] = then[o]
      BY <1>0, <2>1 DEF LockRead, LockTake, LockSeat, LockRetry
    <3> QED BY <1>0, <3>1, <3>2, <3>3 DEF Moves
  <2>2. CASE TryBusy(t) \/ TimedOut(t) \/ TimedRetry(t) \/ TimedNoYield(t) \/ BroadcastPush(t)
    BY <2>0, <2>2 DEF TryBusy, TimedOut, TimedRetry, TimedNoYield, BroadcastPush, Goto, At,
       LockingPCs, MarkingPCs, UnlockPCs
  <2>3. CASE WakeNobody(t) \/ SignalPush(t)
    <3>1. pc[t] \in MarkingPCs
      BY <2>0, <2>3 DEF WakeNobody, SignalPush, Goto, At, LockingPCs, MarkingPCs, UnlockPCs
    <3>2. Goes("held")
      BY <2>0a, <2>3, <3>1 DEF WakeNobody, SignalPush, Goto
    <3>3. \A o \in Threads \ {t} : then'[o] = then[o]
      BY <1>0, <2>3 DEF WakeNobody, SignalPush, WakeReturn
    <3> QED BY <1>0, <3>1, <3>2, <3>3 DEF Moves
  <2>4. CASE WakeDequeue(t)
    <3> DEFINE q == condq[cond[t]]
    <3>1. cond[t] \in Conds /\ q # <<>> /\ pc[t] = "signal" /\ then' = then
      BY <1>0, <2>0, <2>4 DEF WakeDequeue, LocalsOK, SignalPCs, LockingPCs, MarkingPCs, UnlockPCs
    <3>2. q \in Seq(Threads) /\ \A i \in 1 .. Len(q) : pc[q[i]] \in SleepPCs
      BY <1>0, <3>1 DEF TypeOK, QueuesOK, Sleeping, SleepPCs
    <3>3. Dequeue(t, q, "signal", "signal_push")
      BY <2>4, <3>1 DEF WakeDequeue
    <3> HIDE DEF q
    <3> QED BY <1>0, <3>1, <3>2, <3>3, DequeueMoves
  <2> QED BY <1>2, <2>1, <2>2, <2>3, <2>4 DEF ThreadStep
<1>3. ASSUME UnlockStep(a) PROVE \A th \in Threads : Moves(th)
  <2>1. CASE UnlockDequeue(a)
    <3>1. sleepq # <<>> /\ then' = then /\ Dequeue(a, sleepq, "unlock_dequeue", "unlock_clear")
      BY <2>1 DEF UnlockDequeue
    <3>2. sleepq \in Seq(Threads) /\ \A i \in 1 .. Len(sleepq) : pc[sleepq[i]] \in SleepPCs
      BY <1>0 DEF TypeOK, QueuesOK, Sleeping, SleepPCs
    <3> QED BY <3>1, <3>2, DequeueMoves
  <2>2. CASE UnlockRead(a) \/ UnlockSeat(a) \/ UnlockFree(a) \/ UnlockRetry(a)
             \/ UnlockClear(a) \/ UnlockPush(a)
    <3> TAKE th \in Threads
    <3>1. /\ pc[a] \in UnlockPCs /\ then' = then
          /\ \E to \in UnlockPCs \cup {Unlocked(a)} : pc' = [pc EXCEPT ![a] = to]
      BY <2>2 DEF UnlockRead, UnlockSeat, UnlockFree, UnlockRetry, UnlockClear, UnlockPush,
         Goto, At, UnlockPCs
    <3>2. CASE th = a
      BY <1>0, <3>1, <3>2 DEF Moves, Unlocked
    <3>3. CASE th # a
      BY <1>0, <3>1, <3>3 DEF Moves
    <3> QED BY <3>2, <3>3
  <2> QED BY <1>3, <2>1, <2>2 DEF UnlockStep
<1> QED BY <1>1, <1>2, <1>3 DEF RuntimeStep

-----------------------------------------------------------------------------
(* The counter and the status                                              *)

\* Calls alternate between a take and a put.
LEMMA Alternate ==
    ASSUME NEW c \in Nat
    PROVE  /\ (c + 1) % 2 = 0 <=> c % 2 # 0
           /\ c % 2 = 0 => \A k \in Nat : (2 * k <= c + 1 <=> 2 * k <= c)
           /\ c % 2 # 0 => \E k \in Nat \ {0} : 2 * k = c + 1
<1>1. c % 2 \in {0, 1} /\ c \div 2 \in Nat /\ c = 2 * (c \div 2) + (c % 2)
  OBVIOUS
<1>2. (c + 1) % 2 = 0 <=> c % 2 # 0
  OBVIOUS
<1>3. c % 2 = 0 => \A k \in Nat : (2 * k <= c + 1 <=> 2 * k <= c)
  BY <1>1
<1>4. ASSUME c % 2 # 0 PROVE \E k \in Nat \ {0} : 2 * k = c + 1
  <2>1. c \div 2 + 1 \in Nat \ {0} /\ 2 * (c \div 2 + 1) = c + 1
    BY <1>1, <1>4
  <2> QED BY <2>1
<1> QED BY <1>2, <1>3, <1>4

\* A thread inside holds the mutex, so only one can be.
LEMMA InsideHolds ==
    ASSUME AllPlaces, NEW th \in Threads, Inside(th)
    PROVE  Holds(th)
BY DEF AllPlaces, Places, Inside, Holds, MarkingPCs

LEMMA OneInside ==
    ASSUME IInv, AllPlaces, NEW th \in Threads, Holds(th)
    PROVE  \A o \in Threads \ {th} : ~Inside(o)
<1>1. \A o \in Threads : Inside(o) => Holds(o)
  BY InsideHolds
<1>2. th \in Agents /\ Threads \subseteq Agents
  BY DEF Agents
<1> QED BY <1>1, <1>2 DEF IInv, MutexOK, MutualExclusion

\* Nothing is taken, put or said while nobody enters or leaves.
LEMMA InsideFrame ==
    ASSUME FEInv, UNCHANGED <<status, count, mine, calls>>,
           \A th \in Threads : Inside(th)' <=> Inside(th)
    PROVE  TakenOK' /\ StatusOK' /\ count' = Cardinality(Puts')
<1>1. \A th \in Threads : Takes(th)' <=> Takes(th)
  BY DEF Takes
<1>2. Takers' = Takers
  BY DEF Takers
<1>3. TakenOK' /\ StatusOK'
  BY <1>1, <1>2 DEF FEInv, TakenOK, StatusOK
<1>4. \A th \in Threads : PutsOf(th)' = PutsOf(th)
  BY <1>1 DEF PutsOf
<1>5. Puts' = Puts
  BY <1>4 DEF Puts, Incrementers
<1> QED BY <1>3, <1>5 DEF FEInv

\* A thread that does not move, and whose variables nobody writes.
LEMMA PlacesFrame ==
    ASSUME NEW th \in Threads, Places(th), pc'[th] = pc[th], then'[th] = then[th],
           awaited'[th] = awaited[th], calls' = calls
    PROVE  Places(th)' /\ (Inside(th)' <=> Inside(th))
<1>1. Takes(th)' <=> Takes(th)
  BY DEF Takes
<1>2. IsOver(th)' <=> IsOver(th)
  BY DEF IsOver
<1> QED BY <1>1, <1>2 DEF Places, Inside

\* A step that no thread of the program takes part in.
LEMMA FrameFE ==
    ASSUME FEInv, UNCHANGED <<pc, then, status, awaited, count, mine, calls>>
    PROVE  FEInv'
<1>1. \A th \in Threads : Places(th)' /\ (Inside(th)' <=> Inside(th))
  BY PlacesFrame DEF FEInv
<1>2. TakenOK' /\ StatusOK' /\ count' = Cardinality(Puts')
  BY <1>1, InsideFrame
<1> QED BY <1>1, <1>2 DEF FEInv, FETypes

LEMMA PutsFinite ==
    ASSUME FELockAssumption PROVE IsFiniteSet(Incrementers) /\ IsFiniteSet(Puts)
<1>1. IsFiniteSet(Incrementers)
  BY BlockingAssumption, FS_Subset DEF Incrementers
<1>2. IsFiniteSet(1 .. Iterations)
  BY FS_Interval DEF FELockAssumption
<1>3. IsFiniteSet(Incrementers \X (1 .. Iterations))
  BY <1>1, <1>2, FS_Product
<1> QED BY <1>1, <1>3, FS_Subset DEF Puts

LEMMA InitFE == ASSUME FELockAssumption PROVE FEInit => FEInv
<1> SUFFICES ASSUME FEInit PROVE FEInv
  OBVIOUS
<1> USE DEF FELockAssumption, FEInit
<1>1. pc = [a \in Agents |-> IF a \in Threads THEN "idle" ELSE "run"] /\ Threads \subseteq Agents
  BY DEF Init, SwitchInit, Agents
<1>2. FETypes
  BY DEF FETypes, Statuses
<1>3. \A th \in Threads : Places(th) /\ ~Inside(th)
  BY <1>1 DEF Places, Inside, LockingPCs, MarkingPCs, UnlockPCs
<1>4. Takers = {}
  BY DEF Takers
<1>5. TakenOK
  BY <1>3 DEF TakenOK, Takes
<1>6. StatusOK
  BY <1>3, <1>4 DEF StatusOK
<1>7. \A t \in Incrementers \X (1 .. Iterations) : ~(2 * t[2] <= PutsOf(t[1]))
  BY <1>3 DEF PutsOf, Incrementers
<1>8. Puts = {}
  BY <1>7 DEF Puts
<1> QED BY <1>2, <1>3, <1>5, <1>6, <1>8, FS_EmptySet DEF FEInv

\* The steps of the mutex, of the signals and of the scheduler.
LEMMA RuntimeFE ==
    ASSUME IInv, FEInv, NEW a \in Agents, RuntimeStep(a), UNCHANGED feVars
    PROVE  FEInv'
<1>0. AllPlaces /\ UNCHANGED <<status, awaited, count, mine, calls>>
  BY DEF FEInv, AllPlaces, feVars
<1>1. ASSUME NEW th \in Threads PROVE Places(th)' /\ (Inside(th)' <=> Inside(th))
  <2>1. Moves(th) /\ Places(th)
    BY <1>0, RuntimeMoves DEF FEInv
  <2>2. CASE pc'[th] = pc[th] /\ then'[th] = then[th]
    BY <1>0, <2>1, <2>2, PlacesFrame
  <2> DEFINE Other == pc[th] \in LockingPCs \/ pc[th] \in UnlockPCs \/ pc[th] \in MarkingPCs
  <2>3. (Takes(th)' <=> Takes(th)) /\ (IsOver(th)' <=> IsOver(th))
    BY <1>0 DEF Takes, IsOver
  <2>4. CASE pc[th] \in LockingPCs /\ pc'[th] \in LockingPCs \cup {"held"}
    BY <1>0, <2>1, <2>3, <2>4 DEF Places, Inside, LockingPCs, MarkingPCs, UnlockPCs
  <2>5. CASE pc[th] \in UnlockPCs /\ pc'[th] \in UnlockPCs \cup {"idle"}
    BY <1>0, <2>1, <2>3, <2>5 DEF Places, Inside, LockingPCs, MarkingPCs, UnlockPCs
  <2>6. CASE /\ pc[th] \in MarkingPCs
             /\ pc'[th] = "held" \/ (pc'[th] = "signal_push" /\ then'[th] = then[th])
    BY <1>0, <2>1, <2>3, <2>6 DEF Places, Inside, LockingPCs, MarkingPCs, UnlockPCs
  <2> QED BY <2>1, <2>2, <2>4, <2>5, <2>6 DEF Moves
<1>2. TakenOK' /\ StatusOK' /\ count' = Cardinality(Puts')
  BY <1>0, <1>1, InsideFrame
<1>3. FETypes'
  BY <1>0 DEF FEInv, FETypes
<1> QED BY <1>1, <1>2, <1>3 DEF FEInv

\* Entering: the call of lock, and the wait for the status.
LEMMA WaitFE ==
    ASSUME FELockAssumption, IInv, FEInv, NEW w \in Workers, NEW th \in Threads,
           WaitAndLock(th) \/ WaitForStatus(w, th)
    PROVE  FEInv'
<1>0. /\ pc \in [Agents -> ThreadPCs \cup UnlockPCs \cup WorkerPCs]
      /\ Threads \subseteq Agents /\ Workers \subseteq Agents \ Threads
      /\ \A o \in Threads : Places(o)
      /\ FETypes /\ NULL \notin Statuses
  BY BlockingAssumption DEF FELockAssumption, IInv, TypeOK, Agents, FEInv, Statuses
<1>1. UNCHANGED <<status, count, mine, calls, then>>
  BY DEF WaitAndLock, WaitForStatus, LockBegin, WaitBlock, mutexVars, feVars
<1>2. /\ \A o \in Threads \ {th} : pc'[o] = pc[o] /\ awaited'[o] = awaited[o]
      /\ awaited' \in [Threads -> Statuses \cup {NULL}]
      /\ awaited'[th] = (IF Takes(th) THEN 1 ELSE 0) /\ awaited'[th] # NULL
      /\ ~IsOver(th)
      /\ pc'[th] \in LockingPCs /\ pc[th] \in {"idle", "held"}
      /\ pc[th] = "held" => awaited[th] # NULL
  <2>1. CASE WaitAndLock(th)
    BY <1>0, <2>1 DEF WaitAndLock, LockBegin, Goto, At, FETypes, Statuses, LockingPCs
  <2>2. CASE WaitForStatus(w, th)
    <3>1. /\ pc[th] = "held" /\ awaited' = awaited /\ awaited[th] \in Statuses
          /\ pc' = [pc EXCEPT ![th] = "cond_sleep", ![w] = "swap"]
      BY <2>2 DEF WaitForStatus, WaitBlock, Block, Yield, Leave, feVars
    <3> QED BY <1>0, <3>1 DEF FETypes, LockingPCs, Places
  <2> QED BY <2>1, <2>2
<1>3. \A o \in Threads : Places(o)' /\ (Inside(o)' <=> Inside(o))
  <2> TAKE o \in Threads
  <2>1. CASE o # th
    BY <1>0, <1>1, <1>2, <2>1, PlacesFrame
  <2>2. CASE o = th
    <3>1. (Takes(th)' <=> Takes(th)) /\ (IsOver(th)' <=> IsOver(th))
      BY <1>1 DEF Takes, IsOver
    <3> QED BY <1>2, <2>2, <3>1 DEF Places, Inside, LockingPCs, MarkingPCs
  <2> QED BY <2>1, <2>2
<1>4. TakenOK' /\ StatusOK' /\ count' = Cardinality(Puts')
  BY <1>1, <1>3, InsideFrame
<1>5. FETypes'
  BY <1>0, <1>1, <1>2 DEF FETypes
<1> QED BY <1>3, <1>4, <1>5 DEF FEInv

\* The signal under the mutex changes the status, which the thread inside may.
LEMMA MarkFE ==
    ASSUME IInv, FEInv, NEW th \in Threads, MarkAndSignal(th)
    PROVE  FEInv'
<1>0. /\ pc \in [Agents -> ThreadPCs \cup UnlockPCs \cup WorkerPCs]
      /\ then \in [Threads -> {"idle", "held", "timed_check", "timed_yield"}]
      /\ Threads \subseteq Agents
      /\ \A o \in Threads : Places(o)
      /\ FETypes /\ TakenOK /\ StatusOK /\ count = Cardinality(Puts)
  BY DEF IInv, TypeOK, Agents, FEInv
<1>1. /\ UNCHANGED <<awaited, count, mine, calls>>
      /\ awaited[th] = NULL /\ pc[th] = "held" /\ status' \in {0, 1}
      /\ pc' = [pc EXCEPT ![th] = "signal"] /\ then' = [then EXCEPT ![th] = "held"]
  BY DEF MarkAndSignal, SignalBegin, WakeBegin, Goto, At
<1>2. \A o \in Threads : Places(o)' /\ (Inside(o)' <=> Inside(o))
  <2> TAKE o \in Threads
  <2>1. CASE o # th
    BY <1>0, <1>1, <2>1, PlacesFrame
  <2>2. CASE o = th
    <3>1. (Takes(th)' <=> Takes(th)) /\ (IsOver(th)' <=> IsOver(th))
      BY <1>1 DEF Takes, IsOver
    <3> QED BY <1>0, <1>1, <2>2, <3>1 DEF Places, Inside, MarkingPCs
  <2> QED BY <2>1, <2>2
<1>3. Inside(th) /\ Inside(th)'
  BY <1>1, <1>2 DEF Inside
<1>4. /\ \A o \in Threads : Takes(o)' <=> Takes(o)
      /\ Takers' = Takers
  BY <1>1 DEF Takes, Takers
<1>5. TakenOK' /\ StatusOK'
  BY <1>0, <1>1, <1>2, <1>3, <1>4 DEF TakenOK, StatusOK
<1>6. \A o \in Threads : PutsOf(o)' = PutsOf(o)
  BY <1>1, <1>2, <1>4 DEF PutsOf
<1>7. Puts' = Puts
  BY <1>6 DEF Puts, Incrementers
<1>8. FETypes'
  BY <1>0, <1>1 DEF FETypes, Statuses
<1> QED BY <1>0, <1>1, <1>2, <1>5, <1>7, <1>8 DEF FEInv

\* Nobody else is inside while a thread holds the mutex between two calls.
LEMMA ReachedFE ==
    ASSUME FELockAssumption, IInv, FEInv, NEW th \in Threads, StatusReached(th)
    PROVE  FEInv'
<1>0. /\ \A o \in Threads : Places(o)
      /\ FETypes /\ TakenOK /\ StatusOK /\ count = Cardinality(Puts)
      /\ NULL \notin Nat /\ Main \in Threads /\ Iterations \in Nat \ {0}
  BY DEF FELockAssumption, FEInv
<1>1. /\ UNCHANGED <<pc, then, status, calls>>
      /\ pc[th] = "held" /\ awaited[th] = status
      /\ awaited' = [awaited EXCEPT ![th] = NULL]
  BY DEF StatusReached, vars, mutexVars, At
<1>2. status \in {0, 1} /\ awaited[th] # NULL /\ ~IsOver(th)
      /\ status = IF Takes(th) THEN 1 ELSE 0
  BY <1>0, <1>1 DEF FETypes, Statuses, Places
<1>3. \A o \in Threads : ~Inside(o)
  <2>1. Holds(th) /\ AllPlaces
    BY <1>0, <1>1 DEF Holds, AllPlaces
  <2> QED BY <1>2, <2>1, OneInside DEF Inside
<1>4. \A o \in Threads : (Takes(o)' <=> Takes(o)) /\ (IsOver(o)' <=> IsOver(o))
  BY <1>1 DEF Takes, IsOver
<1>5. /\ \A o \in Threads \ {th} : Places(o)' /\ ~Inside(o)'
      /\ Places(th)' /\ Inside(th)'
  <2>1. ASSUME NEW o \in Threads \ {th} PROVE Places(o)' /\ ~Inside(o)'
    <3>1. awaited'[o] = awaited[o]
      BY <1>0, <1>1 DEF FETypes
    <3> QED BY <1>0, <1>1, <1>3, <3>1, PlacesFrame
  <2>2. awaited'[th] = NULL
    BY <1>0, <1>1 DEF FETypes
  <2> QED BY <1>1, <1>2, <1>4, <2>1, <2>2 DEF Places, Inside, MarkingPCs
<1>6. CASE Takes(th)
  <2>1. mine' = [mine EXCEPT ![th] = count] /\ count' = count
    BY <1>6 DEF StatusReached
  <2>2. Takers = {} /\ calls[Main] = 1 /\ th # Main
    BY <1>0, <1>2, <1>3, <1>6 DEF StatusOK, FETypes, Takes
  <2>3. Takers' = {th}
    BY <1>0, <2>1, <2>2 DEF Takers, FETypes
  <2>4. TakenOK'
    BY <1>0, <1>3, <1>4, <1>5, <1>6, <2>1, <2>2 DEF TakenOK, FETypes
  <2>5. StatusOK'
    BY <1>1, <1>5, <2>2, <2>3 DEF StatusOK
  <2>6. \A o \in Threads : PutsOf(o)' = PutsOf(o)
    BY <1>1, <1>3, <1>4, <1>5, <1>6 DEF PutsOf
  <2>7. Puts' = Puts
    BY <2>6 DEF Puts, Incrementers
  <2>8. FETypes'
    BY <1>0, <1>1, <2>1 DEF FETypes
  <2> QED BY <1>0, <1>5, <2>1, <2>4, <2>5, <2>7, <2>8 DEF FEInv
<1>7. CASE th = Main
  <2>1. ~Takes(Main) /\ mine[Main] = NULL /\ calls[Main] = 0
    BY <1>0, <1>2, <1>3, <1>7 DEF Takes, TakenOK, IsOver, FETypes
  <2>2. mine' = mine /\ count' = count
    BY <1>0, <1>7, <2>1 DEF StatusReached, FETypes
  <2>3. Takers = {} /\ Takers' = {}
    BY <1>0, <2>1, <2>2 DEF StatusOK, Takers
  <2>4. TakenOK'
    BY <1>0, <1>3, <1>4, <1>5, <1>7, <2>1, <2>2 DEF TakenOK
  <2>5. StatusOK'
    BY <1>1, <1>5, <1>7, <2>3 DEF StatusOK
  <2>6. \A o \in Incrementers : PutsOf(o)' = PutsOf(o)
    BY <1>1, <1>3, <1>4, <1>5, <1>7 DEF PutsOf, Incrementers
  <2>7. Puts' = Puts
    BY <2>6 DEF Puts, Incrementers
  <2>8. FETypes'
    BY <1>0, <1>1, <2>2 DEF FETypes
  <2> QED BY <1>0, <1>5, <2>2, <2>4, <2>5, <2>7, <2>8 DEF FEInv
<1>8. CASE th # Main /\ ~Takes(th)
  <2>1. mine[th] # NULL /\ mine[th] = count /\ calls[th] % 2 # 0
    BY <1>0, <1>3, <1>8 DEF TakenOK, Takes
  <2>2. mine' = [mine EXCEPT ![th] = NULL] /\ count' = count + 1
    BY <1>8, <2>1 DEF StatusReached
  <2>3. Takers = {th} /\ Takers' = {} /\ calls[Main] = 1
    BY <1>0, <2>1, <2>2 DEF StatusOK, Takers, FETypes
  <2>4. TakenOK'
    BY <1>0, <1>3, <1>4, <1>5, <1>8, <2>2, <2>3 DEF TakenOK, FETypes, Takers
  <2>5. StatusOK'
    BY <1>1, <1>5, <2>3 DEF StatusOK
  <2>6. \A o \in Threads \ {th} : PutsOf(o)' = PutsOf(o)
    BY <1>1, <1>3, <1>4, <1>5 DEF PutsOf
  <2>7. PutsOf(th) = calls[th] /\ PutsOf(th)' = calls[th] + 1 /\ calls[th] \in Nat
    BY <1>0, <1>1, <1>3, <1>4, <1>5, <1>8 DEF PutsOf, FETypes
  <2>8. PICK k \in Nat \ {0} : 2 * k = calls[th] + 1
    BY <2>1, <2>7, Alternate
  <2>9. calls[th] < 2 * Iterations
    BY <1>0, <1>2, <1>8 DEF FETypes, IsOver
  <2>10. k \in 1 .. Iterations /\ \A j \in 1 .. Iterations : 2 * j <= calls[th] + 1 <=> (2 * j <= calls[th] \/ j = k)
    BY <1>0, <2>7, <2>8, <2>9
  <2>11. ASSUME NEW t \in Incrementers \X (1 .. Iterations)
         PROVE  (2 * t[2] <= PutsOf(t[1]))' <=> (2 * t[2] <= PutsOf(t[1]) \/ t = <<th, k>>)
    <3>1. t = <<t[1], t[2]>> /\ t[1] \in Threads /\ t[2] \in 1 .. Iterations
      BY DEF Incrementers
    <3>2. CASE t[1] = th
      BY <2>7, <2>10, <3>1, <3>2
    <3>3. CASE t[1] # th
      BY <2>6, <3>1, <3>3
    <3> QED BY <3>2, <3>3
  <2>12. Puts' = Puts \cup {<<th, k>>} /\ <<th, k>> \notin Puts
    <3>1. <<th, k>> \in Incrementers \X (1 .. Iterations)
      BY <1>8, <2>10 DEF Incrementers
    <3>2. <<th, k>> \notin Puts
      BY <2>7, <2>8 DEF Puts
    <3>3. Puts' = Puts \cup {<<th, k>>}
      BY <2>11, <3>1 DEF Puts, Incrementers
    <3> QED BY <3>2, <3>3
  <2>13. count' = Cardinality(Puts')
    BY <1>0, <2>2, <2>12, PutsFinite, FS_AddElement
  <2>14. FETypes'
    BY <1>0, <1>1, <2>2 DEF FETypes
  <2> QED BY <1>5, <2>4, <2>5, <2>13, <2>14 DEF FEInv
<1> QED BY <1>6, <1>7, <1>8

\* Leaving: the call is over.
LEMMA UnlockFE ==
    ASSUME FELockAssumption, IInv, FEInv, NEW th \in Threads, MarkedUnlock(th)
    PROVE  FEInv'
<1>0. /\ \A o \in Threads : Places(o)
      /\ FETypes /\ TakenOK /\ StatusOK /\ count = Cardinality(Puts)
      /\ NULL \notin Nat /\ Main \in Threads /\ Iterations \in Nat \ {0}
      /\ pc \in [Agents -> ThreadPCs \cup UnlockPCs \cup WorkerPCs]
      /\ Threads \subseteq Agents
  BY DEF FELockAssumption, FEInv, IInv, TypeOK, Agents
<1>1. /\ UNCHANGED <<then, status, awaited, count, mine>>
      /\ pc[th] = "held" /\ pc' = [pc EXCEPT ![th] = "unlock_read"]
      /\ awaited[th] = NULL /\ status = (IF Takes(th) THEN 0 ELSE 1)
      /\ calls' = [calls EXCEPT ![th] = @ + 1]
  BY DEF MarkedUnlock, UnlockBegin, Goto, At, mutexVars
<1>2. /\ Inside(th) /\ ~IsOver(th) /\ \A o \in Threads \ {th} : ~Inside(o)
  <2>1. Holds(th) /\ AllPlaces
    BY <1>0, <1>1 DEF Holds, AllPlaces
  <2> QED BY <1>0, <1>1, <2>1, OneInside DEF Inside, Places
<1>3. \A o \in Threads \ {th} : /\ Takes(o)' <=> Takes(o)
                                /\ pc'[o] = pc[o] /\ IsOver(o)' <=> IsOver(o)
  BY <1>0, <1>1 DEF Takes, IsOver, FETypes
<1>4. \A o \in Threads : Places(o)' /\ ~Inside(o)'
  <2>1. ASSUME NEW o \in Threads \ {th} PROVE Places(o)' /\ ~Inside(o)'
    BY <1>0, <1>1, <1>2, <1>3 DEF Places, Inside
  <2>2. pc'[th] = "unlock_read" /\ awaited'[th] = NULL
    BY <1>0, <1>1 DEF FETypes
  <2> QED BY <2>1, <2>2 DEF Places, Inside, MarkingPCs, UnlockPCs
<1>5. /\ calls'[th] = calls[th] + 1 /\ calls[th] \in Nat /\ calls[th] < 2 * Iterations
      /\ th = Main => calls[th] = 0
  BY <1>0, <1>1, <1>2 DEF FETypes, IsOver
<1>6. th # Main => (Takes(th)' <=> ~Takes(th))
  <2>1. (calls[th] + 1) % 2 = 0 <=> calls[th] % 2 # 0
    BY <1>5, Alternate
  <2> QED BY <1>5, <2>1 DEF Takes
<1>7. Takers' = Takers /\ Takers \subseteq {th}
  BY <1>0, <1>1, <1>2 DEF Takers, StatusOK
<1>8. TakenOK'
  BY <1>0, <1>1, <1>2, <1>3, <1>4, <1>6 DEF TakenOK
<1>9. calls'[Main] = 1
  BY <1>0, <1>1, <1>2, <1>5 DEF StatusOK, FETypes
<1>10. status' = 0 <=> Takers' # {}
  <2>1. th \in Takers <=> th # Main /\ Takes(th)
    BY <1>0, <1>2 DEF TakenOK, Takers
  <2> QED BY <1>1, <1>7, <2>1 DEF Takes
<1>11. StatusOK'
  BY <1>4, <1>7, <1>9, <1>10 DEF StatusOK
<1>12. ASSUME NEW o \in Incrementers, NEW k \in Nat
       PROVE  (2 * k <= PutsOf(o))' <=> 2 * k <= PutsOf(o)
  <2>1. CASE o # th
    BY <1>0, <1>1, <1>2, <1>3, <1>4, <2>1 DEF PutsOf, FETypes, Incrementers
  <2>2. CASE o = th /\ Takes(th)
    <3>1. PutsOf(th) = calls[th] /\ PutsOf(th)' = calls[th] + 1 /\ calls[th] % 2 = 0
      BY <1>4, <1>5, <2>2 DEF PutsOf, Takes
    <3> QED BY <1>5, <2>2, <3>1, Alternate
  <2>3. CASE o = th /\ ~Takes(th)
    <3>1. PutsOf(th) = calls[th] + 1 /\ PutsOf(th)' = calls[th] + 1
      BY <1>2, <1>4, <1>5, <2>3 DEF PutsOf
    <3> QED BY <2>3, <3>1
  <2> QED BY <2>1, <2>2, <2>3
<1>13. Puts' = Puts
  BY <1>0, <1>12 DEF Puts, Incrementers
<1>14. FETypes'
  BY <1>0, <1>1, <1>5, <1>9 DEF FETypes
<1> QED BY <1>0, <1>1, <1>4, <1>8, <1>11, <1>13, <1>14 DEF FEInv

LEMMA FEStepKeeps == ASSUME FELockAssumption, IInv, FEInv, [FENext]_allVars PROVE FEInv'
<1>1. ASSUME NEW w \in Workers, NEW th \in Threads, Finish(w, th) PROVE FEInv'
  <2>1. UNCHANGED <<pc, then, status, awaited, count, mine, calls>>
    BY <1>1 DEF Finish, mutexVars, feVars
  <2> QED BY <2>1, FrameFE
<1>2. CASE UNCHANGED allVars
  <2>1. UNCHANGED <<pc, then, status, awaited, count, mine, calls>>
    BY <1>2 DEF allVars, vars, mutexVars, feVars
  <2> QED BY <2>1, FrameFE
<1> QED
  BY <1>1, <1>2, RuntimeFE, WaitFE, ReachedFE, MarkFE, UnlockFE DEF FENext, FEStep

-----------------------------------------------------------------------------
(* The theorems                                                            *)

(***************************************************************************)
(* The inductive invariant: that of the mutex, and with it where each      *)
(* thread of the program is, who has the counter, what the status says of  *)
(* it, and that it has been incremented once for every put.                *)
(***************************************************************************)
THEOREM FEInductive == ASSUME FELockAssumption PROVE FESpec => [](IInv /\ FEInv)
<1>1. FEInit => IInv /\ FEInv
  BY InitIInv, InitFE DEF FEInit
<1>2. IInv /\ FEInv /\ [FENext]_allVars => IInv' /\ FEInv'
  BY MutexKept, FEStepKeeps
<1> QED BY <1>1, <1>2, PTL DEF FESpec

(***************************************************************************)
(* However many threads increment, at most one of them has the counter     *)
(* out of the lock, and whenever the mutex is free the status says whether *)
(* one has: myth_felock_mark_and_signal changes it before the unlock.      *)
(***************************************************************************)
THEOREM EmptyMeansTaken == ASSUME FELockAssumption PROVE FESpec => []EmptyIsTaken
<1>1. ASSUME IInv, FEInv PROVE EmptyIsTaken
  <2>1. ~IsLocked(state) => \A th \in Threads : ~Inside(th)
    BY <1>1, InsideHolds DEF IInv, MutexOK, StateCounts, FEInv, AllPlaces, Agents
  <2> QED BY <1>1, <2>1 DEF FEInv, StatusOK, EmptyIsTaken
<1> QED BY <1>1, FEInductive, PTL

(***************************************************************************)
(* No increment is lost: whenever every thread is over, the counter is     *)
(* what the assertion of tests/myth_felock.c expects of it.  That they get *)
(* there is Finishes, which TLC checks.                                    *)
(***************************************************************************)
THEOREM NoIncrementIsLost ==
    ASSUME FELockAssumption
    PROVE  FESpec => []((\A th \in Threads : IsOver(th)) =>
                     count = Iterations * Cardinality(Incrementers))
<1>1. ASSUME FEInv, \A th \in Threads : IsOver(th)
      PROVE  count = Iterations * Cardinality(Incrementers)
  <2>1. \A th \in Incrementers : PutsOf(th) = 2 * Iterations
    BY <1>1 DEF FELockAssumption, FEInv, Places, Inside, PutsOf, IsOver, Incrementers
  <2>2. Puts = Incrementers \X (1 .. Iterations)
    BY <2>1 DEF FELockAssumption, Puts
  <2>3. /\ IsFiniteSet(Incrementers) /\ IsFiniteSet(1 .. Iterations)
        /\ Cardinality(1 .. Iterations) = Iterations
    BY PutsFinite, FS_Interval DEF FELockAssumption
  <2>4. Cardinality(Puts) = Cardinality(Incrementers) * Iterations
    BY <2>2, <2>3, FS_Product
  <2> QED BY <1>1, <2>3, <2>4, FS_CardinalityType DEF FELockAssumption, FEInv
<1> QED BY <1>1, FEInductive, PTL

-----------------------------------------------------------------------------
(* Nobody is left waiting                                                  *)

\* The threads that sleep until the status is s, and those that are awake and
\* will test whether it is.
Waiters(s) == {th \in Threads : awaited[th] = s /\ pc[th] = "cond_sleep"}
Comers(s) == {th \in Threads : awaited[th] = s /\ pc[th] # "cond_sleep"}

\* A thread inside that has not marked yet, or has not signalled yet.
WillSignal(th) ==
    /\ awaited[th] = NULL
    /\ \/ pc[th] = "signal"
       \/ pc[th] = "held" /\ status # IF Takes(th) THEN 0 ELSE 1

\* Threads wait where they are looked for ...
CondsOK ==
    \A th \in Threads :
        /\ pc[th] = "cond_sleep" => cond[th] = awaited[th]
        /\ pc[th] = "signal" => cond[th] = status

\* ... and whoever waits for the status that is will not be the only one to act.
HeardOK ==
    Waiters(status) # {} =>
        Comers(status) # {} \/ \E th \in Threads : WillSignal(th)

Heard == CondsOK /\ HeardOK

\* A thread that neither falls asleep or wakes up, nor signals.
Still(th) ==
    /\ pc'[th] = "cond_sleep" <=> pc[th] = "cond_sleep"
    /\ pc'[th] = "signal" <=> pc[th] = "signal"
    /\ pc[th] = "held" => pc'[th] = "held"
    /\ pc[th] \in {"cond_sleep", "signal"} => cond'[th] = cond[th]

LEMMA StillHeard ==
    ASSUME Heard, UNCHANGED <<status, awaited, calls>>, \A th \in Threads : Still(th)
    PROVE  Heard'
<1>1. CondsOK'
  BY DEF Heard, CondsOK, Still
<1>2. Waiters(status)' = Waiters(status) /\ Comers(status)' = Comers(status)
  BY DEF Waiters, Comers, Still
<1>3. \A th \in Threads : WillSignal(th) => WillSignal(th)'
  BY DEF WillSignal, Still, Takes
<1> QED BY <1>1, <1>2, <1>3 DEF Heard, HeardOK

LEMMA InitHeard == ASSUME FELockAssumption PROVE FEInit => Heard
<1> SUFFICES ASSUME FEInit PROVE Heard
  OBVIOUS
<1>1. \A th \in Threads : pc[th] = "idle"
  BY DEF FEInit, Init, SwitchInit, Agents
<1> QED BY <1>1 DEF Heard, CondsOK, HeardOK, Waiters

\* A signal reaches one of those that wait for the new status, if any does.
LEMMA WakeHeard ==
    ASSUME IInv, FEInv, Heard, NEW t \in Threads, UNCHANGED feVars,
           WakeNobody(t) \/ WakeDequeue(t)
    PROVE  Heard'
<1>0. /\ pc \in [Agents -> ThreadPCs \cup UnlockPCs \cup WorkerPCs] /\ Threads \subseteq Agents
      /\ cond \in [Threads -> Conds \cup {NULL}]
      /\ QueuesOK /\ LocalsOK /\ CondsOK
      /\ UNCHANGED <<status, awaited, calls>>
  BY DEF IInv, TypeOK, Agents, Heard, feVars
<1>1. pc[t] = "signal" /\ then[t] = "held" /\ cond[t] = status /\ status \in Conds
  <2>1. AllPlaces
    BY DEF FEInv, AllPlaces
  <2>2. pc[t] = "signal"
    BY <2>1, OwnPCs DEF WakeNobody, WakeDequeue, LockingPCs, MarkingPCs, UnlockPCs
  <2> QED BY <1>0, <2>1, <2>2 DEF AllPlaces, Places, MarkingPCs, CondsOK, LocalsOK, SignalPCs
<1>2. CASE WakeNobody(t)
  <2>1. Waiters(status) = {}
    <3> SUFFICES ASSUME NEW th \in Threads, awaited[th] = status, pc[th] = "cond_sleep"
                 PROVE  FALSE
      BY DEF Waiters
    <3>1. th \in Elements(condq[status])
      BY <1>0, <1>1, Queued DEF CondsOK, WaitersAreQueued
    <3> QED BY <1>1, <1>2, <3>1 DEF WakeNobody, Elements
  <2>2. pc' = [pc EXCEPT ![t] = "held"] /\ cond' = [cond EXCEPT ![t] = NULL]
    BY <1>1, <1>2 DEF WakeNobody, Goto, WakeReturn
  <2>3. Waiters(status)' = Waiters(status)
    BY <1>0, <1>1, <2>2 DEF Waiters
  <2>4. CondsOK'
    BY <1>0, <1>1, <2>2 DEF CondsOK
  <2> QED BY <2>1, <2>3, <2>4 DEF Heard, HeardOK
<1>3. CASE WakeDequeue(t)
  <2> DEFINE h == Head(condq[status])
  <2>1. /\ condq[status] \in Seq(Threads) /\ condq[status] # <<>>
        /\ pc' = [pc EXCEPT ![t] = "signal_push", ![h] = "lock_read"]
        /\ cond' = [cond EXCEPT ![h] = NULL]
    BY <1>1, <1>3 DEF WakeDequeue, Dequeue, IInv, TypeOK
  <2>2. h \in Threads /\ pc[h] = "cond_sleep" /\ cond[h] = status
    <3>1. h = condq[status][1] /\ 1 \in 1 .. Len(condq[status]) /\ h \in Threads
      BY <2>1
    <3> QED BY <1>0, <1>1, <3>1 DEF QueuesOK, Sleeping
  <2> HIDE DEF h
  <2>3. h \in Comers(status)'
    BY <1>0, <1>1, <2>1, <2>2 DEF CondsOK, Comers
  <2>4. CondsOK'
    BY <1>0, <1>1, <2>1, <2>2 DEF CondsOK
  <2> QED BY <2>3, <2>4 DEF Heard, HeardOK
<1> QED BY <1>2, <1>3

\* Every other step of the mutex and of the scheduler wakes nobody who waits
\* for a status.
LEMMA OthersAreStill ==
    ASSUME IInv, AllPlaces, NEW a \in Agents, RuntimeStep(a),
           \A t \in Threads : ~(WakeNobody(t) \/ WakeDequeue(t))
    PROVE  \A th \in Threads : Still(th)
<1>0. /\ QueuesOK /\ Threads \subseteq Agents /\ Workers \subseteq Agents \ Threads
      /\ pc \in [Agents -> ThreadPCs \cup UnlockPCs \cup WorkerPCs]
      /\ cond \in [Threads -> Conds \cup {NULL}]
  BY BlockingAssumption DEF IInv, TypeOK, Agents
<1>1. ASSUME NEW w \in Workers, WorkerStep(w) PROVE \A th \in Threads : Still(th)
  <2>1. CASE Switch(w) \/ EnqueueLocker(w) \/ EnqueueWaiter(w) \/ PutYielder(w)
    <3> TAKE th \in Threads
    <3>1. pc'[th] = pc[th] /\ cond'[th] = cond[th]
      BY <1>0, <2>1 DEF Switch, Resume, SwapContext, EnqueueLocker, EnqueueWaiter,
         PutYielder, YieldPut, Left, Goto, At, mutexVars
    <3> QED BY <3>1 DEF Still
  <2>2. CASE \E t \in Threads : LockBlock(w, t) \/ TimedYield(w, t)
    <3> TAKE th \in Threads
    <3>1. PICK t \in Threads : LockBlock(w, t) \/ TimedYield(w, t)
      BY <2>2
    <3>2. /\ pc[t] = "lock_block" /\ cond' = cond
          /\ pc' = [pc EXCEPT ![t] = "mutex_sleep", ![w] = "swap"]
      BY <3>1, OwnPCs DEF LockBlock, TimedYield, Block, Yield, Leave, mutexVars,
         LockingPCs, MarkingPCs, UnlockPCs
    <3> QED BY <1>0, <3>2 DEF Still
  <2> QED BY <1>1, <2>1, <2>2 DEF WorkerStep
<1>2. ASSUME NEW t \in Threads, ThreadStep(t) PROVE \A th \in Threads : Still(th)
  <2>0. pc[t] \in LockingPCs \cup MarkingPCs \cup UnlockPCs \cup {"idle", "held"}
    BY OwnPCs
  <2>1. CASE LockRead(t) \/ LockTake(t) \/ LockSeat(t) \/ LockRetry(t)
    <3>1. /\ pc[t] \in {"lock_read", "lock_cas"} /\ cond' = cond
          /\ \E to \in {"lock_read", "lock_cas", "lock_block", "held"} :
                pc' = [pc EXCEPT ![t] = to]
      BY <2>0, <2>1 DEF LockRead, LockTake, LockSeat, LockRetry, ReadPCs, CASPCs, AfterRead,
         BeforeCAS, Goto, At, LockingPCs, MarkingPCs, UnlockPCs
    <3> QED BY <1>0, <3>1 DEF Still
  <2>2. CASE TryBusy(t) \/ TimedOut(t) \/ TimedRetry(t) \/ TimedNoYield(t) \/ BroadcastPush(t)
    BY <2>0, <2>2 DEF TryBusy, TimedOut, TimedRetry, TimedNoYield, BroadcastPush, Goto, At,
       LockingPCs, MarkingPCs, UnlockPCs
  <2>3. CASE SignalPush(t)
    <3>1. /\ pc[t] = "signal_push" /\ pc' = [pc EXCEPT ![t] = then[t]]
          /\ cond' = [cond EXCEPT ![t] = NULL] /\ then[t] = "held"
      BY <2>3 DEF SignalPush, WakeReturn, Goto, At, AllPlaces, Places, MarkingPCs
    <3> QED BY <1>0, <3>1 DEF Still
  <2> QED BY <1>2, <2>1, <2>2, <2>3 DEF ThreadStep
<1>3. ASSUME UnlockStep(a) PROVE \A th \in Threads : Still(th)
  <2> TAKE th \in Threads
  <2>1. CASE UnlockDequeue(a)
    <3> DEFINE h == Head(sleepq)
    <3>1. /\ sleepq # <<>> /\ cond' = cond /\ pc[a] = "unlock_dequeue"
          /\ pc' = [pc EXCEPT ![a] = "unlock_clear", ![h] = "lock_read"]
      BY <2>1 DEF UnlockDequeue, Dequeue, At
    <3>2. h \in Threads /\ pc[h] = "mutex_sleep"
      <4>1. sleepq \in Seq(Threads)
        BY DEF IInv, TypeOK
      <4>2. h = sleepq[1] /\ 1 \in 1 .. Len(sleepq) /\ h \in Threads
        BY <3>1, <4>1
      <4> QED BY <1>0, <4>2 DEF QueuesOK, Sleeping
    <3> HIDE DEF h
    <3> QED BY <1>0, <3>1, <3>2 DEF Still
  <2>2. CASE UnlockRead(a) \/ UnlockSeat(a) \/ UnlockFree(a) \/ UnlockRetry(a)
             \/ UnlockClear(a) \/ UnlockPush(a)
    <3>1. /\ pc[a] \in UnlockPCs /\ cond' = cond
          /\ \E to \in UnlockPCs \cup {Unlocked(a)} : pc' = [pc EXCEPT ![a] = to]
      BY <2>2 DEF UnlockRead, UnlockSeat, UnlockFree, UnlockRetry, UnlockClear, UnlockPush,
         Goto, At, UnlockPCs
    <3> QED BY <1>0, <3>1 DEF Still, Unlocked, UnlockPCs
  <2> QED BY <1>3, <2>1, <2>2 DEF UnlockStep
<1> QED BY <1>1, <1>2, <1>3 DEF RuntimeStep

LEMMA RuntimeHeard ==
    ASSUME IInv, FEInv, Heard, NEW a \in Agents, RuntimeStep(a), UNCHANGED feVars
    PROVE  Heard'
<1>1. CASE \E t \in Threads : WakeNobody(t) \/ WakeDequeue(t)
  BY <1>1, WakeHeard
<1>2. CASE \A t \in Threads : ~(WakeNobody(t) \/ WakeDequeue(t))
  <2>1. \A th \in Threads : Still(th)
    BY <1>2, OthersAreStill DEF FEInv, AllPlaces
  <2> QED BY <2>1, StillHeard DEF feVars
<1> QED BY <1>1, <1>2

\* Entering: who comes is a comer, and who waits does not wait for the status
\* that is.
LEMMA WaitHeard ==
    ASSUME FELockAssumption, IInv, FEInv, Heard, NEW w \in Workers, NEW th \in Threads,
           WaitAndLock(th) \/ WaitForStatus(w, th)
    PROVE  Heard'
<1>0. /\ pc \in [Agents -> ThreadPCs \cup UnlockPCs \cup WorkerPCs]
      /\ cond \in [Threads -> Conds \cup {NULL}]
      /\ Threads \subseteq Agents /\ Workers \subseteq Agents \ Threads
      /\ FETypes /\ NULL \notin Statuses /\ CondsOK /\ HeardOK
  BY BlockingAssumption
  DEF FELockAssumption, IInv, TypeOK, Agents, FEInv, Statuses, Heard
<1>1. /\ UNCHANGED <<status, calls>>
      /\ \A o \in Threads \ {th} :
            pc'[o] = pc[o] /\ awaited'[o] = awaited[o] /\ cond'[o] = cond[o]
      /\ pc[th] = "idle" \/ (pc[th] = "held" /\ awaited[th] # NULL /\ awaited[th] # status)
      /\ \/ pc'[th] = "lock_read"
         \/ /\ pc'[th] = "cond_sleep" /\ cond'[th] = awaited'[th]
            /\ awaited'[th] = awaited[th] /\ awaited'[th] # status
  <2>1. CASE WaitAndLock(th)
    BY <1>0, <2>1 DEF WaitAndLock, LockBegin, Goto, At, FETypes, mutexVars
  <2>2. CASE WaitForStatus(w, th)
    <3>1. /\ pc[th] = "held" /\ UNCHANGED <<status, awaited, calls>>
          /\ awaited[th] \in Statuses /\ status # awaited[th]
          /\ pc' = [pc EXCEPT ![th] = "cond_sleep", ![w] = "swap"]
          /\ cond' = [cond EXCEPT ![th] = awaited[th]]
      BY <2>2 DEF WaitForStatus, WaitBlock, Block, Leave, feVars
    <3> QED BY <1>0, <3>1
  <2> QED BY <2>1, <2>2
<1>2. CondsOK'
  BY <1>0, <1>1 DEF CondsOK
<1>3. Waiters(status)' = Waiters(status) /\ Comers(status) \subseteq Comers(status)'
  <2>1. th \notin Waiters(status) /\ th \notin Waiters(status)' 
    BY <1>1 DEF Waiters
  <2>2. th \in Comers(status) => th \in Comers(status)'
    <3>1. pc[th] = "idle" => awaited[th] = NULL
      BY DEF FEInv, Places, LockingPCs
    <3> QED BY <1>0, <1>1, <3>1 DEF Comers, FETypes
  <2> QED BY <1>1, <2>1, <2>2 DEF Waiters, Comers
<1>4. \A o \in Threads : WillSignal(o) => WillSignal(o)'
  BY <1>1 DEF WillSignal, Takes
<1> QED BY <1>0, <1>2, <1>3, <1>4 DEF Heard, HeardOK

\* The thread that has got the status is the one that will change it.
LEMMA ReachedHeard ==
    ASSUME FELockAssumption, FEInv, Heard, NEW th \in Threads, StatusReached(th)
    PROVE  Heard'
<1>1. /\ UNCHANGED <<pc, cond, status, calls>>
      /\ pc[th] = "held" /\ awaited[th] = status
      /\ awaited' = [awaited EXCEPT ![th] = NULL]
  BY DEF StatusReached, vars, mutexVars, At
<1>2. /\ awaited \in [Threads -> Statuses \cup {NULL}] /\ status \in Statuses
      /\ NULL \notin Statuses
      /\ awaited[th] = IF Takes(th) THEN 1 ELSE 0
  BY <1>1 DEF FEInv, FETypes, Places, FELockAssumption, Statuses
<1>3. WillSignal(th)'
  BY <1>1, <1>2 DEF WillSignal, Takes
<1>4. CondsOK'
  BY <1>1, <1>2 DEF Heard, CondsOK
<1> QED BY <1>3, <1>4 DEF Heard, HeardOK

\* A thread that has changed the status is about to signal that.
LEMMA MarkHeard ==
    ASSUME IInv, FEInv, Heard, NEW th \in Threads, MarkAndSignal(th)
    PROVE  Heard'
<1>0. /\ pc \in [Agents -> ThreadPCs \cup UnlockPCs \cup WorkerPCs]
      /\ cond \in [Threads -> Conds \cup {NULL}]
      /\ Threads \subseteq Agents /\ AllPlaces
  BY DEF IInv, TypeOK, Agents, FEInv, AllPlaces
<1>1. /\ awaited' = awaited /\ awaited[th] = NULL /\ pc[th] = "held"
      /\ pc' = [pc EXCEPT ![th] = "signal"] /\ cond' = [cond EXCEPT ![th] = status']
  BY DEF MarkAndSignal, SignalBegin, WakeBegin, Goto, At
<1>2. WillSignal(th)'
  BY <1>0, <1>1 DEF WillSignal
<1>3. \A o \in Threads \ {th} : pc[o] # "signal"
  <2>1. Holds(th)
    BY <1>1 DEF Holds
  <2>2. \A o \in Threads \ {th} : ~Inside(o)
    BY <1>0, <2>1, OneInside
  <2>3. \A o \in Threads : pc[o] = "signal" => Inside(o)
    BY <1>0 DEF AllPlaces, Places, Inside, MarkingPCs, LockingPCs
  <2> QED BY <2>2, <2>3
<1>4. CondsOK'
  BY <1>0, <1>1, <1>3 DEF Heard, CondsOK
<1> QED BY <1>2, <1>4 DEF Heard, HeardOK

\* A thread that has signalled may leave.
LEMMA UnlockHeard ==
    ASSUME IInv, FEInv, Heard, NEW th \in Threads, MarkedUnlock(th)
    PROVE  Heard'
<1>0. /\ pc \in [Agents -> ThreadPCs \cup UnlockPCs \cup WorkerPCs]
      /\ Threads \subseteq Agents /\ FETypes
  BY DEF IInv, TypeOK, Agents, FEInv
<1>1. /\ UNCHANGED <<cond, status, awaited>>
      /\ pc[th] = "held" /\ pc' = [pc EXCEPT ![th] = "unlock_read"]
      /\ awaited[th] = NULL /\ status = (IF Takes(th) THEN 0 ELSE 1)
      /\ calls' = [calls EXCEPT ![th] = @ + 1]
  BY DEF MarkedUnlock, UnlockBegin, Goto, At, mutexVars
<1>2. CondsOK'
  BY <1>0, <1>1 DEF Heard, CondsOK
<1>3. Waiters(status)' = Waiters(status) /\ Comers(status)' = Comers(status)
  BY <1>0, <1>1 DEF Waiters, Comers
<1>4. \A o \in Threads : WillSignal(o) => WillSignal(o)'
  BY <1>0, <1>1 DEF WillSignal, Takes, FETypes
<1> QED BY <1>2, <1>3, <1>4 DEF Heard, HeardOK

LEMMA HeardStep ==
    ASSUME FELockAssumption, IInv, FEInv, Heard, [FENext]_allVars PROVE Heard'
<1>1. ASSUME UNCHANGED <<pc, cond, status, awaited, calls>> PROVE Heard'
  <2>1. \A th \in Threads : Still(th)
    BY <1>1 DEF Still
  <2> QED BY <1>1, <2>1, StillHeard
<1>2. UNCHANGED allVars => Heard'
  BY <1>1 DEF allVars, vars, mutexVars, feVars
<1>3. ASSUME NEW w \in Workers, NEW th \in Threads, Finish(w, th) PROVE Heard'
  BY <1>1, <1>3 DEF Finish, mutexVars, feVars
<1> QED
  BY <1>2, <1>3, RuntimeHeard, WaitHeard, ReachedHeard, MarkHeard, UnlockHeard
  DEF FENext, FEStep

(***************************************************************************)
(* Nobody sleeps for a status that is there: when the mutex is free and    *)
(* threads wait in myth_felock_wait_and_lock for the status it has, one    *)
(* that waits for it too is awake and will lock.  So each mark_and_signal  *)
(* of tests/myth_felock.c reaches its waiters, although it wakes one only  *)
(* and others may come before that one.                                    *)
(***************************************************************************)
THEOREM NobodyLeftWaiting ==
    ASSUME FELockAssumption
    PROVE  FESpec => [](~IsLocked(state) /\ Waiters(status) # {} => Comers(status) # {})
<1>1. FEInit => IInv /\ FEInv /\ Heard
  BY InitIInv, InitFE, InitHeard DEF FEInit
<1>2. IInv /\ FEInv /\ Heard /\ [FENext]_allVars => IInv' /\ FEInv' /\ Heard'
  BY MutexKept, FEStepKeeps, HeardStep
<1>3. IInv /\ FEInv /\ Heard =>
        (~IsLocked(state) /\ Waiters(status) # {} => Comers(status) # {})
  <2> SUFFICES ASSUME IInv, FEInv, Heard, ~IsLocked(state), Waiters(status) # {},
                      NEW th \in Threads, WillSignal(th)
               PROVE  FALSE
    BY DEF Heard, HeardOK
  <2>1. Inside(th) /\ AllPlaces
    BY DEF WillSignal, Inside, MarkingPCs, FEInv, AllPlaces
  <2>2. th \in Agents /\ Holds(th)
    BY <2>1, InsideHolds DEF Agents
  <2> QED BY <2>2 DEF IInv, MutexOK, StateCounts
<1> QED BY <1>1, <1>2, <1>3, PTL DEF FESpec
=============================================================================
