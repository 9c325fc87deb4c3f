---------------------------- MODULE ThreadsProofs ----------------------------
(***************************************************************************)
(* The safety of creation, switching, join, detach and exit, and the life  *)
(* of a descriptor as ThreadLife describes it, for any number of threads   *)
(* and workers.                                                            *)
(***************************************************************************)
EXTENDS Threads, TLAPS

-----------------------------------------------------------------------------
(* The inductive invariant                                                 *)

\* Worker w has thread th: in its queue, in its hands, or about to be.
Has(w, th) ==
    \/ th \in queue[w]
    \/ th = next[w]
    \/ th = this[w] /\ pc[w] # "unlock"

IsFree(th) == th \in fresh \/ \E w \in Workers : th \in free[w]

\* Thread th has taken its own lock for the last time.
Exiting(th) == this[env[th]] = th /\ pc[env[th]] \in {"exit", "publish", "free"}

\* What a worker has in hand depends on what it executes.
ShapeOK ==
    \A w \in Workers :
        /\ this[w] = NULL <=> pc[w] = "sched"
        /\ pc[w] \in {"sched", "run"} => next[w] = NULL
        /\ next[w] # NULL => next[w] # this[w]

\* A thread is with its env only, and in one place there; ...
EnvOK ==
    /\ \A w \in Workers, th \in Threads : Has(w, th) => env[th] = w
    /\ \A w \in Workers :
        /\ next[w] \notin queue[w]
        /\ pc[w] # "unlock" => this[w] \notin queue[w]

\* ... a free descriptor is with nobody, and in one list.
FreeOK ==
    /\ \A w \in Workers, th \in Threads : Has(w, th) => ~IsFree(th)
    /\ \A w \in Workers : free[w] \cap fresh = {}
    /\ \A v, w \in Workers : v # w => free[v] \cap free[w] = {}

\* The status says what the place does.
StatusOK ==
    \A w \in Workers :
        /\ \A th \in Threads : th \in queue[w] \/ th = next[w] => status[th] = "ready"
        /\ pc[w] \notin {"sched", "unlock"} =>
               status[this[w]] = IF pc[w] = "join" THEN "blocked" ELSE "ready"

\* A target is a thread that is not freed yet, and nobody else will free it.
TargetsOK ==
    /\ \A th \in Threads : call[th] = "user" <=> target[th] = NULL
    /\ \A th \in Threads : target[th] # NULL =>
        /\ ~IsFree(th)
        /\ ~IsFree(target[th]) /\ target[th] \in claimed /\ ~detached[target[th]]
    /\ \A p, q \in Threads : target[p] # NULL /\ target[p] = target[q] => p = q
    /\ \A th \in Threads : detached[th] /\ ~IsFree(th) => th \in claimed

\* Who is over, or is going to be, joins nobody any more.
CallsOK ==
    /\ \A th \in Threads : status[th] = "finished" => call[th] = "user"
    /\ \A w \in Workers :
        /\ pc[w] \in {"exit", "publish", "free"} => call[this[w]] = "user"
        /\ pc[w] = "join" => call[this[w]] = "wait"
        /\ pc[w] = "free" => detached[this[w]]

\* A joiner that is published sleeps, with no worker, until its target exits.
JoinersOK ==
    \A d \in Threads :
        joiner[d] # NULL /\ ~IsFree(d) /\ status[d] # "finished" /\ ~Exiting(d) =>
            /\ target[joiner[d]] = d
            /\ status[joiner[d]] = "blocked"
            /\ \A w \in Workers : ~Has(w, joiner[d])

LocksOK ==
    /\ HoldsItsLock
    /\ \A th \in fresh : lock[th] = NULL

IInv ==
    /\ TypeOK /\ ShapeOK /\ EnvOK /\ FreeOK /\ StatusOK
    /\ TargetsOK /\ CallsOK /\ JoinersOK /\ LocksOK

-----------------------------------------------------------------------------
(* Facts the actions rest on                                               *)

\* The thread whose code or callback worker w executes is nowhere else.
LEMMA Alone ==
    ASSUME IInv, NEW w \in Workers, pc[w] \notin {"sched", "unlock"}
    PROVE  /\ this[w] \in Threads /\ ~IsFree(this[w]) /\ env[this[w]] = w
           /\ status[this[w]] = IF pc[w] = "join" THEN "blocked" ELSE "ready"
           /\ \A v \in Workers : this[v] = this[w] /\ v # w => pc[v] = "unlock"
           /\ \A v \in Workers : next[v] # this[w] /\ this[w] \notin queue[v]
<1> USE ThreadsAssumption
<1>1. this[w] \in Threads
  BY DEF IInv, TypeOK, ShapeOK
<1>2. Has(w, this[w])
  BY DEF Has
<1>3. env[this[w]] = w /\ ~IsFree(this[w])
  BY <1>1, <1>2 DEF IInv, EnvOK, FreeOK
<1>4. \A v \in Workers : Has(v, this[w]) => v = w
  BY <1>1, <1>3 DEF IInv, EnvOK
<1>5. next[w] # this[w] /\ this[w] \notin queue[w]
  BY <1>1 DEF IInv, ShapeOK, EnvOK
<1> QED BY <1>1, <1>3, <1>4, <1>5 DEF Has, IInv, StatusOK

\* A thread that is created was free, with nobody, and is free no more.
LEMMA New ==
    ASSUME IInv, NEW w \in Workers, NEW d \in Threads, NewDesc(w, d)
    PROVE  /\ IsFree(d) /\ \A v \in Workers : ~Has(v, d)
           /\ \A th \in Threads : IsFree(th)' <=> IsFree(th) /\ th # d
           /\ \A th \in Threads : th # d => lock'[th] = lock[th]
           /\ lock'[d] = lock[d]
           /\ free' \in [Workers -> SUBSET Threads] /\ fresh' \subseteq fresh
           /\ \A v \in Workers : free'[v] \subseteq free[v]
           /\ lock' \in [Threads -> Workers \cup {NULL}]
<1> USE ThreadsAssumption
<1>1. IsFree(d)
  BY DEF NewDesc, IsFree
<1>2. \A v \in Workers : ~Has(v, d)
  BY <1>1 DEF IInv, FreeOK
<1>3. /\ free' \in [Workers -> SUBSET Threads] /\ fresh' \subseteq fresh
      /\ \A v \in Workers : free'[v] \subseteq free[v]
      /\ \A th \in Threads : th # d => lock'[th] = lock[th]
      /\ lock'[d] = lock[d]
      /\ lock' \in [Threads -> Workers \cup {NULL}]
  <2>1. /\ free' \in [Workers -> SUBSET Threads] /\ fresh' \subseteq fresh
        /\ \A v \in Workers : free'[v] \subseteq free[v]
    <3>1. free \in [Workers -> SUBSET Threads]
      BY DEF IInv, TypeOK
    <3>2. CASE free' = [free EXCEPT ![w] = @ \ {d}] /\ fresh' = fresh
      BY <3>1, <3>2
    <3>3. CASE free' = free /\ fresh' = fresh \ {d}
      BY <3>1, <3>3
    <3> QED BY <3>2, <3>3 DEF NewDesc
  <2>2. d \in fresh => lock[d] = NULL
    BY DEF IInv, LocksOK
  <2>3. lock \in [Threads -> Workers \cup {NULL}]
    BY DEF IInv, TypeOK
  <2>4. lock' = lock
    BY <2>2, <2>3 DEF NewDesc
  <2> QED BY <2>1, <2>3, <2>4
<1>a. /\ free \in [Workers -> SUBSET Threads]
      /\ \A v \in Workers : free[v] \cap fresh = {}
      /\ \A u, v \in Workers : u # v => free[u] \cap free[v] = {}
  BY DEF IInv, TypeOK, FreeOK
<1>4. ASSUME NEW th \in Threads
      PROVE  IsFree(th)' <=> IsFree(th) /\ th # d
  <2>1. CASE d \in free[w] /\ free' = [free EXCEPT ![w] = @ \ {d}] /\ UNCHANGED <<fresh, lock>>
    <3>1. \A v \in Workers : th \in free'[v] <=> th \in free[v] /\ ~(v = w /\ th = d)
      BY <1>a, <2>1
    <3>2. /\ d \notin fresh
          /\ \A v \in Workers : d \in free[v] => v = w
      BY <1>a, <2>1
    <3> QED BY <2>1, <3>1, <3>2 DEF IsFree
  <2>2. CASE d \in fresh /\ fresh' = fresh \ {d} /\ UNCHANGED free
    <3>1. \A v \in Workers : d \notin free[v]
      BY <1>a, <2>2
    <3> QED BY <2>2, <3>1 DEF IsFree
  <2> QED BY <2>1, <2>2 DEF NewDesc
<1> QED BY <1>1, <1>2, <1>3, <1>4

\* A joiner that its target finds sleeps with no worker.
LEMMA Sleeps ==
    ASSUME IInv, NEW w \in Workers, pc[w] = "run", joiner[this[w]] # NULL
    PROVE  LET j == joiner[this[w]] IN
           /\ j \in Threads /\ target[j] = this[w] /\ status[j] = "blocked"
           /\ ~IsFree(j) /\ call[j] # "user"
           /\ \A v \in Workers : ~Has(v, j)
<1>1. this[w] \in Threads /\ ~IsFree(this[w]) /\ env[this[w]] = w /\ status[this[w]] = "ready"
  BY Alone
<1>2. ~Exiting(this[w])
  BY <1>1 DEF Exiting
<1>3. joiner[this[w]] \in Threads
  BY <1>1 DEF IInv, TypeOK
<1> QED BY <1>1, <1>2, <1>3, ThreadsAssumption DEF IInv, JoinersOK, TargetsOK

\* A thread that is over is with nobody.
LEMMA Finished ==
    ASSUME IInv, NEW d \in Threads, status[d] = "finished"
    PROVE  /\ \A w \in Workers : ~Has(w, d)
           /\ target[d] = NULL
<1> USE ThreadsAssumption
<1>1. ASSUME NEW w \in Workers, Has(w, d) PROVE FALSE
  BY <1>1 DEF IInv, Has, StatusOK, ShapeOK
<1>2. target[d] = NULL
  BY DEF IInv, CallsOK, TargetsOK
<1> QED BY <1>1, <1>2

-----------------------------------------------------------------------------
(* Every action keeps the invariant                                        *)

\* A thread goes from a queue to the worker that found it.
LEMMA ResumeKeeps ==
    ASSUME IInv, NEW w \in Workers, Resume(w)
    PROVE  IInv'
<1> USE ThreadsAssumption
<1>0. /\ TypeOK /\ ShapeOK /\ EnvOK /\ FreeOK /\ StatusOK
      /\ TargetsOK /\ CallsOK /\ JoinersOK /\ LocksOK
  BY DEF IInv
<1>1. TypeOK'
  BY <1>0 DEF Resume, Take, EnvSet, listVars, clientVars, TypeOK
<1>2. ShapeOK'
  BY <1>0 DEF Resume, Take, EnvSet, listVars, clientVars, TypeOK, ShapeOK
<1>3. EnvOK'
  BY <1>0 DEF Resume, Take, EnvSet, listVars, clientVars, TypeOK, ShapeOK, EnvOK, Has
<1>4. FreeOK'
  BY <1>0 DEF Resume, Take, EnvSet, listVars, clientVars, TypeOK, ShapeOK, FreeOK,
     Has, IsFree
<1>5. StatusOK'
  BY <1>0 DEF Resume, Take, EnvSet, listVars, clientVars, TypeOK, ShapeOK, StatusOK
<1>6. TargetsOK'
  BY <1>0 DEF Resume, Take, EnvSet, listVars, clientVars, TypeOK, ShapeOK, TargetsOK,
     IsFree
<1>7. CallsOK'
  BY <1>0 DEF Resume, Take, EnvSet, listVars, clientVars, TypeOK, ShapeOK, CallsOK
<1>8. JoinersOK'
  BY <1>0 DEF Resume, Take, EnvSet, listVars, clientVars, TypeOK, ShapeOK, EnvOK, Has,
     JoinersOK, IsFree, Exiting
<1>9. LocksOK'
  BY <1>0 DEF Resume, Take, EnvSet, listVars, clientVars, TypeOK, ShapeOK, LocksOK,
     HoldsItsLock
<1> QED BY <1>1, <1>2, <1>3, <1>4, <1>5, <1>6, <1>7, <1>8, <1>9 DEF IInv

\* A free descriptor goes to the worker, which leaves its thread for it.
LEMMA CreateChildFirstKeeps ==
    ASSUME IInv, NEW w \in Workers, NEW d \in Threads, CreateChildFirst(w, d)
    PROVE  IInv'
<1> USE ThreadsAssumption
<1>0. /\ TypeOK /\ ShapeOK /\ EnvOK /\ FreeOK /\ StatusOK
      /\ TargetsOK /\ CallsOK /\ JoinersOK /\ LocksOK
  BY DEF IInv
<1>a. /\ pc[w] = "run" /\ this[w] \in Threads /\ this[w] # d /\ ~IsFree(this[w]) /\ env[this[w]] = w
      /\ IsFree(d) /\ (\A v \in Workers : ~Has(v, d)) /\ target[d] = NULL
      /\ \A th \in Threads : IsFree(th)' <=> IsFree(th) /\ th # d
      /\ fresh' \subseteq fresh /\ \A v \in Workers : free'[v] \subseteq free[v]
      /\ free' \in [Workers -> SUBSET Threads] /\ lock' \in [Threads -> Workers \cup {NULL}]
      /\ \A th \in Threads : lock'[th] = lock[th]
  BY <1>0, New, Alone DEF CreateChildFirst, Runs, TargetsOK
<1>1. TypeOK'
  BY <1>0, <1>a DEF CreateChildFirst, InitThread, Leave, TypeOK, Callbacks
<1>2. ShapeOK'
  BY <1>0, <1>a DEF CreateChildFirst, InitThread, Leave, TypeOK, Callbacks, ShapeOK
<1>3. EnvOK'
  BY <1>0, <1>a DEF CreateChildFirst, InitThread, Leave, TypeOK, Callbacks, ShapeOK,
     EnvOK, Has
<1>4. FreeOK'
  BY <1>0, <1>a DEF CreateChildFirst, InitThread, Leave, TypeOK, Callbacks, ShapeOK,
     FreeOK, Has, IsFree
<1>5. StatusOK'
  BY <1>0, <1>a DEF CreateChildFirst, InitThread, Leave, TypeOK, Callbacks, ShapeOK,
     EnvOK, Has, StatusOK
<1>6. TargetsOK'
  BY <1>0, <1>a DEF CreateChildFirst, InitThread, Leave, TypeOK, Callbacks, ShapeOK,
     TargetsOK, IsFree
<1>7. CallsOK'
  BY <1>0, <1>a DEF CreateChildFirst, InitThread, Leave, TypeOK, Callbacks, ShapeOK,
     EnvOK, Has, StatusOK, CallsOK
<1>8. JoinersOK'
  BY <1>0, <1>a DEF CreateChildFirst, InitThread, Leave, TypeOK, Callbacks, ShapeOK,
     EnvOK, Has, JoinersOK, IsFree, Exiting
<1>9. LocksOK'
  BY <1>0, <1>a DEF CreateChildFirst, InitThread, Leave, TypeOK, Callbacks, ShapeOK,
     LocksOK, HoldsItsLock
<1> QED BY <1>1, <1>2, <1>3, <1>4, <1>5, <1>6, <1>7, <1>8, <1>9 DEF IInv

\* The creator goes to the queue of its worker.
LEMMA CreateCallbackKeeps ==
    ASSUME IInv, NEW w \in Workers, CreateCallback(w)
    PROVE  IInv'
<1> USE ThreadsAssumption
<1>0. /\ TypeOK /\ ShapeOK /\ EnvOK /\ FreeOK /\ StatusOK
      /\ TargetsOK /\ CallsOK /\ JoinersOK /\ LocksOK
  BY DEF IInv
<1>a. this[w] \in Threads
  BY Alone DEF CreateCallback
<1>1. TypeOK'
  BY <1>0, <1>a DEF CreateCallback, Arrive, descVars, listVars, clientVars, TypeOK
<1>2. ShapeOK'
  BY <1>0, <1>a DEF CreateCallback, Arrive, descVars, listVars, clientVars, TypeOK,
     ShapeOK
<1>3. EnvOK'
  BY <1>0, <1>a DEF CreateCallback, Arrive, descVars, listVars, clientVars, TypeOK,
     ShapeOK, EnvOK, Has
<1>4. FreeOK'
  BY <1>0, <1>a DEF CreateCallback, Arrive, descVars, listVars, clientVars, TypeOK,
     ShapeOK, FreeOK, Has, IsFree
<1>5. StatusOK'
  BY <1>0, <1>a DEF CreateCallback, Arrive, descVars, listVars, clientVars, TypeOK,
     ShapeOK, StatusOK
<1>6. TargetsOK'
  BY <1>0, <1>a DEF CreateCallback, Arrive, descVars, listVars, clientVars, TypeOK,
     ShapeOK, TargetsOK, IsFree
<1>7. CallsOK'
  BY <1>0, <1>a DEF CreateCallback, Arrive, descVars, listVars, clientVars, TypeOK,
     ShapeOK, CallsOK
<1>8. JoinersOK'
  BY <1>0, <1>a DEF CreateCallback, Arrive, descVars, listVars, clientVars, TypeOK,
     ShapeOK, EnvOK, Has, JoinersOK, IsFree, Exiting
<1>9. LocksOK'
  BY <1>0, <1>a DEF CreateCallback, Arrive, descVars, listVars, clientVars, TypeOK,
     ShapeOK, LocksOK, HoldsItsLock
<1> QED BY <1>1, <1>2, <1>3, <1>4, <1>5, <1>6, <1>7, <1>8, <1>9 DEF IInv

\* A free descriptor goes to the queue of the worker.
LEMMA CreateParentFirstKeeps ==
    ASSUME IInv, NEW w \in Workers, NEW d \in Threads, CreateParentFirst(w, d)
    PROVE  IInv'
<1> USE ThreadsAssumption
<1>0. /\ TypeOK /\ ShapeOK /\ EnvOK /\ FreeOK /\ StatusOK
      /\ TargetsOK /\ CallsOK /\ JoinersOK /\ LocksOK
  BY DEF IInv
<1>a. /\ pc[w] = "run" /\ this[w] \in Threads /\ this[w] # d /\ ~IsFree(this[w]) /\ env[this[w]] = w
      /\ IsFree(d) /\ (\A v \in Workers : ~Has(v, d)) /\ target[d] = NULL
      /\ \A th \in Threads : IsFree(th)' <=> IsFree(th) /\ th # d
      /\ fresh' \subseteq fresh /\ \A v \in Workers : free'[v] \subseteq free[v]
      /\ free' \in [Workers -> SUBSET Threads] /\ lock' \in [Threads -> Workers \cup {NULL}]
      /\ \A th \in Threads : lock'[th] = lock[th]
  BY <1>0, New, Alone DEF CreateParentFirst, Runs, TargetsOK
<1>1. TypeOK'
  BY <1>0, <1>a DEF CreateParentFirst, InitThread, TypeOK
<1>2. ShapeOK'
  BY <1>0, <1>a DEF CreateParentFirst, InitThread, TypeOK, ShapeOK
<1>3. EnvOK'
  BY <1>0, <1>a DEF CreateParentFirst, InitThread, TypeOK, ShapeOK, EnvOK, Has
<1>4. FreeOK'
  BY <1>0, <1>a DEF CreateParentFirst, InitThread, TypeOK, ShapeOK, FreeOK, Has, IsFree
<1>5. StatusOK'
  BY <1>0, <1>a DEF CreateParentFirst, InitThread, TypeOK, ShapeOK, EnvOK, Has, StatusOK
<1>6. TargetsOK'
  <2>1. call' = [call EXCEPT ![d] = "user"] /\ target' = target
        /\ claimed' = claimed \ {d} /\ detached' = [detached EXCEPT ![d] = FALSE]
    BY DEF CreateParentFirst, InitThread
  <2>2. \A th \in Threads : (call[th] = "user")' <=> (target[th] = NULL)'
    BY <1>0, <1>a, <2>1 DEF TypeOK, TargetsOK
  <2>3. \A th \in Threads : target[th] # NULL => th # d /\ target[th] # d
    BY <1>0, <1>a DEF TargetsOK
  <2>4. \A th \in Threads : target'[th] # NULL =>
          /\ ~IsFree(th)'
          /\ ~IsFree(target[th])' /\ target'[th] \in claimed' /\ ~detached'[target'[th]]
    BY <1>0, <1>a, <2>1, <2>3 DEF TypeOK, TargetsOK
  <2>5. \A th \in Threads : detached'[th] /\ ~IsFree(th)' => th \in claimed'
    BY <1>0, <1>a, <2>1 DEF TypeOK, TargetsOK
  <2> QED BY <1>0, <2>1, <2>2, <2>4, <2>5 DEF TargetsOK
<1>7. CallsOK'
  BY <1>0, <1>a DEF CreateParentFirst, InitThread, TypeOK, ShapeOK, EnvOK, Has,
     StatusOK, CallsOK
<1>8. JoinersOK'
  BY <1>0, <1>a DEF CreateParentFirst, InitThread, TypeOK, ShapeOK, EnvOK, Has,
     StatusOK, TargetsOK, IsFree, JoinersOK, Exiting
<1>9. LocksOK'
  BY <1>0, <1>a DEF CreateParentFirst, InitThread, TypeOK, ShapeOK, LocksOK, HoldsItsLock
<1> QED BY <1>1, <1>2, <1>3, <1>4, <1>5, <1>6, <1>7, <1>8, <1>9 DEF IInv

\* A thread goes from a queue to the worker, which leaves its own for it.
LEMMA YieldKeeps ==
    ASSUME IInv, NEW w \in Workers, Yield(w)
    PROVE  IInv'
<1> USE ThreadsAssumption
<1>0. /\ TypeOK /\ ShapeOK /\ EnvOK /\ FreeOK /\ StatusOK
      /\ TargetsOK /\ CallsOK /\ JoinersOK /\ LocksOK
  BY DEF IInv
<1>1. TypeOK'
  BY <1>0 DEF Yield, Runs, Take, EnvSet, Leave, listVars, clientVars, TypeOK, Callbacks
<1>2. ShapeOK'
  BY <1>0 DEF Yield, Runs, Take, EnvSet, Leave, listVars, clientVars, TypeOK,
     Callbacks, ShapeOK, EnvOK, Has
<1>3. EnvOK'
  BY <1>0 DEF Yield, Runs, Take, EnvSet, Leave, listVars, clientVars, TypeOK,
     Callbacks, ShapeOK, EnvOK, Has
<1>4. FreeOK'
  BY <1>0 DEF Yield, Runs, Take, EnvSet, Leave, listVars, clientVars, TypeOK,
     Callbacks, ShapeOK, FreeOK, Has, IsFree
<1>5. StatusOK'
  BY <1>0 DEF Yield, Runs, Take, EnvSet, Leave, listVars, clientVars, TypeOK,
     Callbacks, ShapeOK, StatusOK
<1>6. TargetsOK'
  BY <1>0 DEF Yield, Runs, Take, EnvSet, Leave, listVars, clientVars, TypeOK,
     Callbacks, ShapeOK, TargetsOK, IsFree
<1>7. CallsOK'
  BY <1>0 DEF Yield, Runs, Take, EnvSet, Leave, listVars, clientVars, TypeOK,
     Callbacks, ShapeOK, CallsOK
<1>8. JoinersOK'
  BY <1>0 DEF Yield, Runs, Take, EnvSet, Leave, listVars, clientVars, TypeOK,
     Callbacks, ShapeOK, EnvOK, Has, JoinersOK, IsFree, Exiting
<1>9. LocksOK'
  BY <1>0 DEF Yield, Runs, Take, EnvSet, Leave, listVars, clientVars, TypeOK,
     Callbacks, ShapeOK, LocksOK, HoldsItsLock
<1> QED BY <1>1, <1>2, <1>3, <1>4, <1>5, <1>6, <1>7, <1>8, <1>9 DEF IInv

\* The thread that yielded goes to the queue of its worker.
LEMMA YieldCallbackKeeps ==
    ASSUME IInv, NEW w \in Workers, YieldCallback(w)
    PROVE  IInv'
<1> USE ThreadsAssumption
<1>0. /\ TypeOK /\ ShapeOK /\ EnvOK /\ FreeOK /\ StatusOK
      /\ TargetsOK /\ CallsOK /\ JoinersOK /\ LocksOK
  BY DEF IInv
<1>a. this[w] \in Threads
  BY Alone DEF YieldCallback
<1>1. TypeOK'
  BY <1>0, <1>a DEF YieldCallback, EnvSet, Arrive, listVars, clientVars, TypeOK
<1>2. ShapeOK'
  BY <1>0, <1>a DEF YieldCallback, EnvSet, Arrive, listVars, clientVars, TypeOK, ShapeOK
<1>3. EnvOK'
  BY <1>0, <1>a DEF YieldCallback, EnvSet, Arrive, listVars, clientVars, TypeOK,
     ShapeOK, EnvOK, Has
<1>4. FreeOK'
  BY <1>0, <1>a DEF YieldCallback, EnvSet, Arrive, listVars, clientVars, TypeOK,
     ShapeOK, FreeOK, Has, IsFree
<1>5. StatusOK'
  BY <1>0, <1>a DEF YieldCallback, EnvSet, Arrive, listVars, clientVars, TypeOK,
     ShapeOK, StatusOK
<1>6. TargetsOK'
  BY <1>0, <1>a DEF YieldCallback, EnvSet, Arrive, listVars, clientVars, TypeOK,
     ShapeOK, TargetsOK, IsFree
<1>7. CallsOK'
  BY <1>0, <1>a DEF YieldCallback, EnvSet, Arrive, listVars, clientVars, TypeOK,
     ShapeOK, CallsOK
<1>8. JoinersOK'
  BY <1>0, <1>a DEF YieldCallback, EnvSet, Arrive, listVars, clientVars, TypeOK,
     ShapeOK, EnvOK, Has, JoinersOK, IsFree, Exiting
<1>9. LocksOK'
  BY <1>0, <1>a DEF YieldCallback, EnvSet, Arrive, listVars, clientVars, TypeOK,
     ShapeOK, LocksOK, HoldsItsLock
<1> QED BY <1>1, <1>2, <1>3, <1>4, <1>5, <1>6, <1>7, <1>8, <1>9 DEF IInv

\* A thread claims one that is over, which nobody else will free.
LEMMA JoinFinishedKeeps ==
    ASSUME IInv, NEW w \in Workers, NEW d \in Threads, JoinFinished(w, d)
    PROVE  IInv'
<1> USE ThreadsAssumption
<1>0. /\ TypeOK /\ ShapeOK /\ EnvOK /\ FreeOK /\ StatusOK
      /\ TargetsOK /\ CallsOK /\ JoinersOK /\ LocksOK
  BY DEF IInv
<1>a. /\ this[w] \in Threads /\ status[this[w]] = "ready"
      /\ \A v \in Workers : this[v] = this[w] /\ v # w => pc[v] = "unlock"
  BY Alone DEF JoinFinished, Claims, Runs
<1>1. TypeOK'
  BY <1>0, <1>a DEF JoinFinished, Claims, Runs, Free, workerVars, descVars, listVars,
     TypeOK
<1>2. ShapeOK'
  BY <1>0, <1>a DEF JoinFinished, Claims, Runs, Free, workerVars, descVars, listVars,
     TypeOK, ShapeOK
<1>3. EnvOK'
  BY <1>0, <1>a DEF JoinFinished, Claims, Runs, Free, workerVars, descVars, listVars,
     TypeOK, ShapeOK, EnvOK, Has
<1>4. FreeOK'
  BY <1>0, <1>a DEF JoinFinished, Claims, Runs, Free, workerVars, descVars, listVars,
     TypeOK, ShapeOK, FreeOK, Has, IsFree
<1>5. StatusOK'
  BY <1>0, <1>a DEF JoinFinished, Claims, Runs, Free, workerVars, descVars, listVars,
     TypeOK, ShapeOK, StatusOK
<1>6. TargetsOK'
  BY <1>0, <1>a DEF JoinFinished, Claims, Runs, Free, workerVars, descVars, listVars,
     TypeOK, ShapeOK, EnvOK, Has, FreeOK, IsFree, TargetsOK
<1>7. CallsOK'
  BY <1>0, <1>a DEF JoinFinished, Claims, Runs, Free, workerVars, descVars, listVars,
     TypeOK, ShapeOK, CallsOK
<1>8. JoinersOK'
  BY <1>0, <1>a DEF JoinFinished, Claims, Runs, Free, workerVars, descVars, listVars,
     TypeOK, ShapeOK, EnvOK, Has, JoinersOK, IsFree, Exiting
<1>9. LocksOK'
  BY <1>0, <1>a DEF JoinFinished, Claims, Runs, Free, workerVars, descVars, listVars,
     TypeOK, ShapeOK, LocksOK, HoldsItsLock
<1> QED BY <1>1, <1>2, <1>3, <1>4, <1>5, <1>6, <1>7, <1>8, <1>9 DEF IInv

\* A thread claims one that is not, whose lock it takes.
LEMMA JoinBlockKeeps ==
    ASSUME IInv, NEW w \in Workers, NEW d \in Threads, JoinBlock(w, d)
    PROVE  IInv'
<1> USE ThreadsAssumption
<1>0. /\ TypeOK /\ ShapeOK /\ EnvOK /\ FreeOK /\ StatusOK
      /\ TargetsOK /\ CallsOK /\ JoinersOK /\ LocksOK
  BY DEF IInv
<1>a. this[w] \in Threads
  BY Alone DEF JoinBlock, Claims, Runs
<1>1. TypeOK'
  BY <1>0, <1>a DEF JoinBlock, Claims, Runs, Free, Take, PopNone, EnvSet, Leave,
     listVars, TypeOK, Callbacks
<1>2. ShapeOK'
  BY <1>0, <1>a DEF JoinBlock, Claims, Runs, Free, Take, PopNone, EnvSet, Leave,
     listVars, TypeOK, Callbacks, ShapeOK, EnvOK, Has
<1>3. EnvOK'
  BY <1>0, <1>a DEF JoinBlock, Claims, Runs, Free, Take, PopNone, EnvSet, Leave,
     listVars, TypeOK, Callbacks, ShapeOK, EnvOK, Has
<1>4. FreeOK'
  BY <1>0, <1>a DEF JoinBlock, Claims, Runs, Free, Take, PopNone, EnvSet, Leave,
     listVars, TypeOK, Callbacks, ShapeOK, FreeOK, Has, IsFree
<1>5. StatusOK'
  BY <1>0, <1>a DEF JoinBlock, Claims, Runs, Free, Take, PopNone, EnvSet, Leave,
     listVars, TypeOK, Callbacks, ShapeOK, EnvOK, Has, StatusOK
<1>6. TargetsOK'
  BY <1>0, <1>a DEF JoinBlock, Claims, Runs, Free, Take, PopNone, EnvSet, Leave,
     listVars, TypeOK, Callbacks, ShapeOK, EnvOK, Has, FreeOK, IsFree, TargetsOK
<1>7. CallsOK'
  BY <1>0, <1>a DEF JoinBlock, Claims, Runs, Free, Take, PopNone, EnvSet, Leave,
     listVars, TypeOK, Callbacks, ShapeOK, EnvOK, Has, StatusOK, CallsOK
<1>8. JoinersOK'
  BY <1>0, <1>a DEF JoinBlock, Claims, Runs, Free, Take, PopNone, EnvSet, Leave,
     listVars, TypeOK, Callbacks, ShapeOK, EnvOK, Has, StatusOK, TargetsOK, IsFree,
     JoinersOK, Exiting
<1>9. LocksOK'
  BY <1>0, <1>a DEF JoinBlock, Claims, Runs, Free, Take, PopNone, EnvSet, Leave,
     listVars, TypeOK, Callbacks, ShapeOK, EnvOK, Has, LocksOK, HoldsItsLock
<1> QED BY <1>1, <1>2, <1>3, <1>4, <1>5, <1>6, <1>7, <1>8, <1>9 DEF IInv

\* The joiner is with nobody from now on, as its target tells.
LEMMA JoinCallbackKeeps ==
    ASSUME IInv, NEW w \in Workers, JoinCallback(w)
    PROVE  IInv'
<1> USE ThreadsAssumption
<1>0. /\ TypeOK /\ ShapeOK /\ EnvOK /\ FreeOK /\ StatusOK
      /\ TargetsOK /\ CallsOK /\ JoinersOK /\ LocksOK
  BY DEF IInv
<1>1. TypeOK'
  BY <1>0 DEF JoinCallback, Arrive, listVars, clientVars, TypeOK
<1>2. ShapeOK'
  BY <1>0 DEF JoinCallback, Arrive, listVars, clientVars, TypeOK, ShapeOK
<1>3. EnvOK'
  BY <1>0 DEF JoinCallback, Arrive, listVars, clientVars, TypeOK, ShapeOK, EnvOK, Has
<1>4. FreeOK'
  BY <1>0 DEF JoinCallback, Arrive, listVars, clientVars, TypeOK, ShapeOK, FreeOK,
     Has, IsFree
<1>5. StatusOK'
  BY <1>0 DEF JoinCallback, Arrive, listVars, clientVars, TypeOK, ShapeOK, StatusOK
<1>6. TargetsOK'
  BY <1>0 DEF JoinCallback, Arrive, listVars, clientVars, TypeOK, ShapeOK, TargetsOK,
     IsFree
<1>7. CallsOK'
  BY <1>0 DEF JoinCallback, Arrive, listVars, clientVars, TypeOK, ShapeOK, CallsOK
<1>8. JoinersOK'
  BY <1>0 DEF JoinCallback, Arrive, listVars, clientVars, TypeOK, ShapeOK, EnvOK, Has,
     StatusOK, TargetsOK, IsFree, JoinersOK, Exiting
<1>9. LocksOK'
  BY <1>0 DEF JoinCallback, Arrive, listVars, clientVars, TypeOK, ShapeOK, LocksOK,
     HoldsItsLock
<1> QED BY <1>1, <1>2, <1>3, <1>4, <1>5, <1>6, <1>7, <1>8, <1>9 DEF IInv

\* The joiner is back on a worker.
LEMMA JoinResumedKeeps ==
    ASSUME IInv, NEW w \in Workers, JoinResumed(w)
    PROVE  IInv'
<1> USE ThreadsAssumption
<1>0. /\ TypeOK /\ ShapeOK /\ EnvOK /\ FreeOK /\ StatusOK
      /\ TargetsOK /\ CallsOK /\ JoinersOK /\ LocksOK
  BY DEF IInv
<1>1. TypeOK'
  BY <1>0 DEF JoinResumed, Runs, workerVars, descVars, listVars, TypeOK
<1>2. ShapeOK'
  BY <1>0 DEF JoinResumed, Runs, workerVars, descVars, listVars, TypeOK, ShapeOK
<1>3. EnvOK'
  BY <1>0 DEF JoinResumed, Runs, workerVars, descVars, listVars, TypeOK, ShapeOK,
     EnvOK, Has
<1>4. FreeOK'
  BY <1>0 DEF JoinResumed, Runs, workerVars, descVars, listVars, TypeOK, ShapeOK,
     FreeOK, Has, IsFree
<1>5. StatusOK'
  BY <1>0 DEF JoinResumed, Runs, workerVars, descVars, listVars, TypeOK, ShapeOK, StatusOK
<1>6. TargetsOK'
  BY <1>0 DEF JoinResumed, Runs, workerVars, descVars, listVars, TypeOK, ShapeOK,
     TargetsOK, IsFree
<1>7. CallsOK'
  BY <1>0 DEF JoinResumed, Runs, workerVars, descVars, listVars, TypeOK, ShapeOK,
     EnvOK, Has, StatusOK, CallsOK
<1>8. JoinersOK'
  BY <1>0 DEF JoinResumed, Runs, workerVars, descVars, listVars, TypeOK, ShapeOK,
     EnvOK, Has, JoinersOK, IsFree, Exiting
<1>9. LocksOK'
  BY <1>0 DEF JoinResumed, Runs, workerVars, descVars, listVars, TypeOK, ShapeOK,
     LocksOK, HoldsItsLock
<1> QED BY <1>1, <1>2, <1>3, <1>4, <1>5, <1>6, <1>7, <1>8, <1>9 DEF IInv

\* The target goes to a list: it was with nobody, and no target of others.
LEMMA ReapKeeps ==
    ASSUME IInv, NEW w \in Workers, Reap(w)
    PROVE  IInv'
<1> USE ThreadsAssumption
<1>0. /\ TypeOK /\ ShapeOK /\ EnvOK /\ FreeOK /\ StatusOK
      /\ TargetsOK /\ CallsOK /\ JoinersOK /\ LocksOK
  BY DEF IInv
<1>a. /\ this[w] \in Threads /\ target[this[w]] \in Threads /\ target[this[w]] # this[w]
      /\ target[target[this[w]]] = NULL /\ \A v \in Workers : ~Has(v, target[this[w]])
  BY <1>0, Alone, Finished DEF Reap, Runs, TypeOK, TargetsOK
<1>1. TypeOK'
  BY <1>0, <1>a DEF Reap, Runs, workerVars, descVars, TypeOK
<1>2. ShapeOK'
  BY <1>0, <1>a DEF Reap, Runs, workerVars, descVars, TypeOK, ShapeOK
<1>3. EnvOK'
  BY <1>0, <1>a DEF Reap, Runs, workerVars, descVars, TypeOK, ShapeOK, EnvOK, Has
<1>4. FreeOK'
  BY <1>0, <1>a DEF Reap, Runs, workerVars, descVars, TypeOK, ShapeOK, EnvOK, Has,
     FreeOK, IsFree, StatusOK, TargetsOK, JoinersOK, Exiting
<1>5. StatusOK'
  BY <1>0, <1>a DEF Reap, Runs, workerVars, descVars, TypeOK, ShapeOK, StatusOK
<1>6. TargetsOK'
  BY <1>0, <1>a DEF Reap, Runs, workerVars, descVars, TypeOK, ShapeOK, TargetsOK, IsFree
<1>7. CallsOK'
  BY <1>0, <1>a DEF Reap, Runs, workerVars, descVars, TypeOK, ShapeOK, CallsOK
<1>8. JoinersOK'
  BY <1>0, <1>a DEF Reap, Runs, workerVars, descVars, TypeOK, ShapeOK, EnvOK, Has,
     JoinersOK, IsFree, Exiting
<1>9. LocksOK'
  BY <1>0, <1>a DEF Reap, Runs, workerVars, descVars, TypeOK, ShapeOK, EnvOK, Has,
     LocksOK, HoldsItsLock
<1> QED BY <1>1, <1>2, <1>3, <1>4, <1>5, <1>6, <1>7, <1>8, <1>9 DEF IInv

\* The thread goes to a list: it was over, and nobody had claimed it.
LEMMA DetachFinishedKeeps ==
    ASSUME IInv, NEW w \in Workers, NEW d \in Threads, DetachFinished(w, d)
    PROVE  IInv'
<1> USE ThreadsAssumption
<1>0. /\ TypeOK /\ ShapeOK /\ EnvOK /\ FreeOK /\ StatusOK
      /\ TargetsOK /\ CallsOK /\ JoinersOK /\ LocksOK
  BY DEF IInv
<1>1. TypeOK'
  BY <1>0 DEF DetachFinished, Claims, Runs, Free, workerVars, descVars, TypeOK
<1>2. ShapeOK'
  BY <1>0 DEF DetachFinished, Claims, Runs, Free, workerVars, descVars, TypeOK, ShapeOK
<1>3. EnvOK'
  BY <1>0 DEF DetachFinished, Claims, Runs, Free, workerVars, descVars, TypeOK,
     ShapeOK, EnvOK, Has
<1>4. FreeOK'
  <2>1. ~IsFree(d) /\ status[d] = "finished"
    BY DEF DetachFinished, Claims, Free, IsFree
  <2>2. \A v \in Workers : ~Has(v, d)
    BY <1>0, <2>1 DEF ShapeOK, StatusOK, Has
  <2>3. /\ free' = [free EXCEPT ![w] = @ \cup {d}] /\ fresh' = fresh
        /\ free \in [Workers -> SUBSET Threads]
        /\ \A v \in Workers, th \in Threads : Has(v, th)' <=> Has(v, th)
    BY <1>0 DEF DetachFinished, workerVars, Has, TypeOK
  <2>4. \A th \in Threads : IsFree(th)' <=> IsFree(th) \/ th = d
    BY <2>3 DEF IsFree
  <2>5. \A v \in Workers : d \notin free[v] /\ d \notin fresh
    BY <2>1 DEF IsFree
  <2>6. /\ \A v \in Workers : free'[v] \cap fresh' = {}
        /\ \A u, v \in Workers : u # v => free'[u] \cap free'[v] = {}
    BY <1>0, <2>3, <2>5 DEF FreeOK
  <2> QED BY <1>0, <2>2, <2>3, <2>4, <2>6 DEF FreeOK
<1>5. StatusOK'
  BY <1>0 DEF DetachFinished, Claims, Runs, Free, workerVars, descVars, TypeOK,
     ShapeOK, StatusOK
<1>6. TargetsOK'
  BY <1>0 DEF DetachFinished, Claims, Runs, Free, workerVars, descVars, TypeOK,
     ShapeOK, EnvOK, Has, FreeOK, IsFree, StatusOK, TargetsOK, CallsOK
<1>7. CallsOK'
  BY <1>0 DEF DetachFinished, Claims, Runs, Free, workerVars, descVars, TypeOK,
     ShapeOK, CallsOK
<1>8. JoinersOK'
  BY <1>0 DEF DetachFinished, Claims, Runs, Free, workerVars, descVars, TypeOK,
     ShapeOK, EnvOK, Has, JoinersOK, IsFree, Exiting
<1>9. LocksOK'
  BY <1>0 DEF DetachFinished, Claims, Runs, Free, workerVars, descVars, TypeOK,
     ShapeOK, LocksOK, HoldsItsLock
<1> QED BY <1>1, <1>2, <1>3, <1>4, <1>5, <1>6, <1>7, <1>8, <1>9 DEF IInv

\* A thread that was not claimed will free itself.
LEMMA DetachKeeps ==
    ASSUME IInv, NEW w \in Workers, NEW d \in Threads, Detach(w, d)
    PROVE  IInv'
<1> USE ThreadsAssumption
<1>0. /\ TypeOK /\ ShapeOK /\ EnvOK /\ FreeOK /\ StatusOK
      /\ TargetsOK /\ CallsOK /\ JoinersOK /\ LocksOK
  BY DEF IInv
<1>1. TypeOK'
  BY <1>0 DEF Detach, Claims, Runs, Free, workerVars, listVars, TypeOK
<1>2. ShapeOK'
  BY <1>0 DEF Detach, Claims, Runs, Free, workerVars, listVars, TypeOK, ShapeOK
<1>3. EnvOK'
  BY <1>0 DEF Detach, Claims, Runs, Free, workerVars, listVars, TypeOK, ShapeOK,
     EnvOK, Has
<1>4. FreeOK'
  BY <1>0 DEF Detach, Claims, Runs, Free, workerVars, listVars, TypeOK, ShapeOK,
     FreeOK, Has, IsFree
<1>5. StatusOK'
  BY <1>0 DEF Detach, Claims, Runs, Free, workerVars, listVars, TypeOK, ShapeOK, StatusOK
<1>6. TargetsOK'
  BY <1>0 DEF Detach, Claims, Runs, Free, workerVars, listVars, TypeOK, ShapeOK,
     TargetsOK, IsFree
<1>7. CallsOK'
  BY <1>0 DEF Detach, Claims, Runs, Free, workerVars, listVars, TypeOK, ShapeOK, CallsOK
<1>8. JoinersOK'
  BY <1>0 DEF Detach, Claims, Runs, Free, workerVars, listVars, TypeOK, ShapeOK,
     EnvOK, Has, JoinersOK, IsFree, Exiting
<1>9. LocksOK'
  BY <1>0 DEF Detach, Claims, Runs, Free, workerVars, listVars, TypeOK, ShapeOK,
     LocksOK, HoldsItsLock
<1> QED BY <1>1, <1>2, <1>3, <1>4, <1>5, <1>6, <1>7, <1>8, <1>9 DEF IInv

\* The joiner slept, with nobody, and is now with the worker.
LEMMA ExitToJoinerKeeps ==
    ASSUME IInv, NEW w \in Workers, ExitToJoiner(w)
    PROVE  IInv'
<1> USE ThreadsAssumption
<1>0. /\ TypeOK /\ ShapeOK /\ EnvOK /\ FreeOK /\ StatusOK
      /\ TargetsOK /\ CallsOK /\ JoinersOK /\ LocksOK
  BY DEF IInv
<1>a. /\ this[w] \in Threads
      /\ joiner[this[w]] \in Threads
      /\ env[this[w]] = w
      /\ joiner[this[w]] # this[w]
      /\ ~IsFree(this[w])
      /\ ~IsFree(joiner[this[w]])
      /\ target[joiner[this[w]]] = this[w]
      /\ status[joiner[this[w]]] = "blocked"
      /\ \A v \in Workers : ~Has(v, joiner[this[w]])
      /\ \A v \in Workers : this[v] = this[w] /\ v # w => pc[v] = "unlock"
  BY Alone, Sleeps DEF ExitToJoiner, Runs, Has
<1>1. TypeOK'
  BY <1>0, <1>a DEF ExitToJoiner, Runs, EnvSet, Leave, listVars, clientVars, TypeOK,
     Callbacks
<1>2. ShapeOK'
  BY <1>0, <1>a DEF ExitToJoiner, Runs, EnvSet, Leave, listVars, clientVars, TypeOK,
     Callbacks, ShapeOK
<1>3. EnvOK'
  BY <1>0, <1>a DEF ExitToJoiner, Runs, EnvSet, Leave, listVars, clientVars, TypeOK,
     Callbacks, ShapeOK, EnvOK, Has
<1>4. FreeOK'
  BY <1>0, <1>a DEF ExitToJoiner, Runs, EnvSet, Leave, listVars, clientVars, TypeOK,
     Callbacks, ShapeOK, FreeOK, Has, IsFree
<1>5. StatusOK'
  BY <1>0, <1>a DEF ExitToJoiner, Runs, EnvSet, Leave, listVars, clientVars, TypeOK,
     Callbacks, ShapeOK, EnvOK, Has, StatusOK
<1>6. TargetsOK'
  BY <1>0, <1>a DEF ExitToJoiner, Runs, EnvSet, Leave, listVars, clientVars, TypeOK,
     Callbacks, ShapeOK, TargetsOK, IsFree
<1>7. CallsOK'
  BY <1>0, <1>a DEF ExitToJoiner, Runs, EnvSet, Leave, listVars, clientVars, TypeOK,
     Callbacks, ShapeOK, CallsOK
<1>8. JoinersOK'
  BY <1>0, <1>a DEF ExitToJoiner, Runs, EnvSet, Leave, listVars, clientVars, TypeOK,
     Callbacks, ShapeOK, EnvOK, Has, JoinersOK, IsFree, Exiting
<1>9. LocksOK'
  BY <1>0, <1>a DEF ExitToJoiner, Runs, EnvSet, Leave, listVars, clientVars, TypeOK,
     Callbacks, ShapeOK, EnvOK, Has, FreeOK, IsFree, TargetsOK, CallsOK, LocksOK,
     HoldsItsLock
<1> QED BY <1>1, <1>2, <1>3, <1>4, <1>5, <1>6, <1>7, <1>8, <1>9 DEF IInv

\* The worker takes its lock and the next thread, out of its own queue.
LEMMA ExitKeeps ==
    ASSUME IInv, NEW w \in Workers, Exit(w)
    PROVE  IInv'
<1> USE ThreadsAssumption
<1>0. /\ TypeOK /\ ShapeOK /\ EnvOK /\ FreeOK /\ StatusOK
      /\ TargetsOK /\ CallsOK /\ JoinersOK /\ LocksOK
  BY DEF IInv
<1>a. this[w] \in Threads /\ env[this[w]] = w
  BY Alone DEF Exit, Runs
<1>1. TypeOK'
  BY <1>0, <1>a DEF Exit, Runs, Take, PopNone, Leave, listVars, clientVars, TypeOK,
     Callbacks
<1>2. ShapeOK'
  BY <1>0, <1>a DEF Exit, Runs, Take, PopNone, Leave, listVars, clientVars, TypeOK,
     Callbacks, ShapeOK, EnvOK, Has
<1>3. EnvOK'
  BY <1>0, <1>a DEF Exit, Runs, Take, PopNone, Leave, listVars, clientVars, TypeOK,
     Callbacks, ShapeOK, EnvOK, Has
<1>4. FreeOK'
  BY <1>0, <1>a DEF Exit, Runs, Take, PopNone, Leave, listVars, clientVars, TypeOK,
     Callbacks, ShapeOK, FreeOK, Has, IsFree
<1>5. StatusOK'
  BY <1>0, <1>a DEF Exit, Runs, Take, PopNone, Leave, listVars, clientVars, TypeOK,
     Callbacks, ShapeOK, StatusOK
<1>6. TargetsOK'
  BY <1>0, <1>a DEF Exit, Runs, Take, PopNone, Leave, listVars, clientVars, TypeOK,
     Callbacks, ShapeOK, TargetsOK, IsFree
<1>7. CallsOK'
  BY <1>0, <1>a DEF Exit, Runs, Take, PopNone, Leave, listVars, clientVars, TypeOK,
     Callbacks, ShapeOK, CallsOK
<1>8. JoinersOK'
  BY <1>0, <1>a DEF Exit, Runs, Take, PopNone, Leave, listVars, clientVars, TypeOK,
     Callbacks, ShapeOK, EnvOK, Has, JoinersOK, IsFree, Exiting
<1>9. LocksOK'
  BY <1>0, <1>a DEF Exit, Runs, Take, PopNone, Leave, listVars, clientVars, TypeOK,
     Callbacks, ShapeOK, EnvOK, Has, FreeOK, IsFree, TargetsOK, CallsOK, LocksOK,
     HoldsItsLock
<1> QED BY <1>1, <1>2, <1>3, <1>4, <1>5, <1>6, <1>7, <1>8, <1>9 DEF IInv

\* Only the callback goes on.
LEMMA ExitNotDetachedKeeps ==
    ASSUME IInv, NEW w \in Workers, ExitNotDetached(w)
    PROVE  IInv'
<1> USE ThreadsAssumption
<1>0. /\ TypeOK /\ ShapeOK /\ EnvOK /\ FreeOK /\ StatusOK
      /\ TargetsOK /\ CallsOK /\ JoinersOK /\ LocksOK
  BY DEF IInv
<1>1. TypeOK'
  BY <1>0 DEF ExitNotDetached, descVars, listVars, clientVars, TypeOK, Callbacks
<1>2. ShapeOK'
  BY <1>0 DEF ExitNotDetached, descVars, listVars, clientVars, TypeOK, Callbacks, ShapeOK
<1>3. EnvOK'
  BY <1>0 DEF ExitNotDetached, descVars, listVars, clientVars, TypeOK, Callbacks,
     ShapeOK, EnvOK, Has
<1>4. FreeOK'
  BY <1>0 DEF ExitNotDetached, descVars, listVars, clientVars, TypeOK, Callbacks,
     ShapeOK, FreeOK, Has, IsFree
<1>5. StatusOK'
  BY <1>0 DEF ExitNotDetached, descVars, listVars, clientVars, TypeOK, Callbacks,
     ShapeOK, StatusOK
<1>6. TargetsOK'
  BY <1>0 DEF ExitNotDetached, descVars, listVars, clientVars, TypeOK, Callbacks,
     ShapeOK, TargetsOK, IsFree
<1>7. CallsOK'
  BY <1>0 DEF ExitNotDetached, descVars, listVars, clientVars, TypeOK, Callbacks,
     ShapeOK, CallsOK
<1>8. JoinersOK'
  BY <1>0 DEF ExitNotDetached, descVars, listVars, clientVars, TypeOK, Callbacks,
     ShapeOK, EnvOK, Has, JoinersOK, IsFree, Exiting
<1>9. LocksOK'
  BY <1>0 DEF ExitNotDetached, descVars, listVars, clientVars, TypeOK, Callbacks,
     ShapeOK, LocksOK, HoldsItsLock
<1> QED BY <1>1, <1>2, <1>3, <1>4, <1>5, <1>6, <1>7, <1>8, <1>9 DEF IInv

\* The thread is over and with nobody; its lock is still held.
LEMMA ExitPublishKeeps ==
    ASSUME IInv, NEW w \in Workers, ExitPublish(w)
    PROVE  IInv'
<1> USE ThreadsAssumption
<1>0. /\ TypeOK /\ ShapeOK /\ EnvOK /\ FreeOK /\ StatusOK
      /\ TargetsOK /\ CallsOK /\ JoinersOK /\ LocksOK
  BY DEF IInv
<1>1. TypeOK'
  BY <1>0 DEF ExitPublish, listVars, clientVars, TypeOK, Callbacks
<1>2. ShapeOK'
  BY <1>0 DEF ExitPublish, listVars, clientVars, TypeOK, Callbacks, ShapeOK
<1>3. EnvOK'
  BY <1>0 DEF ExitPublish, listVars, clientVars, TypeOK, Callbacks, ShapeOK, EnvOK, Has
<1>4. FreeOK'
  BY <1>0 DEF ExitPublish, listVars, clientVars, TypeOK, Callbacks, ShapeOK, FreeOK,
     Has, IsFree
<1>5. StatusOK'
  BY <1>0 DEF ExitPublish, listVars, clientVars, TypeOK, Callbacks, ShapeOK, EnvOK,
     Has, StatusOK
<1>6. TargetsOK'
  BY <1>0 DEF ExitPublish, listVars, clientVars, TypeOK, Callbacks, ShapeOK,
     TargetsOK, IsFree
<1>7. CallsOK'
  BY <1>0 DEF ExitPublish, listVars, clientVars, TypeOK, Callbacks, ShapeOK, CallsOK
<1>8. JoinersOK'
  BY <1>0 DEF ExitPublish, listVars, clientVars, TypeOK, Callbacks, ShapeOK, EnvOK,
     Has, JoinersOK, IsFree, Exiting
<1>9. LocksOK'
  BY <1>0 DEF ExitPublish, listVars, clientVars, TypeOK, Callbacks, ShapeOK, LocksOK,
     HoldsItsLock
<1> QED BY <1>1, <1>2, <1>3, <1>4, <1>5, <1>6, <1>7, <1>8, <1>9 DEF IInv

\* The callback holds the lock that it releases.
LEMMA ExitUnlockKeeps ==
    ASSUME IInv, NEW w \in Workers, ExitUnlock(w)
    PROVE  IInv'
<1> USE ThreadsAssumption
<1>0. /\ TypeOK /\ ShapeOK /\ EnvOK /\ FreeOK /\ StatusOK
      /\ TargetsOK /\ CallsOK /\ JoinersOK /\ LocksOK
  BY DEF IInv
<1>1. TypeOK'
  BY <1>0 DEF ExitUnlock, Arrive, listVars, clientVars, TypeOK
<1>2. ShapeOK'
  BY <1>0 DEF ExitUnlock, Arrive, listVars, clientVars, TypeOK, ShapeOK
<1>3. EnvOK'
  BY <1>0 DEF ExitUnlock, Arrive, listVars, clientVars, TypeOK, ShapeOK, EnvOK, Has
<1>4. FreeOK'
  BY <1>0 DEF ExitUnlock, Arrive, listVars, clientVars, TypeOK, ShapeOK, FreeOK, Has,
     IsFree
<1>5. StatusOK'
  BY <1>0 DEF ExitUnlock, Arrive, listVars, clientVars, TypeOK, ShapeOK, StatusOK
<1>6. TargetsOK'
  BY <1>0 DEF ExitUnlock, Arrive, listVars, clientVars, TypeOK, ShapeOK, TargetsOK, IsFree
<1>7. CallsOK'
  BY <1>0 DEF ExitUnlock, Arrive, listVars, clientVars, TypeOK, ShapeOK, CallsOK
<1>8. JoinersOK'
  BY <1>0 DEF ExitUnlock, Arrive, listVars, clientVars, TypeOK, ShapeOK, EnvOK, Has,
     JoinersOK, IsFree, Exiting
<1>9. LocksOK'
  BY <1>0 DEF ExitUnlock, Arrive, listVars, clientVars, TypeOK, ShapeOK, LocksOK,
     HoldsItsLock
<1> QED BY <1>1, <1>2, <1>3, <1>4, <1>5, <1>6, <1>7, <1>8, <1>9 DEF IInv

\* The callback holds the lock that it releases.
LEMMA ExitDetachedKeeps ==
    ASSUME IInv, NEW w \in Workers, ExitDetached(w)
    PROVE  IInv'
<1> USE ThreadsAssumption
<1>0. /\ TypeOK /\ ShapeOK /\ EnvOK /\ FreeOK /\ StatusOK
      /\ TargetsOK /\ CallsOK /\ JoinersOK /\ LocksOK
  BY DEF IInv
<1>1. TypeOK'
  BY <1>0 DEF ExitDetached, listVars, clientVars, TypeOK, Callbacks
<1>2. ShapeOK'
  BY <1>0 DEF ExitDetached, listVars, clientVars, TypeOK, Callbacks, ShapeOK
<1>3. EnvOK'
  BY <1>0 DEF ExitDetached, listVars, clientVars, TypeOK, Callbacks, ShapeOK, EnvOK, Has
<1>4. FreeOK'
  BY <1>0 DEF ExitDetached, listVars, clientVars, TypeOK, Callbacks, ShapeOK, FreeOK,
     Has, IsFree
<1>5. StatusOK'
  BY <1>0 DEF ExitDetached, listVars, clientVars, TypeOK, Callbacks, ShapeOK, StatusOK
<1>6. TargetsOK'
  BY <1>0 DEF ExitDetached, listVars, clientVars, TypeOK, Callbacks, ShapeOK,
     TargetsOK, IsFree
<1>7. CallsOK'
  BY <1>0 DEF ExitDetached, listVars, clientVars, TypeOK, Callbacks, ShapeOK, CallsOK
<1>8. JoinersOK'
  BY <1>0 DEF ExitDetached, listVars, clientVars, TypeOK, Callbacks, ShapeOK, EnvOK,
     Has, JoinersOK, IsFree, Exiting
<1>9. LocksOK'
  BY <1>0 DEF ExitDetached, listVars, clientVars, TypeOK, Callbacks, ShapeOK, LocksOK,
     HoldsItsLock
<1> QED BY <1>1, <1>2, <1>3, <1>4, <1>5, <1>6, <1>7, <1>8, <1>9 DEF IInv

\* A detached thread goes to a list: it is no target.
LEMMA ExitFreeKeeps ==
    ASSUME IInv, NEW w \in Workers, ExitFree(w)
    PROVE  IInv'
<1> USE ThreadsAssumption
<1>0. /\ TypeOK /\ ShapeOK /\ EnvOK /\ FreeOK /\ StatusOK
      /\ TargetsOK /\ CallsOK /\ JoinersOK /\ LocksOK
  BY DEF IInv
<1>a. this[w] \in Threads /\ env[this[w]] = w
  BY Alone DEF ExitFree
<1>1. TypeOK'
  BY <1>0, <1>a DEF ExitFree, Arrive, descVars, clientVars, TypeOK
<1>2. ShapeOK'
  BY <1>0, <1>a DEF ExitFree, Arrive, descVars, clientVars, TypeOK, ShapeOK
<1>3. EnvOK'
  BY <1>0, <1>a DEF ExitFree, Arrive, descVars, clientVars, TypeOK, ShapeOK, EnvOK, Has
<1>4. FreeOK'
  BY <1>0, <1>a DEF ExitFree, Arrive, descVars, clientVars, TypeOK, ShapeOK, EnvOK,
     Has, FreeOK, IsFree
<1>5. StatusOK'
  BY <1>0, <1>a DEF ExitFree, Arrive, descVars, clientVars, TypeOK, ShapeOK, StatusOK
<1>6. TargetsOK'
  BY <1>0, <1>a DEF ExitFree, Arrive, descVars, clientVars, TypeOK, ShapeOK, EnvOK,
     Has, FreeOK, IsFree, StatusOK, TargetsOK, CallsOK
<1>7. CallsOK'
  BY <1>0, <1>a DEF ExitFree, Arrive, descVars, clientVars, TypeOK, ShapeOK, CallsOK
<1>8. JoinersOK'
  BY <1>0, <1>a DEF ExitFree, Arrive, descVars, clientVars, TypeOK, ShapeOK, EnvOK,
     Has, JoinersOK, IsFree, Exiting
<1>9. LocksOK'
  BY <1>0, <1>a DEF ExitFree, Arrive, descVars, clientVars, TypeOK, ShapeOK, LocksOK,
     HoldsItsLock
<1> QED BY <1>1, <1>2, <1>3, <1>4, <1>5, <1>6, <1>7, <1>8, <1>9 DEF IInv
-----------------------------------------------------------------------------
(* The invariant holds, and with it what it says                           *)

\* The invariant holds at the start ...
LEMMA InitIInv == Init => IInv
<1> SUFFICES ASSUME Init PROVE IInv
  OBVIOUS
<1> USE ThreadsAssumption DEF Init
<1>1. TypeOK
  BY DEF TypeOK, Callbacks
<1>2. ShapeOK /\ StatusOK /\ CallsOK
  BY DEF ShapeOK, StatusOK, CallsOK
<1>3. EnvOK /\ FreeOK
  BY DEF EnvOK, FreeOK, Has, IsFree
<1>4. TargetsOK /\ JoinersOK /\ LocksOK
  BY DEF TargetsOK, JoinersOK, LocksOK, HoldsItsLock
<1> QED BY <1>1, <1>2, <1>3, <1>4 DEF IInv

\* ... and every step keeps it.
LEMMA NextKeeps == IInv /\ [Next]_vars => IInv'
<1> SUFFICES ASSUME IInv, [Next]_vars PROVE IInv'
  OBVIOUS
<1>1. CASE UNCHANGED vars
  BY <1>1 DEF vars, workerVars, descVars, listVars, clientVars, IInv, TypeOK, ShapeOK,
     EnvOK, FreeOK, StatusOK, TargetsOK, CallsOK, JoinersOK, LocksOK, HoldsItsLock, Has,
     IsFree, Exiting
<1>2. CASE Next
  <2> PICK w \in Workers :
        Create(w) \/ Yield(w) \/ Proceed(w) \/ \E d \in Threads : Claim(w, d)
    BY <1>2 DEF Next
  <2>1. CASE Create(w)
    BY <2>1, CreateChildFirstKeeps, CreateParentFirstKeeps DEF Create
  <2>2. CASE Yield(w)
    BY <2>2, YieldKeeps
  <2>3. CASE Proceed(w)
    BY <2>3, ResumeKeeps, CreateCallbackKeeps, YieldCallbackKeeps, JoinCallbackKeeps,
       JoinResumedKeeps, ReapKeeps, ExitToJoinerKeeps, ExitKeeps, ExitNotDetachedKeeps,
       ExitPublishKeeps, ExitUnlockKeeps, ExitDetachedKeeps, ExitFreeKeeps DEF Proceed
  <2>4. CASE \E d \in Threads : Claim(w, d)
    BY <2>4, JoinFinishedKeeps, JoinBlockKeeps, DetachFinishedKeeps, DetachKeeps DEF Claim
  <2> QED BY <2>1, <2>2, <2>3, <2>4
<1> QED BY <1>1, <1>2

\* Any number of threads and workers: the invariant holds in every state.
THEOREM Invariant == Spec => []IInv
BY InitIInv, NextKeeps, PTL DEF Spec

\* The variables keep their types; in particular, env is never NULL.
THEOREM TypeCorrect == Spec => []TypeOK
<1>1. IInv => TypeOK
  BY DEF IInv
<1> QED BY <1>1, Invariant, PTL

\* The worker that runs a thread, or has it in its queue, is its env, on
\* which myth_entry_point_cleanup relies.
THEOREM EnvIsRight == Spec => []EnvIsWorker
<1>1. IInv => EnvIsWorker
  <2> SUFFICES ASSUME IInv, NEW w \in Workers, NEW th \in queue[w] \cup InHand(w)
               PROVE  env[th] = w
    BY DEF EnvIsWorker
  <2>1. th \in Threads
    BY ThreadsAssumption DEF IInv, TypeOK, InHand, ShapeOK
  <2>2. Has(w, th)
    BY DEF InHand, Has
  <2> QED BY <2>1, <2>2 DEF IInv, EnvOK
<1> QED BY <1>1, Invariant, PTL

\* No thread is with two workers, in two places of one, or freed while it is
\* used; no descriptor is freed twice.
THEOREM UsedOnce == Spec => []OnePlace
<1>1. IInv => OnePlace
  <2> SUFFICES ASSUME IInv PROVE OnePlace
    OBVIOUS
  <2>1. ASSUME NEW w \in Workers, NEW th \in InHand(w) \cup queue[w]
        PROVE  th \in Threads /\ Has(w, th)
    BY <2>1, ThreadsAssumption DEF IInv, TypeOK, InHand, ShapeOK, Has
  <2>2. \A w \in Workers : (InHand(w) \cup queue[w]) \cap Free = {}
    BY <2>1 DEF IInv, FreeOK, IsFree, Free
  <2>3. \A w \in Workers : InHand(w) \cap queue[w] = {} /\ free[w] \cap fresh = {}
    BY ThreadsAssumption DEF IInv, TypeOK, EnvOK, FreeOK, InHand
  <2>4. \A v, w \in Workers : v # w =>
            (InHand(v) \cup queue[v]) \cap (InHand(w) \cup queue[w]) = {}
    BY <2>1 DEF IInv, EnvOK
  <2> QED BY <2>2, <2>3, <2>4 DEF IInv, FreeOK, OnePlace
<1> QED BY <1>1, Invariant, PTL

\* A callback releases no lock but its own, whatever became of the descriptor.
THEOREM LocksHeld == Spec => []HoldsItsLock
<1>1. IInv => HoldsItsLock
  BY DEF IInv, LocksOK
<1> QED BY <1>1, Invariant, PTL

\* The assertions of the scheduler and of the exit hold.
THEOREM NoAbort == Spec => []AssertionsHold
<1>1. IInv => AssertionsHold
  <2> SUFFICES ASSUME IInv PROVE AssertionsHold
    OBVIOUS
  <2>1. ASSUME NEW w \in Workers, NEW th \in (queue[w] \cup {next[w]}) \ {NULL}
        PROVE  status[th] = "ready"
    BY <2>1 DEF IInv, TypeOK, StatusOK
  <2>2. ASSUME NEW w \in Workers, pc[w] = "run", joiner[this[w]] # NULL
        PROVE  status[joiner[this[w]]] = "blocked"
    BY <2>2, Sleeps
  <2> QED BY <2>1, <2>2 DEF AssertionsHold
<1> QED BY <1>1, Invariant, PTL

-----------------------------------------------------------------------------
(* The life of a descriptor                                                *)

LifeOf(th) ==
    IF IsFree(th) THEN "free" ELSE IF status[th] = "finished" THEN "finished" ELSE "running"

\* The life of all, descriptor by descriptor.
LEMMA LifeIs == life = [th \in Threads |-> LifeOf(th)]
BY DEF life, LifeOf, IsFree, Free

\* A step that leaves everybody's life alone; ...
LEMMA LifeSame ==
    ASSUME \A th \in Threads : LifeOf(th)' = LifeOf(th)
    PROVE  life' = life
<1>1. life' = [th \in Threads |-> LifeOf(th)']
  BY DEF life, LifeOf, IsFree, Free
<1> QED BY <1>1, LifeIs

\* ... and one that changes one.
LEMMA LifeChanges ==
    ASSUME NEW d \in Threads, NEW to, LifeOf(d)' = to,
           \A th \in Threads \ {d} : LifeOf(th)' = LifeOf(th)
    PROVE  life' = [life EXCEPT ![d] = to]
<1>1. life' = [th \in Threads |-> LifeOf(th)']
  BY DEF life, LifeOf, IsFree, Free
<1>2. ASSUME NEW th \in Threads PROVE life'[th] = [life EXCEPT ![d] = to][th]
  BY <1>1, LifeIs
<1>3. /\ life' = [th \in Threads |-> life'[th]]
      /\ [life EXCEPT ![d] = to] = [th \in Threads |-> [life EXCEPT ![d] = to][th]]
  BY <1>1, LifeIs
<1> QED BY <1>2, <1>3

\* A descriptor that is put in a list.
LEMMA LifeEnds ==
    ASSUME IInv, NEW w \in Workers, NEW d \in Threads, free' = [free EXCEPT ![w] = @ \cup {d}],
           fresh' = fresh, status' = status
    PROVE  life' = [life EXCEPT ![d] = "free"]
<1>1. LifeOf(d)' = "free" /\ \A th \in Threads \ {d} : LifeOf(th)' = LifeOf(th)
  BY DEF LifeOf, IsFree, IInv, TypeOK
<1> QED BY <1>1, LifeChanges

LifeVars == <<life, claimed>>

\* Whatever happens between creation, claim and end is nobody's business.
LEMMA SwitchesStutter ==
    ASSUME IInv, NEW w \in Workers,
           \/ Resume(w) \/ CreateCallback(w) \/ Yield(w) \/ YieldCallback(w)
           \/ JoinCallback(w) \/ JoinResumed(w) \/ ExitNotDetached(w) \/ ExitUnlock(w)
           \/ ExitDetached(w) \/ Exit(w) \/ ExitToJoiner(w)
    PROVE  UNCHANGED LifeVars
<1>1. claimed' = claimed
  BY DEF Resume, CreateCallback, Yield, YieldCallback, JoinCallback, JoinResumed,
     ExitNotDetached, ExitUnlock, ExitDetached, Exit, ExitToJoiner, clientVars
<1>2. free' = free /\ fresh' = fresh
  BY DEF Resume, CreateCallback, Yield, YieldCallback, JoinCallback, JoinResumed,
     ExitNotDetached, ExitUnlock, ExitDetached, Exit, ExitToJoiner, listVars
<1>3. ASSUME NEW th \in Threads PROVE status'[th] = "finished" <=> status[th] = "finished"
  <2>1. CASE ExitToJoiner(w)
    <3>1. pc[w] = "run" /\ joiner[this[w]] # NULL
      BY <2>1 DEF ExitToJoiner, Runs
    <3>2. status[joiner[this[w]]] = "blocked"
      BY <3>1, Sleeps
    <3>3. status' = [status EXCEPT ![joiner[this[w]]] = "ready"]
      BY <2>1 DEF ExitToJoiner
    <3> QED BY <3>2, <3>3 DEF IInv, TypeOK
  <2>2. CASE ~ExitToJoiner(w)
    BY <2>2 DEF Resume, CreateCallback, Yield, YieldCallback, JoinCallback, JoinResumed,
       ExitNotDetached, ExitUnlock, ExitDetached, Exit, descVars
  <2> QED BY <2>1, <2>2
<1>4. \A th \in Threads : LifeOf(th)' = LifeOf(th)
  BY <1>2, <1>3 DEF LifeOf, IsFree
<1> QED BY <1>1, <1>4, LifeSame DEF LifeVars

\* A new thread starts a new life.
LEMMA CreateLives ==
    ASSUME IInv, NEW w \in Workers, Create(w)
    PROVE  \E d \in Threads : Life!Create(d)
<1>1. PICK d \in Threads : NewDesc(w, d) /\ InitThread(w, d)
  BY DEF Create, CreateChildFirst, CreateParentFirst
<1>2. IsFree(d) /\ \A th \in Threads : IsFree(th)' <=> IsFree(th) /\ th # d
  BY <1>1, New
<1>3. status' = [status EXCEPT ![d] = "ready"] /\ claimed' = claimed \ {d}
  BY <1>1 DEF InitThread
<1>4. LifeOf(d)' = "running" /\ \A th \in Threads \ {d} : LifeOf(th)' = LifeOf(th)
  BY <1>2, <1>3 DEF LifeOf, IInv, TypeOK
<1>5. life' = [life EXCEPT ![d] = "running"]
  BY <1>4, LifeChanges
<1>6. life[d] = "free"
  BY <1>2, LifeIs DEF LifeOf
<1> QED BY <1>3, <1>5, <1>6 DEF Life!Create, Life!Become

\* A join or a detach claims a life, and may end it.
LEMMA ClaimLives ==
    ASSUME IInv, NEW w \in Workers, NEW d \in Threads, Claim(w, d)
    PROVE  Life!Claim(d) \/ Life!ClaimAndReap(d)
<1>1. Claims(w, d)
  BY DEF Claim, JoinFinished, JoinBlock, DetachFinished, Detach
<1>2. ~IsFree(d) /\ d \notin claimed /\ claimed' = claimed \cup {d}
  BY <1>1 DEF Claims, Free, IsFree
<1>3. life[d] # "free"
  BY <1>2, LifeIs DEF LifeOf
<1>4. CASE ~DetachFinished(w, d)
  <2>1. free' = free /\ fresh' = fresh
    BY <1>4 DEF Claim, JoinFinished, JoinBlock, Detach, listVars
  <2>2. this[w] \in Threads /\ status[this[w]] = "ready"
    BY <1>1, Alone DEF Claims, Runs
  <2>3. status' = status \/ status' = [status EXCEPT ![this[w]] = "blocked"]
    BY <1>4 DEF Claim, JoinFinished, JoinBlock, Detach, descVars
  <2>4. \A th \in Threads : LifeOf(th)' = LifeOf(th)
    BY <2>1, <2>2, <2>3 DEF LifeOf, IsFree, IInv, TypeOK
  <2> QED BY <1>2, <1>3, <2>4, LifeSame DEF Life!Claim
<1>5. CASE DetachFinished(w, d)
  <2>1. /\ free' = [free EXCEPT ![w] = @ \cup {d}]
        /\ fresh' = fresh /\ status' = status /\ status[d] = "finished"
    BY <1>5 DEF DetachFinished, descVars
  <2>2. life' = [life EXCEPT ![d] = "free"] /\ life[d] = "finished"
    BY <1>2, <2>1, LifeEnds, LifeIs DEF LifeOf
  <2> QED BY <1>2, <2>2 DEF Life!ClaimAndReap, Life!Become
<1> QED BY <1>4, <1>5

\* The ends of a life: a status, a joiner, or the thread's own callback.
LEMMA EndLives ==
    ASSUME IInv, NEW w \in Workers, ExitPublish(w) \/ Reap(w) \/ ExitFree(w)
    PROVE  \E d \in Threads : Life!Finish(d) \/ Life!Reap(d) \/ Life!FinishDetached(d)
<1>1. pc[w] \notin {"sched", "unlock"}
  BY DEF ExitPublish, Reap, ExitFree, Runs
<1>2. /\ this[w] \in Threads /\ ~IsFree(this[w]) /\ env[this[w]] = w
      /\ status[this[w]] = IF pc[w] = "join" THEN "blocked" ELSE "ready"
  BY <1>1, Alone
<1>3. CASE ExitPublish(w)
  <2>1. /\ status' = [status EXCEPT ![this[w]] = "finished"]
        /\ free' = free /\ fresh' = fresh /\ claimed' = claimed /\ pc[w] = "publish"
    BY <1>3 DEF ExitPublish, listVars, clientVars
  <2>2. /\ LifeOf(this[w]) = "running"
        /\ \A th \in Threads : LifeOf(th)' = IF th = this[w] THEN "finished" ELSE LifeOf(th)
    BY <1>2, <2>1 DEF LifeOf, IsFree, IInv, TypeOK
  <2>3. life' = [life EXCEPT ![this[w]] = "finished"] /\ life[this[w]] = "running"
    BY <1>2, <2>2, LifeChanges, LifeIs
  <2> QED BY <1>2, <2>1, <2>3 DEF Life!Finish, Life!Become
<1>4. CASE Reap(w)
  <2> DEFINE d == target[this[w]]
  <2>1. d \in Threads /\ ~IsFree(d) /\ d \in claimed
    BY <1>2, <1>4 DEF Reap, Runs, IInv, TypeOK, TargetsOK
  <2>2. /\ status[d] = "finished" /\ free' = [free EXCEPT ![w] = @ \cup {d}]
        /\ fresh' = fresh /\ status' = status /\ claimed' = claimed
    BY <1>4 DEF Reap, descVars
  <2> HIDE DEF d
  <2>3. life' = [life EXCEPT ![d] = "free"] /\ life[d] = "finished"
    BY <2>1, <2>2, LifeEnds, LifeIs DEF LifeOf
  <2> QED BY <2>1, <2>2, <2>3 DEF Life!Reap, Life!Become
<1>5. CASE ExitFree(w)
  <2> DEFINE d == this[w]
  <2>1. /\ free' = [free EXCEPT ![w] = @ \cup {d}] /\ pc[w] = "free"
        /\ fresh' = fresh /\ status' = status /\ claimed' = claimed
    BY <1>2, <1>5 DEF ExitFree, descVars, clientVars
  <2>2. d \in claimed
    BY <1>2, <2>1 DEF IInv, CallsOK, TargetsOK
  <2>3. d \in Threads /\ ~IsFree(d) /\ status[d] = "ready"
    BY <1>2, <2>1
  <2> HIDE DEF d
  <2>4. life' = [life EXCEPT ![d] = "free"] /\ life[d] = "running"
    BY <2>1, <2>3, LifeEnds, LifeIs DEF LifeOf
  <2> QED BY <2>1, <2>2, <2>3, <2>4 DEF Life!FinishDetached, Life!Become
<1> QED BY <1>3, <1>4, <1>5

\* The first state and every step are those of ThreadLife.
LEMMA InitLives == Init => Life!Init
<1> SUFFICES ASSUME Init PROVE Life!Init
  OBVIOUS
<1>1. ASSUME NEW th \in Threads PROVE LifeOf(th) = IF th = Main THEN "running" ELSE "free"
  BY DEF Init, LifeOf, IsFree
<1> QED BY <1>1, LifeIs DEF Life!Init, Init

\* A step is one of ThreadLife or leaves every life alone.
LEMMA NextLives == IInv /\ [Next]_vars => [Life!Next]_LifeVars
<1> SUFFICES ASSUME IInv, [Next]_vars PROVE Life!Next \/ UNCHANGED LifeVars
  OBVIOUS
<1>1. CASE UNCHANGED vars
  BY <1>1 DEF vars, workerVars, descVars, listVars, clientVars, LifeVars, life, Free
<1>2. CASE Next
  <2>1. PICK w \in Workers :
        Create(w) \/ Yield(w) \/ Proceed(w) \/ \E d \in Threads : Claim(w, d)
    BY <1>2 DEF Next
  <2>2. CASE Create(w)
    BY <2>2, CreateLives DEF Life!Next
  <2>3. CASE \E d \in Threads : Claim(w, d)
    BY <2>3, ClaimLives DEF Life!Next
  <2>4. CASE ExitPublish(w) \/ Reap(w) \/ ExitFree(w)
    BY <2>4, EndLives DEF Life!Next
  <2>5. CASE Yield(w) \/ (Proceed(w) /\ ~(ExitPublish(w) \/ Reap(w) \/ ExitFree(w)))
    BY <2>5, SwitchesStutter DEF Proceed
  <2> QED BY <2>1, <2>2, <2>3, <2>4, <2>5
<1> QED BY <1>1, <1>2

\* To its users, every execution is one of ThreadLife, however descriptors are
\* reused: created when free, claimed once, freed once and after the end.
THEOREM Implements == Spec => ImplementsThreadLife
BY InitLives, NextLives, Invariant, PTL DEF Spec, ImplementsThreadLife, Life!Spec, LifeVars
=============================================================================
