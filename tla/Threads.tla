------------------------------ MODULE Threads ------------------------------
(***************************************************************************)
(* Creation, exit, join, detach and yield of MassiveThreads threads, with  *)
(* the run queue and the list of free descriptors of each worker, and the  *)
(* descriptors themselves, which are used again and again.                 *)
(*                                                                         *)
(* A thread that gives up its worker does so through a callback, executed  *)
(* by the worker after the switch.  An exiting thread takes the lock of    *)
(* its descriptor before the switch and its callback releases it after, by *)
(* when the descriptor may belong to another thread already; a joining one *)
(* does the same with the lock of the thread it waits for.  What happens   *)
(* between a lock and an unlock with no switch between them is one step.   *)
(*                                                                         *)
(* Any thread may join or detach any other, once, as the interface demands.*)
(***************************************************************************)
EXTENDS Integers, FiniteSets

CONSTANTS
    Threads,    \* the descriptors of threads
    Workers,
    First,      \* the worker that the program starts on
    Main,       \* the descriptor of the main thread, which never exits
    NULL

ASSUME ThreadsAssumption ==
    /\ Main \in Threads /\ First \in Workers
    /\ NULL \notin Threads /\ NULL \notin Workers

VARIABLES
    pc,         \* what each worker executes: its "sched", the code of its
                \* thread ("run"), or a callback
    this,       \* env->this_thread of each worker
    next,       \* the thread that a callback switches to; NULL: the scheduler
    queue,      \* env->runnable_q of each worker
    free,       \* env->freelist_desc of each worker
    fresh,      \* the descriptors the system has not been asked for yet
    env,        \* th->env
    status,     \* th->status
    joiner,     \* th->join_thread
    detached,   \* th->detached
    lock,       \* th->lock: the worker on which it was taken, or NULL
    call,       \* where each thread is: "user" code, "wait" or "spin" in join
    target,     \* the thread that it joins, or NULL
    claimed     \* the threads somebody has joined or detached

workerVars == <<pc, this, next, queue>>
descVars == <<env, status, joiner, detached, lock>>
listVars == <<free, fresh>>
clientVars == <<call, target, claimed>>
vars == <<workerVars, descVars, listVars, clientVars>>

\* The main thread runs; the other workers look for work.
Init ==
    /\ pc = [w \in Workers |-> IF w = First THEN "run" ELSE "sched"]
    /\ this = [w \in Workers |-> IF w = First THEN Main ELSE NULL]
    /\ next = [w \in Workers |-> NULL]
    /\ queue = [w \in Workers |-> {}]
    /\ free = [w \in Workers |-> {}]
    /\ fresh = Threads \ {Main}
    /\ env = [d \in Threads |-> First]
    /\ status = [d \in Threads |-> "ready"]
    /\ joiner = [d \in Threads |-> NULL]
    /\ detached = [d \in Threads |-> FALSE]
    /\ lock = [d \in Threads |-> NULL]
    /\ call = [d \in Threads |-> "user"]
    /\ target = [d \in Threads |-> NULL]
    /\ claimed = {Main}

Free == fresh \cup UNION {free[w] : w \in Workers}
Runs(w, where) == pc[w] = "run" /\ call[this[w]] = where

-----------------------------------------------------------------------------
(* Switching                                                               *)

\* The thread on worker w leaves it for n, which it has popped or stolen.
Leave(w, n, callback) ==
    /\ pc' = [pc EXCEPT ![w] = callback]
    /\ next' = [next EXCEPT ![w] = n]

\* Worker w takes a thread out of the queue of worker v, its own or not; a pop
\* may return NULL although there are threads.
Take(v, n) == n \in queue[v] /\ queue' = [queue EXCEPT ![v] = @ \ {n}]
PopNone(n) == n = NULL /\ UNCHANGED queue
EnvSet(n, w) == env' = IF n = NULL THEN env ELSE [env EXCEPT ![n] = w]

\* The callback is over: worker w runs the next thread, or its scheduler.
Arrive(w) ==
    /\ pc' = [pc EXCEPT ![w] = IF next[w] = NULL THEN "sched" ELSE "run"]
    /\ this' = [this EXCEPT ![w] = next[w]]
    /\ next' = [next EXCEPT ![w] = NULL]

\* Mutant: the thread found has no worker, as after myth_wsapi's steal.
ResumeNoEnv(w) ==
    /\ pc[w] = "sched"
    /\ \E v \in Workers, n \in Threads :
        /\ Take(v, n)
        /\ env' = [env EXCEPT ![n] = NULL]
        /\ this' = [this EXCEPT ![w] = n]
    /\ pc' = [pc EXCEPT ![w] = "run"]
    /\ UNCHANGED <<next, status, joiner, detached, lock, listVars, clientVars>>

\* The scheduler pops or steals a thread.
Resume(w) ==
    /\ pc[w] = "sched"
    /\ \E v \in Workers, n \in Threads :
        /\ Take(v, n)
        /\ EnvSet(n, w)
        /\ this' = [this EXCEPT ![w] = n]
    /\ pc' = [pc EXCEPT ![w] = "run"]
    /\ UNCHANGED <<next, status, joiner, detached, lock, listVars, clientVars>>

-----------------------------------------------------------------------------
(* myth_create_ex_body                                                     *)

\* Mutant: the lock is initialised with the rest of the descriptor.
NewDescUnlocked(w, d) ==
    /\ \/ d \in free[w] /\ free' = [free EXCEPT ![w] = @ \ {d}] /\ UNCHANGED fresh
       \/ free[w] = {} /\ d \in fresh /\ fresh' = fresh \ {d} /\ UNCHANGED free
    /\ lock' = [lock EXCEPT ![d] = NULL]

\* The list of the worker first, then new memory, whose lock is initialised.
NewDesc(w, d) ==
    \/ d \in free[w] /\ free' = [free EXCEPT ![w] = @ \ {d}] /\ UNCHANGED <<fresh, lock>>
    \/ /\ free[w] = {} /\ d \in fresh
       /\ fresh' = fresh \ {d}
       /\ lock' = [lock EXCEPT ![d] = NULL]
       /\ UNCHANGED free

\* Mutant: what was detached once stays so.
InitThreadNotDetached(w, d) ==
    /\ status' = [status EXCEPT ![d] = "ready"]
    /\ joiner' = [joiner EXCEPT ![d] = NULL]
    /\ env' = [env EXCEPT ![d] = w]
    /\ call' = [call EXCEPT ![d] = "user"]
    /\ claimed' = claimed \ {d}
    /\ UNCHANGED <<detached, target>>

\* init_myth_thread_struct: everything but the lock.
InitThread(w, d) ==
    /\ status' = [status EXCEPT ![d] = "ready"]
    /\ joiner' = [joiner EXCEPT ![d] = NULL]
    /\ detached' = [detached EXCEPT ![d] = FALSE]
    /\ env' = [env EXCEPT ![d] = w]
    /\ call' = [call EXCEPT ![d] = "user"]
    /\ claimed' = claimed \ {d}
    /\ UNCHANGED target

\* Mutant: the creator is in the queue before it has left.
CreateChildFirstEarly(w, d) ==
    /\ Runs(w, "user")
    /\ NewDesc(w, d)
    /\ InitThread(w, d)
    /\ Leave(w, d, "create")
    /\ queue' = [queue EXCEPT ![w] = @ \cup {this[w]}]
    /\ UNCHANGED this

\* By default the new thread runs first ...
CreateChildFirst(w, d) ==
    /\ Runs(w, "user")
    /\ NewDesc(w, d)
    /\ InitThread(w, d)
    /\ Leave(w, d, "create")
    /\ UNCHANGED <<this, queue>>

\* ... and myth_create_1 puts its creator in the queue; ...
CreateCallback(w) ==
    /\ pc[w] = "create"
    /\ queue' = [queue EXCEPT ![w] = @ \cup {this[w]}]
    /\ Arrive(w)
    /\ UNCHANGED <<descVars, listVars, clientVars>>

\* ... otherwise the new thread goes there.
CreateParentFirst(w, d) ==
    /\ Runs(w, "user")
    /\ NewDesc(w, d)
    /\ InitThread(w, d)
    /\ queue' = [queue EXCEPT ![w] = @ \cup {d}]
    /\ UNCHANGED <<pc, this, next>>

-----------------------------------------------------------------------------
(* myth_yield_ex_body                                                      *)

Yield(w) ==
    /\ Runs(w, "user")
    /\ \E v \in Workers, n \in Threads : Take(v, n) /\ EnvSet(n, w) /\ Leave(w, n, "yield")
    /\ UNCHANGED <<this, status, joiner, detached, lock, listVars, clientVars>>

YieldCallback(w) ==
    /\ pc[w] = "yield"
    /\ queue' = [queue EXCEPT ![w] = @ \cup {this[w]}]
    /\ EnvSet(next[w], w)
    /\ Arrive(w)
    /\ UNCHANGED <<status, joiner, detached, lock, listVars, clientVars>>

-----------------------------------------------------------------------------
(* myth_join_body, myth_tryjoin_body, myth_timedjoin_body, myth_detach_body *)

\* The thread on worker w is the one that joins or detaches d.
Claims(w, d) ==
    /\ Runs(w, "user")
    /\ d \notin Free \cup claimed \cup {this[w]}
    /\ claimed' = claimed \cup {d}

\* join, tryjoin, or detach under the lock, of a thread that has finished.
JoinFinished(w, d) ==
    /\ Claims(w, d)
    /\ lock[d] = NULL
    /\ status[d] = "finished"
    /\ call' = [call EXCEPT ![this[w]] = "spin"]
    /\ target' = [target EXCEPT ![this[w]] = d]
    /\ UNCHANGED <<workerVars, descVars, listVars>>

\* join of a thread that has not: the lock is kept over the switch.
JoinBlock(w, d) ==
    /\ Claims(w, d)
    /\ lock[d] = NULL
    /\ status[d] # "finished"
    /\ lock' = [lock EXCEPT ![d] = w]
    /\ status' = [status EXCEPT ![this[w]] = "blocked"]
    /\ call' = [call EXCEPT ![this[w]] = "wait"]
    /\ target' = [target EXCEPT ![this[w]] = d]
    /\ \E n \in Threads \cup {NULL} :
        (Take(w, n) \/ PopNone(n)) /\ EnvSet(n, w) /\ Leave(w, n, "join")
    /\ UNCHANGED <<this, joiner, detached, listVars>>

\* myth_join_2 and myth_join_3: the joiner is env->this_thread still.
JoinCallback(w) ==
    LET d == target[this[w]] IN
    /\ pc[w] = "join"
    /\ joiner' = [joiner EXCEPT ![d] = this[w]]
    /\ lock' = [lock EXCEPT ![d] = NULL]
    /\ Arrive(w)
    /\ UNCHANGED <<queue, env, status, detached, listVars, clientVars>>

\* The joiner runs again, as the switch of the exiting thread has decided.
JoinResumed(w) ==
    /\ Runs(w, "wait")
    /\ call' = [call EXCEPT ![this[w]] = "spin"]
    /\ UNCHANGED <<workerVars, descVars, listVars, target, claimed>>

\* Once the status is final, the descriptor goes to a list of this worker.
Reap(w) ==
    LET d == target[this[w]] IN
    /\ Runs(w, "spin")
    /\ status[d] = "finished"
    /\ free' = [free EXCEPT ![w] = @ \cup {d}]
    /\ call' = [call EXCEPT ![this[w]] = "user"]
    /\ target' = [target EXCEPT ![this[w]] = NULL]
    /\ UNCHANGED <<workerVars, descVars, fresh, claimed>>

\* detach looks at the status without the lock ...
DetachFinished(w, d) ==
    /\ Claims(w, d)
    /\ status[d] = "finished"
    /\ free' = [free EXCEPT ![w] = @ \cup {d}]
    /\ UNCHANGED <<workerVars, descVars, fresh, call, target>>

\* Mutant: without the lock.
DetachUnlocked(w, d) ==
    /\ Claims(w, d)
    /\ status[d] # "finished"
    /\ detached' = [detached EXCEPT ![d] = TRUE]
    /\ UNCHANGED <<workerVars, env, status, joiner, lock, listVars, call, target>>

\* ... and then again with it.
Detach(w, d) ==
    /\ Claims(w, d)
    /\ lock[d] = NULL
    /\ status[d] # "finished"
    /\ detached' = [detached EXCEPT ![d] = TRUE]
    /\ UNCHANGED <<workerVars, env, status, joiner, lock, listVars, call, target>>

-----------------------------------------------------------------------------
(* myth_entry_point_cleanup                                                *)

\* A thread that somebody waits for switches to its joiner, ...
ExitToJoiner(w) ==
    LET th == this[w]  j == joiner[th] IN
    /\ Runs(w, "user") /\ th # Main
    /\ lock[th] = NULL /\ j # NULL
    /\ lock' = [lock EXCEPT ![th] = w]
    /\ EnvSet(j, env[th])
    /\ status' = [status EXCEPT ![j] = "ready"]
    /\ Leave(w, j, "exit")
    /\ UNCHANGED <<this, queue, joiner, detached, listVars, clientVars>>

\* ... any other to one from the queue, whose env it does not set.
Exit(w) ==
    LET th == this[w] IN
    /\ Runs(w, "user") /\ th # Main
    /\ lock[th] = NULL /\ joiner[th] = NULL
    /\ lock' = [lock EXCEPT ![th] = w]
    /\ \E n \in Threads \cup {NULL} : (Take(env[th], n) \/ PopNone(n)) /\ Leave(w, n, "exit")
    /\ UNCHANGED <<this, env, status, joiner, detached, listVars, clientVars>>

\* myth_entry_point_1 and myth_entry_point_2.  For a thread that is not detached
ExitNotDetached(w) ==
    /\ pc[w] = "exit" /\ ~detached[this[w]]
    /\ pc' = [pc EXCEPT ![w] = "publish"]
    /\ UNCHANGED <<this, next, queue, descVars, listVars, clientVars>>

\* the status makes the descriptor that of who joins or detaches the thread ...
ExitPublish(w) ==
    /\ pc[w] = "publish"
    /\ status' = [status EXCEPT ![this[w]] = "finished"]
    /\ pc' = [pc EXCEPT ![w] = "unlock"]
    /\ UNCHANGED <<this, next, queue, env, joiner, detached, lock, listVars, clientVars>>

\* ... and the unlock still to come.
ExitUnlock(w) ==
    /\ pc[w] = "unlock"
    /\ lock' = [lock EXCEPT ![this[w]] = NULL]
    /\ Arrive(w)
    /\ UNCHANGED <<queue, env, status, joiner, detached, listVars, clientVars>>

\* A detached thread is unlocked first ...
ExitDetached(w) ==
    /\ pc[w] = "exit" /\ detached[this[w]]
    /\ lock' = [lock EXCEPT ![this[w]] = NULL]
    /\ pc' = [pc EXCEPT ![w] = "free"]
    /\ UNCHANGED <<this, next, queue, env, status, joiner, detached, listVars, clientVars>>

\* ... and then freed.
ExitFree(w) ==
    LET th == this[w] IN
    /\ pc[w] = "free"
    /\ free' = [free EXCEPT ![env[th]] = @ \cup {th}]
    /\ Arrive(w)
    /\ UNCHANGED <<queue, descVars, fresh, clientVars>>

-----------------------------------------------------------------------------
Create(w) == \E d \in Threads : CreateChildFirst(w, d) \/ CreateParentFirst(w, d)

\* What a worker or the thread on it cannot help doing.
Proceed(w) ==
    \/ Resume(w) \/ CreateCallback(w) \/ YieldCallback(w) \/ JoinCallback(w)
    \/ JoinResumed(w) \/ Reap(w) \/ ExitToJoiner(w) \/ Exit(w) \/ ExitNotDetached(w)
    \/ ExitPublish(w) \/ ExitUnlock(w) \/ ExitDetached(w) \/ ExitFree(w)

Claim(w, d) == JoinFinished(w, d) \/ JoinBlock(w, d) \/ DetachFinished(w, d) \/ Detach(w, d)

Next == \E w \in Workers :
    Create(w) \/ Yield(w) \/ Proceed(w) \/ \E d \in Threads : Claim(w, d)

\* Workers are OS threads and never stop; threads are over some time.
Spec == Init /\ [][Next]_vars /\ \A w \in Workers : WF_vars(Proceed(w))

-----------------------------------------------------------------------------
Callbacks == {"create", "yield", "join", "exit", "publish", "unlock", "free"}

TypeOK ==
    /\ pc \in [Workers -> {"sched", "run"} \cup Callbacks]
    /\ this \in [Workers -> Threads \cup {NULL}]
    /\ next \in [Workers -> Threads \cup {NULL}]
    /\ queue \in [Workers -> SUBSET Threads]
    /\ free \in [Workers -> SUBSET Threads]
    /\ fresh \subseteq Threads
    /\ env \in [Threads -> Workers]
    /\ status \in [Threads -> {"ready", "blocked", "finished"}]
    /\ joiner \in [Threads -> Threads \cup {NULL}]
    /\ detached \in [Threads -> BOOLEAN]
    /\ lock \in [Threads -> Workers \cup {NULL}]
    /\ call \in [Threads -> {"user", "wait", "spin"}]
    /\ target \in [Threads -> Threads \cup {NULL}]
    /\ claimed \subseteq Threads

\* The threads that worker w has in its hands: the one it leaves, as long as
\* that is its own, and the one it runs or is about to run.
InHand(w) == {this[w], next[w]} \ (IF pc[w] = "unlock" THEN {this[w], NULL} ELSE {NULL})

(***************************************************************************)
(* Every descriptor is in at most one place: a worker's hands, a queue or  *)
(* a list of free descriptors.  So no thread runs on two workers, none is  *)
(* resumed before it has left its worker, and none is used after or while  *)
(* it is freed.                                                            *)
(***************************************************************************)
OnePlace ==
    /\ \A w \in Workers : (InHand(w) \cup queue[w]) \cap Free = {}
    /\ \A w \in Workers : InHand(w) \cap queue[w] = {} /\ free[w] \cap fresh = {}
    /\ \A v, w \in Workers : v # w =>
        /\ (InHand(v) \cup queue[v]) \cap (InHand(w) \cup queue[w]) = {}
        /\ free[v] \cap free[w] = {}

(***************************************************************************)
(* th->env is the worker that runs the thread or has it in its queue.  An  *)
(* exiting thread relies on it: it pops from the queue of its env, frees   *)
(* to the list of its env, and does not set the env of the next thread.    *)
(***************************************************************************)
EnvIsWorker ==
    \A w \in Workers : \A th \in queue[w] \cup InHand(w) :
        env[th] = w

(***************************************************************************)
(* A callback that is to release a lock finds it still taken by its worker,*)
(* though the descriptor may have been freed and created anew.             *)
(***************************************************************************)
HoldsItsLock ==
    \A w \in Workers :
        /\ pc[w] = "join" => lock[target[this[w]]] = w
        /\ pc[w] \in {"exit", "publish", "unlock"} => lock[this[w]] = w

(***************************************************************************)
(* The assertions of the schedulers and of myth_entry_point_cleanup: what  *)
(* is run or queued is READY, and a joiner that is published is BLOCKED.   *)
(***************************************************************************)
AssertionsHold ==
    /\ \A w \in Workers : \A th \in (queue[w] \cup {next[w]}) \ {NULL} : status[th] = "ready"
    /\ \A w \in Workers :
        pc[w] = "run" /\ joiner[this[w]] # NULL => status[joiner[this[w]]] = "blocked"

\* Programs that create and yield for ever may keep a queued thread waiting.
Calms == <>[][\A w \in Workers : ~Create(w) /\ ~Yield(w)]_vars

(***************************************************************************)
(* No descriptor leaks, and joins return: a thread that is over and that   *)
(* somebody has joined or detached becomes a free descriptor, whichever of *)
(* the three was first.  The last step of a join is what frees the other.  *)
(***************************************************************************)
Reclaimed ==
    Calms => \A d \in Threads :
        (status[d] = "finished" /\ d \in claimed) ~> d \in Free

(***************************************************************************)
(* The life of a descriptor as its users see it.                           *)
(***************************************************************************)
life ==
    [d \in Threads |->
        IF d \in Free THEN "free"
        ELSE IF status[d] = "finished" THEN "finished"
        ELSE "running"]

Life == INSTANCE ThreadLife
ImplementsThreadLife == Life!Spec
=============================================================================
