------------------------------ MODULE Workers ------------------------------
(***************************************************************************)
(* The start and the end of the MassiveThreads runtime: the once control of*)
(* myth_init, the workers and the internal barrier that keeps them in step,*)
(* the main thread, which any worker may steal and which myth_fini brings  *)
(* back to the worker it started on, and the exit of the others.           *)
(*                                                                         *)
(* Several OS threads call myth_init.  One of them becomes worker 0 and its*)
(* context the main thread, which creates threads for as long as it likes  *)
(* (each of them puts it in a run queue) and then calls myth_fini, after   *)
(* which another caller may start the runtime again.                       *)
(***************************************************************************)
EXTENDS Integers, FiniteSets

CONSTANTS
    N,          \* the number of workers
    Callers     \* the OS threads that call myth_init

ASSUME WorkersAssumption == N \in Nat \ {0}

Workers == 0 .. (N - 1)

VARIABLES
    init,       \* g_myth_init_state
    caller,     \* what each caller does
    pc,         \* where each worker is
    flag,       \* env->exit_flag of each worker
    alive,      \* the workers whose run queue is initialised
    queued,     \* the worker whose run queue has the main thread, as a set
    first,      \* the workers whose first_run is the main thread
    main,       \* what the main thread does
    env,        \* th->env of the main thread
    phase,      \* b->phase of the internal barrier
    cur,        \* b->cur
    seen,       \* the phase that each worker has arrived in
    asleep      \* the workers that sleep in pthread_cond_wait

callerVars == <<init, caller>>
barrierVars == <<phase, cur, seen, asleep>>
mainVars == <<queued, first, main, env>>
vars == <<callerVars, pc, flag, alive, mainVars, barrierVars>>

Init ==
    /\ init = "uninit"
    /\ caller = [p \in Callers |-> "start"]
    /\ pc = [w \in Workers |-> "off"]
    /\ flag = [w \in Workers |-> 0]
    /\ alive = {}
    /\ queued = {}
    /\ first = {}
    /\ main = "none"
    /\ env = 0
    /\ phase = 0
    /\ cur = [ph \in {0, 1} |-> 0]
    /\ seen = [w \in Workers |-> 0]
    /\ asleep = {}

Move(w, from, to) == pc[w] = from /\ pc' = [pc EXCEPT ![w] = to]

-----------------------------------------------------------------------------
(* myth_init_ex_body                                                       *)

TrySet(p) ==
    /\ caller[p] = "start" /\ init = "uninit"
    /\ init' = "initializing"
    /\ caller' = [caller EXCEPT ![p] = "winner"]
    /\ UNCHANGED <<pc, flag, alive, mainVars, barrierVars>>

LoseRace(p) ==
    /\ caller[p] = "start" /\ init = "initializing"
    /\ caller' = [caller EXCEPT ![p] = "waits"]
    /\ UNCHANGED <<init, pc, flag, alive, mainVars, barrierVars>>

\* At once, or after the wait.
FindInitialized(p) ==
    /\ caller[p] \in {"start", "waits"} /\ init = "initialized"
    /\ caller' = [caller EXCEPT ![p] = "done"]
    /\ UNCHANGED <<init, pc, flag, alive, mainVars, barrierVars>>

\* myth_init_ex_body_really: the barrier, and an OS thread for each worker.
StartWorkers(p) ==
    /\ caller[p] = "winner"
    /\ caller' = [caller EXCEPT ![p] = "runs"]
    /\ pc' = [w \in Workers |-> "setup"]
    /\ phase' = 0
    /\ cur' = [ph \in {0, 1} |-> 0]
    /\ UNCHANGED <<init, flag, alive, mainVars, seen, asleep>>

-----------------------------------------------------------------------------
(* myth_internal_barrier_wait                                              *)

\* Mutant: the last one resets the counter of its own phase.
ArriveResets(w, from, sleeping, beyond) ==
    /\ cur' = [cur EXCEPT ![phase] = (@ + 1) % N]
    /\ seen' = [seen EXCEPT ![w] = phase]
    /\ IF cur[phase] + 1 < N
       THEN Move(w, from, sleeping) /\ asleep' = asleep \cup {w} /\ UNCHANGED phase
       ELSE Move(w, from, beyond) /\ asleep' = {} /\ phase' = 1 - phase

\* Mutant: the counter of the other phase is not reset.
ArriveKeeps(w, from, sleeping, beyond) ==
    /\ cur' = [cur EXCEPT ![phase] = @ + 1]
    /\ seen' = [seen EXCEPT ![w] = phase]
    /\ IF cur[phase] + 1 < N
       THEN Move(w, from, sleeping) /\ asleep' = asleep \cup {w} /\ UNCHANGED phase
       ELSE Move(w, from, beyond) /\ asleep' = {} /\ phase' = 1 - phase

\* All but the last worker sleep; the last one opens the other phase and
\* wakes them.
Arrive(w, from, sleeping, beyond) ==
    /\ seen' = [seen EXCEPT ![w] = phase]
    /\ IF cur[phase] + 1 < N
       THEN /\ Move(w, from, sleeping)
            /\ asleep' = asleep \cup {w}
            /\ cur' = [cur EXCEPT ![phase] = @ + 1]
            /\ UNCHANGED phase
       ELSE /\ Move(w, from, beyond)
            /\ asleep' = {}
            /\ cur' = [cur EXCEPT ![phase] = @ + 1, ![1 - phase] = 0]
            /\ phase' = 1 - phase

\* A worker that was woken looks at the counter again.
Wake(w, sleeping, beyond) ==
    /\ w \notin asleep
    /\ IF cur[seen[w]] = N
       THEN Move(w, sleeping, beyond) /\ UNCHANGED asleep
       ELSE pc[w] = sleeping /\ asleep' = asleep \cup {w} /\ UNCHANGED pc
    /\ UNCHANGED <<phase, cur, seen>>

\* Mutant: workers do not wait for each other before they clean up.
BarriersButLast(w) ==
    /\ \/ Arrive(w, "set_up", "barrier1", "schedule")
       \/ Wake(w, "barrier1", "schedule")
       \/ Arrive(w, "popped", "barrier2", "enter")
       \/ Wake(w, "barrier2", "enter")
       \/ Move(w, "cleanup", "fini") /\ UNCHANGED barrierVars
    /\ UNCHANGED <<callerVars, flag, alive, mainVars>>

\* After the setup, before the first thread is run, and before the cleanup.
Barriers(w) ==
    /\ \/ Arrive(w, "set_up", "barrier1", "schedule")
       \/ Wake(w, "barrier1", "schedule")
       \/ Arrive(w, "popped", "barrier2", "enter")
       \/ Wake(w, "barrier2", "enter")
       \/ Arrive(w, "cleanup", "barrier3", "fini")
       \/ Wake(w, "barrier3", "fini")
    /\ UNCHANGED <<callerVars, flag, alive, mainVars>>

-----------------------------------------------------------------------------
(* myth_worker_thread_fn                                                   *)

Setup(w) ==
    /\ Move(w, "setup", "set_up")
    /\ flag' = [flag EXCEPT ![w] = 0]
    /\ alive' = alive \cup {w}
    /\ UNCHANGED <<callerVars, mainVars, barrierVars>>

\* myth_startpoint_init_ex_body: worker 0 makes a thread of its context, puts
\* it in its queue and calls the scheduler, as the others do at once.
Schedule(w) ==
    /\ Move(w, "schedule", "pop")
    /\ IF w = 0
       THEN /\ flag' = [flag EXCEPT ![0] = -1]
            /\ queued' = {0}
            /\ main' = "init"
            /\ env' = 0
       ELSE UNCHANGED <<flag, queued, main, env>>
    /\ UNCHANGED <<callerVars, alive, first, barrierVars>>

\* Mutant: the first thread is looked for when the others already steal.
PopFirstLate(w) ==
    /\ Move(w, "pop", "popped")
    /\ UNCHANGED <<callerVars, flag, alive, mainVars, barrierVars>>

\* myth_sched_loop takes the first thread before the barrier ...
PopFirst(w) ==
    /\ Move(w, "pop", "popped")
    /\ queued' = queued \ {w}
    /\ first' = IF w \in queued THEN first \cup {w} ELSE first
    /\ UNCHANGED <<callerVars, flag, alive, main, env, barrierVars>>

\* ... and runs it after.
Enter(w) ==
    /\ Move(w, "enter", IF w \in first THEN "main" ELSE "sched")
    /\ first' = first \ {w}
    /\ UNCHANGED <<callerVars, flag, alive, queued, main, env, barrierVars>>

\* Back in myth_init_ex_body.
Initialized(w) ==
    /\ pc[w] = "main" /\ main = "init"
    /\ main' = "user"
    /\ init' = "initialized"
    /\ UNCHANGED <<caller, pc, flag, alive, queued, first, env, barrierVars>>

\* The scheduler pops, or steals from any other worker.
Resume(w) ==
    /\ queued # {}
    /\ Move(w, "sched", "main")
    /\ queued' = {}
    /\ env' = w
    /\ UNCHANGED <<callerVars, flag, alive, first, main, barrierVars>>

\* myth_sched_loop returns.
SeeExitFlag(w) ==
    /\ flag[w] = 1
    /\ Move(w, "sched", "cleanup")
    /\ UNCHANGED <<callerVars, flag, alive, mainVars, barrierVars>>

\* The main thread creates a thread, which runs first, ...
CreateChild(w) ==
    /\ main = "user"
    /\ Move(w, "main", "child")
    /\ queued' = {w}
    /\ UNCHANGED <<callerVars, flag, alive, first, main, env, barrierVars>>

\* ... and goes on when it exits, which does not set its env, or elsewhere.
ChildExit(w) ==
    /\ \/ w \in queued /\ Move(w, "child", "main") /\ queued' = {}
       \/ Move(w, "child", "sched") /\ UNCHANGED queued
    /\ UNCHANGED <<callerVars, flag, alive, first, main, env, barrierVars>>

-----------------------------------------------------------------------------
(* myth_fini_body                                                          *)

BeginFini(w) ==
    /\ pc[w] = "main" /\ main = "user"
    /\ main' = "fini"
    /\ UNCHANGED <<callerVars, pc, flag, alive, queued, first, env, barrierVars>>

\* myth_startpoint_exit_ex_body: as long as it is not on worker 0, the main
\* thread leaves for the scheduler, ...
LeaveWorker(w) ==
    /\ main = "fini" /\ env # 0
    /\ Move(w, "main", "pass")
    /\ env' = 0
    /\ UNCHANGED <<callerVars, flag, alive, queued, first, main, barrierVars>>

\* ... whose callback passes it to the queue of worker 0, ...
Pass(w) ==
    /\ Move(w, "pass", "sched")
    /\ queued' = {env}
    /\ UNCHANGED <<callerVars, flag, alive, first, main, env, barrierVars>>

\* Mutant: the env of the thread is not changed with its target.
PassElsewhereStale(w) ==
    /\ \E v \in Workers :
        /\ Move(w, "pass", "sched")
        /\ queued' = {v}
    /\ UNCHANGED <<callerVars, flag, alive, first, main, env, barrierVars>>

\* ... or of any other worker when that one refuses it.
PassElsewhere(w) ==
    /\ pc[w] = "pass"
    /\ env' \in Workers
    /\ UNCHANGED <<callerVars, pc, flag, alive, queued, first, main, barrierVars>>

\* Mutant: exit flags are set for worker 0 only.
NotifyExitFirst(w) ==
    /\ main = "fini" /\ env = 0
    /\ Move(w, "main", "cleanup")
    /\ main' = "cleanup"
    /\ flag' = [flag EXCEPT ![0] = IF @ = 0 THEN 1 ELSE @]
    /\ UNCHANGED <<callerVars, alive, queued, first, env, barrierVars>>

\* myth_notify_workers_exit, and then this worker cleans up as the others do.
NotifyExit(w) ==
    /\ main = "fini" /\ env = 0
    /\ Move(w, "main", "cleanup")
    /\ main' = "cleanup"
    /\ flag' = [v \in Workers |-> IF flag[v] = 0 THEN 1 ELSE flag[v]]
    /\ UNCHANGED <<callerVars, alive, queued, first, env, barrierVars>>

\* myth_cleanup_worker, after its barrier.
FiniQueue(w) ==
    /\ Move(w, "fini", "exited")
    /\ alive' = alive \ {w}
    /\ UNCHANGED <<callerVars, flag, mainVars, barrierVars>>

\* Joins the OS threads of the others and ends the runtime.
FiniReally(p) ==
    /\ caller[p] = "runs"
    /\ main = "cleanup" /\ \A w \in Workers : pc[w] = "exited"
    /\ main' = "none"
    /\ pc' = [w \in Workers |-> "off"]
    /\ init' = "uninit"
    /\ caller' = [caller EXCEPT ![p] = "done"]
    /\ UNCHANGED <<flag, alive, queued, first, env, barrierVars>>

-----------------------------------------------------------------------------
CallerStep(p) ==
    TrySet(p) \/ LoseRace(p) \/ FindInitialized(p) \/ StartWorkers(p) \/ FiniReally(p)

MainStep(w) == Initialized(w) \/ LeaveWorker(w) \/ NotifyExit(w)

WorkerStep(w) ==
    \/ Barriers(w) \/ Setup(w) \/ Schedule(w) \/ PopFirst(w) \/ Enter(w)
    \/ Resume(w) \/ SeeExitFlag(w) \/ ChildExit(w) \/ Pass(w) \/ MainStep(w)
    \/ FiniQueue(w)

Next ==
    \/ \E p \in Callers : CallerStep(p)
    \/ \E w \in Workers :
        \/ WorkerStep(w)
        \/ CreateChild(w) \/ BeginFini(w) \/ PassElsewhere(w)

\* OS threads go on; how long the main thread runs is its own affair.
Spec ==
    /\ Init /\ [][Next]_vars
    /\ \A p \in Callers : WF_vars(CallerStep(p))
    /\ \A w \in Workers : WF_vars(WorkerStep(w))

-----------------------------------------------------------------------------
PCs == {"off", "setup", "set_up", "barrier1", "schedule", "pop", "popped", "barrier2",
        "enter", "sched", "main", "child", "pass", "cleanup", "barrier3", "fini", "exited"}

TypeOK ==
    /\ init \in {"uninit", "initializing", "initialized"}
    /\ caller \in [Callers -> {"start", "waits", "winner", "runs", "done"}]
    /\ pc \in [Workers -> PCs]
    /\ flag \in [Workers -> {-1, 0, 1}]
    /\ alive \subseteq Workers
    /\ queued \in SUBSET Workers /\ Cardinality(queued) <= 1
    /\ first \subseteq {0}
    /\ main \in {"none", "init", "user", "fini", "cleanup"}
    /\ env \in Workers
    /\ phase \in {0, 1}
    /\ cur \in [{0, 1} -> 0 .. N]
    /\ seen \in [Workers -> {0, 1}]
    /\ asleep \subseteq Workers

\* The internal barriers that a worker is through.
Stage(w) ==
    CASE pc[w] \in {"off", "setup", "set_up", "barrier1"} -> 0
      [] pc[w] \in {"schedule", "pop", "popped", "barrier2"} -> 1
      [] pc[w] \in {"enter", "sched", "main", "child", "pass", "cleanup", "barrier3"} -> 2
      [] pc[w] \in {"fini", "exited"} -> 3

(***************************************************************************)
(* The internal barrier, with its two counters used in turn: a worker is   *)
(* through it only when all the others are through it or asleep in it, and *)
(* then they find the counter that lets them go.                           *)
(***************************************************************************)
BarriersHold ==
    \A v, w \in Workers :
        Stage(v) > Stage(w) =>
            /\ Stage(v) = Stage(w) + 1
            /\ pc[w] \in {"barrier1", "barrier2", "barrier3"}
            /\ w \notin asleep /\ cur[seen[w]] = N

(***************************************************************************)
(* Whoever may look for threads in the queues of others, or passes one to  *)
(* them, finds them initialised and not yet finalised.                     *)
(***************************************************************************)
QueuesAreAlive ==
    (\E w \in Workers : pc[w] \in {"sched", "child", "main", "pass"}) => alive = Workers

(***************************************************************************)
(* The main thread is in one place at most, and its env is right whenever  *)
(* it runs, which is what myth_startpoint_exit_ex_body goes by: so         *)
(* myth_fini stops the workers from worker 0, as it asserts.  And myth_init*)
(* returns on the worker it was called on, although all the others steal.  *)
(***************************************************************************)
MainIsWhereItThinks ==
    \A w \in Workers :
        pc[w] = "main" => /\ env = w /\ queued = {}
                          /\ \A v \in Workers \ {w} : pc[v] # "main"
                          /\ main = "init" => w = 0

(***************************************************************************)
(* A caller that has lost the race waits until the runtime is initialised, *)
(* and returns; unless the runtime comes to its end before it has looked.  *)
(***************************************************************************)
InitReturns ==
    \A p \in Callers : caller[p] = "waits" ~> (caller[p] = "done" \/ init = "uninit")

\* Nobody steals the main thread from worker 0, which takes it when offered.
ComesHome == <>[][\A w \in Workers :
    /\ ~PassElsewhere(w)
    /\ w # 0 /\ 0 \in queued => ~Resume(w)]_vars

(***************************************************************************)
(* myth_fini ends, with all the workers gone, unless the main thread is    *)
(* stolen for ever on its way to worker 0.                                 *)
(***************************************************************************)
FiniEnds == ComesHome => (main = "fini" ~> init = "uninit")
=============================================================================
