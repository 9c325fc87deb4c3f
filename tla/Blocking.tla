------------------------------ MODULE Blocking ------------------------------
(***************************************************************************)
(* How user-level threads of MassiveThreads give up the worker they run on *)
(* and get one back: the part every blocking operation shares.             *)
(*                                                                         *)
(* A blocking thread pops the next thread (myth_block_on_queue), and       *)
(* myth_swap_context_withcall saves its context, switches to the next one  *)
(* and runs a callback there, still on the worker and no longer on the     *)
(* thread, that makes the thread visible to others.  So both threads and   *)
(* workers execute code: pc is their program counter, and a worker is at   *)
(* "run" unless it executes a callback.                                    *)
(*                                                                         *)
(* The run queues are one set, "ready": each of them hands out its threads *)
(* in an order of its own (WSQueue) and an idle worker steals from any of  *)
(* them, so any worker may get any of the threads, and no order may be     *)
(* relied on.  A pop may return NULL although there are threads.           *)
(***************************************************************************)
EXTENDS Integers, FiniteSets

CONSTANTS
    Threads,    \* the user-level threads
    Workers,    \* the workers
    NULL        \* no thread

ASSUME BlockingAssumption ==
    /\ NULL \notin Threads /\ NULL \notin Workers
    /\ Threads \cap Workers = {}
    /\ IsFiniteSet(Threads)

VARIABLES
    pc,         \* where each thread and each worker is
    ready,      \* the threads in the run queues
    this,       \* env->this_thread of each worker; NULL for its scheduler
    leaving,    \* the thread whose callback a worker executes, or NULL
    saved       \* the threads whose context is complete in th->context

switchVars == <<ready, this, leaving, saved>>

Agents == Threads \cup Workers

SwitchInit ==
    /\ ready = Threads
    /\ this = [w \in Workers |-> NULL]
    /\ leaving = [w \in Workers |-> NULL]
    /\ saved = Threads

SwitchTypeOK ==
    /\ ready \subseteq Threads
    /\ this \in [Workers -> Threads \cup {NULL}]
    /\ leaving \in [Workers -> Threads \cup {NULL}]
    /\ saved \subseteq Threads

\* Agent a is executing: a worker in a callback, or the thread a worker runs.
Executes(a) ==
    \/ a \in Workers /\ pc[a] # "run"
    \/ a \in Threads /\ \E w \in Workers : this[w] = a /\ pc[w] = "run"

At(a, from) == Executes(a) /\ pc[a] = from
Goto(a, from, to) == At(a, from) /\ pc' = [pc EXCEPT ![a] = to]

\* Worker w now runs thread th, or its scheduler when th is NULL.
Dispatch(w, th) ==
    /\ this' = [this EXCEPT ![w] = th]
    /\ saved' = saved \ {th}

\* The scheduler of worker w found thread th in a run queue.
Resume(w) ==
    /\ pc[w] = "run" /\ this[w] = NULL
    /\ \E th \in ready :
        /\ Dispatch(w, th)
        /\ ready' = ready \ {th}
    /\ UNCHANGED <<pc, leaving>>

\* Thread th on worker w starts to give it up for next, a thread or NULL.
Leave(w, th, next, from, to) ==
    /\ this[w] = th /\ pc[w] = "run" /\ pc[th] = from
    /\ next \in ready \cup {NULL}
    /\ Dispatch(w, next)
    /\ ready' = ready \ {next}
    /\ leaving' = [leaving EXCEPT ![w] = th]
    /\ pc' = [pc EXCEPT ![th] = to, ![w] = "swap"]

\* myth_block_on_queue and its likes: pop the next thread, if any.
Block(w, th, from, to) == \E next \in ready \cup {NULL} : Leave(w, th, next, from, to)

\* myth_yield: a yielding thread keeps the worker when there is no other.
Yield(w, th, from, to) == \E next \in ready : Leave(w, th, next, from, to)

\* Mutant: the callback starts before the context is complete.
SwapContextEarly(w) ==
    /\ pc[w] = "swap"
    /\ pc' = [pc EXCEPT ![w] = "callback"]
    /\ UNCHANGED <<ready, this, leaving, saved>>

\* The context of the thread that leaves is complete; the callback starts.
SwapContext(w) ==
    /\ pc[w] = "swap"
    /\ saved' = saved \cup {leaving[w]}
    /\ pc' = [pc EXCEPT ![w] = "callback"]
    /\ UNCHANGED <<ready, this, leaving>>

\* The callback of worker w has put the thread where others can find it.
Left(w, from, to) ==
    /\ Goto(w, from, to)
    /\ leaving' = [leaving EXCEPT ![w] = NULL]

\* myth_yield_ex_1: the thread goes to the old end of the run queue.
YieldPut(w) ==
    /\ Left(w, "callback", "run")
    /\ ready' = ready \cup {leaving[w]}
    /\ UNCHANGED <<this, saved>>
=============================================================================
