------------------------------ MODULE Barrier ------------------------------
(***************************************************************************)
(* The barrier of MassiveThreads (myth_barrier_wait) and its sleep stack,  *)
(* on top of the switching of threads in Blocking, with the program of     *)
(* tests/myth_barrier.c: every thread goes through the barrier Rounds      *)
(* times.                                                                  *)
(*                                                                         *)
(* A thread counts itself in state with a CAS; all but the last of a round *)
(* block, and their callbacks push them on a lock-free stack linked by the *)
(* field next of the threads.  The last one resets state and pops as many  *)
(* threads as it knows have counted themselves, waiting for those whose    *)
(* push is still to come, before it puts any of them in its run queue.     *)
(***************************************************************************)
EXTENDS Blocking, Sequences

CONSTANTS
    Sizes,      \* the numbers of threads that the barrier may be for
    Rounds      \* how often each thread goes through the barrier

ASSUME BarrierAssumption == Sizes \subseteq Nat \ {0} /\ Rounds \in Nat

VARIABLES
    n,          \* barrier->n_threads
    state,      \* barrier->state
    top,        \* barrier->sleep_s->top, a thread or NULL
    next,       \* the field next of each thread
    count,      \* the local variable c of each thread in barrier_wait
    head,       \* the top that a push or a pop has read, or NULL
    second,     \* x->next, as a pop has read it
    batch,      \* the threads that a thread has popped, in order
    entered,    \* how often each thread has counted itself
    passed,     \* how often each thread has returned
    fatal       \* the process called exit(1)

stackVars == <<top, next, head, second, batch>>
clientVars == <<entered, passed>>
vars == <<n, pc, switchVars, state, count, stackVars, clientVars, fatal>>

Init ==
    /\ SwitchInit
    /\ n \in Sizes
    /\ pc = [a \in Agents |-> IF a \in Threads THEN "outside" ELSE "run"]
    /\ state = 0
    /\ top = NULL
    /\ next = [th \in Threads |-> NULL]
    /\ count = [th \in Threads |-> 0]
    /\ head = [a \in Agents |-> NULL]
    /\ second = [th \in Threads |-> NULL]
    /\ batch = [th \in Threads |-> <<>>]
    /\ entered = [th \in Threads |-> 0]
    /\ passed = [th \in Threads |-> 0]
    /\ fatal = FALSE

-----------------------------------------------------------------------------
(* myth_barrier_wait                                                       *)

WaitRead(th) ==
    /\ entered[th] < Rounds
    /\ state < n
    /\ Goto(th, "outside", "cas")
    /\ count' = [count EXCEPT ![th] = state]
    /\ UNCHANGED <<switchVars, state, stackVars, clientVars, fatal>>

\* "excess threads enter barrier_wait": exit(1).
WaitExcess(th) ==
    /\ entered[th] < Rounds
    /\ state >= n
    /\ At(th, "outside")
    /\ fatal' = TRUE
    /\ UNCHANGED <<pc, switchVars, state, count, stackVars, clientVars>>

\* Mutant: the last but one takes itself for the last.
WaitCountEarly(th) ==
    /\ Goto(th, "cas", IF count[th] >= n - 2 THEN "reset" ELSE "block")
    /\ state = count[th]
    /\ state' = count[th] + 1
    /\ entered' = [entered EXCEPT ![th] = @ + 1]
    /\ UNCHANGED <<switchVars, count, stackVars, passed, fatal>>

WaitCount(th) ==
    /\ Goto(th, "cas", IF count[th] = n - 1 THEN "reset" ELSE "block")
    /\ state = count[th]
    /\ state' = count[th] + 1
    /\ entered' = [entered EXCEPT ![th] = @ + 1]
    /\ UNCHANGED <<switchVars, count, stackVars, passed, fatal>>

WaitRetry(th) ==
    /\ Goto(th, "cas", "outside")
    /\ state # count[th]
    /\ UNCHANGED <<switchVars, state, count, stackVars, clientVars, fatal>>

\* The last thread of a round lets the next round in ...
Reset(th) ==
    /\ Goto(th, "reset", "pop")
    /\ state' = 0
    /\ UNCHANGED <<switchVars, count, stackVars, clientVars, fatal>>

\* ... and returns when it has woken the others.
Return(th) ==
    /\ \/ Goto(th, "woken", "outside")
       \/ count[th] = 0 /\ Goto(th, "push", "outside")
    /\ passed' = [passed EXCEPT ![th] = @ + 1]
    /\ UNCHANGED <<switchVars, state, count, stackVars, entered, fatal>>

WaitBlock(w, th) ==
    /\ Block(w, th, "block", "asleep")
    /\ count' = [count EXCEPT ![th] = 0]
    /\ UNCHANGED <<state, stackVars, clientVars, fatal>>

-----------------------------------------------------------------------------
(* myth_wake_many_from_stack and myth_sleep_stack_pop                      *)

\* The stack is read again and again until it is not empty.
PopRead(th) ==
    /\ Len(batch[th]) < count[th]
    /\ top # NULL
    /\ Goto(th, "pop", "pop_next")
    /\ head' = [head EXCEPT ![th] = top]
    /\ UNCHANGED <<switchVars, state, count, top, next, second, batch,
                   clientVars, fatal>>

PopNext(th) ==
    /\ Goto(th, "pop_next", "pop_cas")
    /\ second' = [second EXCEPT ![th] = next[head[th]]]
    /\ UNCHANGED <<switchVars, state, count, top, next, head, batch,
                   clientVars, fatal>>

PopDone(th) ==
    /\ head' = [head EXCEPT ![th] = NULL]
    /\ second' = [second EXCEPT ![th] = NULL]

\* The thread that was popped is linked to the end of the batch by its next.
Linked(th) ==
    [x \in Threads |->
        IF x = head[th] THEN NULL
        ELSE IF batch[th] # <<>> /\ x = batch[th][Len(batch[th])] THEN head[th]
        ELSE next[x]]

Pop(th) ==
    /\ Goto(th, "pop_cas", "pop")
    /\ top = head[th]
    /\ top' = second[th]
    /\ next' = Linked(th)
    /\ batch' = [batch EXCEPT ![th] = Append(@, head[th])]
    /\ PopDone(th)
    /\ UNCHANGED <<switchVars, state, count, clientVars, fatal>>

PopRetry(th) ==
    /\ Goto(th, "pop_cas", "pop")
    /\ top # head[th]
    /\ PopDone(th)
    /\ UNCHANGED <<switchVars, state, count, top, next, batch, clientVars, fatal>>

\* All of them are popped before any of them can run again.
WakeStart(th) ==
    /\ Len(batch[th]) = count[th]
    /\ Goto(th, "pop", "push")
    /\ UNCHANGED <<switchVars, state, count, stackVars, clientVars, fatal>>

\* The oldest of the batch goes to the run queue.
Wake(th) ==
    /\ batch[th] # <<>>
    /\ At(th, "push")
    /\ pc' = [pc EXCEPT ![Head(batch[th])] = "woken"]
    /\ ready' = ready \cup {Head(batch[th])}
    /\ batch' = [batch EXCEPT ![th] = Tail(@)]
    /\ count' = [count EXCEPT ![th] = @ - 1]
    /\ UNCHANGED <<this, leaving, saved, state, top, next, head, second,
                   clientVars, fatal>>

-----------------------------------------------------------------------------
(* myth_block_on_stack_cb and myth_sleep_stack_push                        *)

PushRead(w) ==
    /\ Goto(w, "callback", "push_cas")
    /\ head' = [head EXCEPT ![w] = top]
    /\ next' = [next EXCEPT ![leaving[w]] = top]
    /\ UNCHANGED <<switchVars, state, count, top, second, batch, clientVars, fatal>>

\* Mutant: a plain store instead of the CAS.
PushNoCAS(w) ==
    /\ Left(w, "push_cas", "run")
    /\ top' = leaving[w]
    /\ head' = [head EXCEPT ![w] = NULL]
    /\ UNCHANGED <<ready, this, saved, state, count, next, second, batch,
                   clientVars, fatal>>

PushPublish(w) ==
    /\ top = head[w]
    /\ Left(w, "push_cas", "run")
    /\ top' = leaving[w]
    /\ head' = [head EXCEPT ![w] = NULL]
    /\ UNCHANGED <<ready, this, saved, state, count, next, second, batch,
                   clientVars, fatal>>

PushRetry(w) ==
    /\ top # head[w]
    /\ Goto(w, "push_cas", "callback")
    /\ head' = [head EXCEPT ![w] = NULL]
    /\ UNCHANGED <<switchVars, state, count, top, next, second, batch,
                   clientVars, fatal>>

Switch(w) ==
    /\ Resume(w) \/ SwapContext(w)
    /\ UNCHANGED <<state, count, stackVars, clientVars, fatal>>

\* The thread is over; its worker goes back to the scheduler.
Finish(w, th) ==
    /\ passed[th] = Rounds
    /\ this[w] = th /\ At(th, "outside")
    /\ Dispatch(w, NULL)
    /\ UNCHANGED <<pc, ready, leaving, state, count, stackVars, clientVars, fatal>>

-----------------------------------------------------------------------------
ThreadStep(th) ==
    /\ UNCHANGED n
    /\  \/ WaitRead(th) \/ WaitExcess(th) \/ WaitCount(th) \/ WaitRetry(th)
        \/ Reset(th) \/ Return(th)
        \/ PopRead(th) \/ PopNext(th) \/ Pop(th) \/ PopRetry(th)
        \/ WakeStart(th) \/ Wake(th)

WorkerStep(w) ==
    /\ UNCHANGED n
    /\  \/ Switch(w) \/ PushRead(w) \/ PushPublish(w) \/ PushRetry(w)
        \/ \E th \in Threads : WaitBlock(w, th) \/ Finish(w, th)

Next ==
    /\ ~fatal
    /\ \/ \E th \in Threads : ThreadStep(th)
       \/ \E w \in Workers : WorkerStep(w)

\* Workers are OS threads and never stop: whatever runs on them goes on.
Fairness ==
    /\ \A th \in Threads : WF_vars(~fatal /\ ThreadStep(th))
    /\ \A w \in Workers : WF_vars(~fatal /\ WorkerStep(w))

Spec == Init /\ [][Next]_vars
FairSpec == Spec /\ Fairness

-----------------------------------------------------------------------------
ThreadPCs == {"outside", "cas", "reset", "pop", "pop_next", "pop_cas", "push",
              "block", "asleep", "woken"}
WorkerPCs == {"run", "swap", "callback", "push_cas"}

TypeOK ==
    /\ SwitchTypeOK
    /\ n \in Sizes
    /\ pc \in [Agents -> ThreadPCs \cup WorkerPCs]
    /\ state \in 0 .. n
    /\ top \in Threads \cup {NULL}
    /\ next \in [Threads -> Threads \cup {NULL}]
    /\ count \in [Threads -> 0 .. (n - 1)]
    /\ head \in [Agents -> Threads \cup {NULL}]
    /\ second \in [Threads -> Threads \cup {NULL}]
    /\ \A th \in Threads : batch[th] \in Seq(Threads)
    /\ entered \in [Threads -> 0 .. Rounds]
    /\ passed \in [Threads -> 0 .. Rounds]
    /\ fatal \in BOOLEAN

\* The barrier is used as it is meant to be.
Fits == n = Cardinality(Threads)

(***************************************************************************)
(* What the test asserts: a thread that is through the barrier for the     *)
(* k-th time finds that every thread has come to it k times.               *)
(***************************************************************************)
InStep == Fits => \A p, q \in Threads : passed[p] <= entered[q]

\* One element for each time that a thread has entered, or has passed.
Times(f) == {t \in Threads \X (1 .. Rounds) : t[2] <= f[t[1]]}

(***************************************************************************)
(* Only whole groups of n pass, however many threads use the barrier and   *)
(* whoever is woken in the place of whom.                                  *)
(***************************************************************************)
WholeGroupsPass ==
    Cardinality(Times(passed)) <= n * (Cardinality(Times(entered)) \div n)

(***************************************************************************)
(* The comment of myth_wake_many_from_stack: threads that enter while the  *)
(* wakeup is in progress wait until all threads have been dequeued.  It is *)
(* so because the whole batch is popped before any of it can run, and only *)
(* if there are no other threads that may enter.                           *)
(***************************************************************************)
EntrantsWait ==
    [][Fits => \A th \in Threads :
         entered'[th] > entered[th] =>
             \A waker \in Threads : pc[waker] \notin {"pop", "pop_next", "pop_cas"}]_vars

(***************************************************************************)
(* The program ends: nobody is left asleep, and no pop waits for ever.     *)
(***************************************************************************)
Finishes == Fits => <>(\A th \in Threads : passed[th] = Rounds)
=============================================================================
