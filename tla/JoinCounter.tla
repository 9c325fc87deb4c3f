---------------------------- MODULE JoinCounter ----------------------------
(***************************************************************************)
(* The join counter of MassiveThreads (myth_join_counter): threads wait    *)
(* until it has been decremented n_threads times.                          *)
(*                                                                         *)
(* One word holds both the number of decrements, in as many bits as the    *)
(* number n_threads needs, and above them the number of waiters, so that   *)
(* one CAS decides whether a waiter comes before or after the last         *)
(* decrement.  The last decrementer dequeues as many threads as have       *)
(* announced themselves, waiting for those that are not in the queue yet,  *)
(* before it puts any of them in its run queue.                            *)
(***************************************************************************)
EXTENDS Blocking, Sequences

CONSTANT N  \* jc->n_threads

ASSUME JoinCounterAssumption == N \in Nat \ {0}

VARIABLES
    state,      \* jc->state
    sleepq,     \* jc->sleep_q
    val,        \* the local variable s of each thread; 0 when it is dead
    towake,     \* how many threads the last decrementer has yet to dequeue
    batch,      \* the threads it has dequeued, in order
    program,    \* the calls each thread makes, a decrement before a wait
    todo,       \* those it has still to make
    fatal       \* the process called exit(1)

counterVars == <<state, sleepq, val, towake, batch, program, todo, fatal>>
vars == <<pc, switchVars, counterVars>>

\* Mutant: a number that is a power of two gets one bit too few.
CalcBitsShort(x) == CHOOSE b \in 0 .. x : x <= 2^b /\ \A c \in 0 .. (b - 1) : x > 2^c

\* The number of bits that represent x: 1 -> 1, 2 -> 2, 3 -> 2, 4 -> 3.
CalcBits(x) == CHOOSE b \in 0 .. x : x < 2^b /\ \A c \in 0 .. (b - 1) : x >= 2^c

Unit == 2^CalcBits(N)
Decs(s) == s % Unit             \* s & jc->state_mask
Announced(s) == s \div Unit     \* s >> jc->n_threads_bits

Init ==
    /\ SwitchInit
    /\ pc = [a \in Agents |-> IF a \in Threads THEN "idle" ELSE "run"]
    /\ state = 0
    /\ sleepq = <<>>
    /\ val = [th \in Threads |-> 0]
    /\ towake = [th \in Threads |-> 0]
    /\ batch = [th \in Threads |-> <<>>]
    /\ program \in [Threads -> SUBSET {"dec", "wait"}]
    /\ todo = program
    /\ fatal = FALSE

\* The call that thread th is in is over.
Returns(th, from, call) ==
    /\ Goto(th, from, "idle")
    /\ todo' = [todo EXCEPT ![th] = @ \ {call}]

-----------------------------------------------------------------------------
(* myth_join_counter_wait                                                  *)

WaitRead(th) ==
    /\ todo[th] = {"wait"}
    /\ Decs(state) # N
    /\ Goto(th, "idle", "wait_cas")
    /\ val' = [val EXCEPT ![th] = state]
    /\ UNCHANGED <<switchVars, state, sleepq, towake, batch, program, todo, fatal>>

WaitReturn(th) ==
    /\ todo[th] = {"wait"}
    /\ Decs(state) = N
    /\ Returns(th, "idle", "wait")
    /\ UNCHANGED <<switchVars, state, sleepq, val, towake, batch, program, fatal>>

WaitAnnounce(th) ==
    /\ Goto(th, "wait_cas", "wait_block")
    /\ state = val[th]
    /\ state' = val[th] + Unit
    /\ val' = [val EXCEPT ![th] = 0]
    /\ UNCHANGED <<switchVars, sleepq, towake, batch, program, todo, fatal>>

WaitRetry(th) ==
    /\ Goto(th, "wait_cas", "idle")
    /\ state # val[th]
    /\ val' = [val EXCEPT ![th] = 0]
    /\ UNCHANGED <<switchVars, state, sleepq, towake, batch, program, todo, fatal>>

WaitBlock(w, th) ==
    /\ Block(w, th, "wait_block", "asleep")
    /\ UNCHANGED counterVars

\* myth_block_on_queue_cb
Enqueue(w) ==
    /\ Left(w, "callback", "run")
    /\ sleepq' = Append(sleepq, leaving[w])
    /\ UNCHANGED <<ready, this, saved, state, val, towake, batch, program, todo, fatal>>

-----------------------------------------------------------------------------
(* myth_join_counter_dec                                                   *)

DecRead(th) ==
    /\ "dec" \in todo[th]
    /\ Decs(state) < N
    /\ Goto(th, "idle", "dec_cas")
    /\ val' = [val EXCEPT ![th] = state]
    /\ UNCHANGED <<switchVars, state, sleepq, towake, batch, program, todo, fatal>>

\* "excess threads enter join_counter_dec": exit(1).
DecExcess(th) ==
    /\ "dec" \in todo[th]
    /\ Decs(state) >= N
    /\ At(th, "idle")
    /\ fatal' = TRUE
    /\ UNCHANGED <<pc, switchVars, state, sleepq, val, towake, batch, program, todo>>

DecNotLast(th) ==
    /\ Decs(val[th]) < N - 1
    /\ Returns(th, "dec_cas", "dec")
    /\ state = val[th]
    /\ state' = val[th] + 1
    /\ val' = [val EXCEPT ![th] = 0]
    /\ UNCHANGED <<switchVars, sleepq, towake, batch, program, fatal>>

\* Mutant: the last but one wakes the waiters.
DecLastEarly(th) ==
    /\ Decs(val[th]) >= N - 2
    /\ Goto(th, "dec_cas", "wake_dequeue")
    /\ state = val[th]
    /\ state' = val[th] + 1
    /\ towake' = [towake EXCEPT ![th] = Announced(val[th])]
    /\ val' = [val EXCEPT ![th] = 0]
    /\ UNCHANGED <<switchVars, sleepq, batch, program, todo, fatal>>

DecLast(th) ==
    /\ Decs(val[th]) = N - 1
    /\ Goto(th, "dec_cas", "wake_dequeue")
    /\ state = val[th]
    /\ state' = val[th] + 1
    /\ towake' = [towake EXCEPT ![th] = Announced(val[th])]
    /\ val' = [val EXCEPT ![th] = 0]
    /\ UNCHANGED <<switchVars, sleepq, batch, program, todo, fatal>>

DecRetry(th) ==
    /\ Goto(th, "dec_cas", "idle")
    /\ state # val[th]
    /\ val' = [val EXCEPT ![th] = 0]
    /\ UNCHANGED <<switchVars, state, sleepq, towake, batch, program, todo, fatal>>

\* Mutant: only the threads that are in the queue already are woken.
WakeDequeueIfAny(th) ==
    /\ towake[th] > 0
    /\ At(th, "wake_dequeue")
    /\ IF sleepq = <<>>
       THEN /\ towake' = [towake EXCEPT ![th] = 0]
            /\ UNCHANGED <<pc, sleepq, batch>>
       ELSE /\ batch' = [batch EXCEPT ![th] = Append(@, Head(sleepq))]
            /\ sleepq' = Tail(sleepq)
            /\ towake' = [towake EXCEPT ![th] = @ - 1]
            /\ pc' = [pc EXCEPT ![Head(sleepq)] = "idle"]
    /\ UNCHANGED <<switchVars, state, val, program, todo, fatal>>

\* myth_wake_many_from_queue: each dequeue is repeated until it finds one.
WakeDequeue(th) ==
    /\ towake[th] > 0
    /\ sleepq # <<>>
    /\ At(th, "wake_dequeue")
    /\ batch' = [batch EXCEPT ![th] = Append(@, Head(sleepq))]
    /\ sleepq' = Tail(sleepq)
    /\ towake' = [towake EXCEPT ![th] = @ - 1]
    /\ pc' = [pc EXCEPT ![Head(sleepq)] = "idle"]
    /\ UNCHANGED <<switchVars, state, val, program, todo, fatal>>

WakePush(th) ==
    /\ towake[th] = 0 /\ batch[th] # <<>>
    /\ At(th, "wake_dequeue")
    /\ ready' = ready \cup {Head(batch[th])}
    /\ batch' = [batch EXCEPT ![th] = Tail(@)]
    /\ UNCHANGED <<pc, this, leaving, saved, state, sleepq, val, towake, program, todo,
                   fatal>>

DecReturn(th) ==
    /\ towake[th] = 0 /\ batch[th] = <<>>
    /\ Returns(th, "wake_dequeue", "dec")
    /\ UNCHANGED <<switchVars, state, sleepq, val, towake, batch, program, fatal>>

-----------------------------------------------------------------------------
Switch(w) == (Resume(w) \/ SwapContext(w)) /\ UNCHANGED counterVars

\* The thread is over; its worker goes back to the scheduler.
Finish(w, th) ==
    /\ todo[th] = {}
    /\ this[w] = th /\ At(th, "idle")
    /\ Dispatch(w, NULL)
    /\ UNCHANGED <<pc, ready, leaving, counterVars>>

ThreadStep(th) ==
    \/ WaitRead(th) \/ WaitReturn(th) \/ WaitAnnounce(th) \/ WaitRetry(th)
    \/ DecRead(th) \/ DecExcess(th) \/ DecNotLast(th) \/ DecLast(th)
    \/ DecRetry(th) \/ WakeDequeue(th) \/ WakePush(th) \/ DecReturn(th)

WorkerStep(w) ==
    \/ Switch(w) \/ Enqueue(w)
    \/ \E th \in Threads : WaitBlock(w, th) \/ Finish(w, th)

Next ==
    /\ ~fatal
    /\ \/ \E th \in Threads : ThreadStep(th)
       \/ \E w \in Workers : WorkerStep(w)

\* Workers are OS threads and never stop: whatever runs on them goes on.
Fairness ==
    /\ \A th \in Threads : WF_vars(~fatal /\ ThreadStep(th))
    /\ \A w \in Workers : WF_vars(~fatal /\ WorkerStep(w))

Spec == Init /\ [][Next]_vars
FairSpec == Spec /\ Fairness

-----------------------------------------------------------------------------
TypeOK ==
    /\ SwitchTypeOK
    /\ pc \in [Agents -> {"idle", "wait_cas", "wait_block", "asleep", "dec_cas",
                          "wake_dequeue", "run", "swap", "callback"}]
    /\ state \in Nat
    /\ sleepq \in Seq(Threads)
    /\ val \in [Threads -> Nat]
    /\ towake \in [Threads -> Nat]
    /\ \A th \in Threads : batch[th] \in Seq(Threads)
    /\ program \in [Threads -> SUBSET {"dec", "wait"}]
    /\ \A th \in Threads : todo[th] \subseteq program[th]
    /\ fatal \in BOOLEAN

\* The threads that have announced themselves and are not dequeued yet.
Announcers == {th \in Threads : pc[th] \in {"wait_block", "asleep"}}
\* The threads that decrement, and those that have counted their decrement.
Decrementers == {th \in Threads : "dec" \in program[th]}
Counted == {th \in Decrementers : "dec" \notin todo[th] \/ pc[th] = "wake_dequeue"}
\* The thread that made the last decrement and is not done with waking.
Wakers == {th \in Threads : pc[th] = "wake_dequeue"}

(***************************************************************************)
(* The two numbers in state are right, neither spills into the other, and  *)
(* every waiter is somebody's duty: before the last decrement it is        *)
(* counted in state, after it the last decrementer is going to wake it.    *)
(***************************************************************************)
StateCounts ==
    /\ Decs(state) = Cardinality(Counted)
    /\ Cardinality(Wakers) <= 1
    /\ Decs(state) < N => Announced(state) = Cardinality(Announcers)
    /\ Decs(state) = N =>
        \/ Announcers = {}
        \/ \E th \in Wakers : towake[th] = Cardinality(Announcers)

(***************************************************************************)
(* No thread returns from wait before the last decrement, and the          *)
(* assertion after the wakeup holds: a thread that was woken, wherever it  *)
(* is by now, will find the counter complete.                              *)
(***************************************************************************)
ReturnsWhenComplete ==
    /\ \A th \in Threads : "wait" \in program[th] \ todo[th] => Cardinality(Counted) >= N
    /\ \A th \in Threads : batch[th] # <<>> => Decs(state) = N

(***************************************************************************)
(* With as many decrements as announced, every thread gets through,        *)
(* whichever of the threads wait, the last decrementer included.           *)
(***************************************************************************)
EverybodyReturns ==
    Cardinality(Decrementers) = N => <>(\A th \in Threads : todo[th] = {})
=============================================================================
