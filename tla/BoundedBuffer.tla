---------------------------- MODULE BoundedBuffer ----------------------------
(***************************************************************************)
(* The once control and the unconditional variable of MassiveThreads, and  *)
(* the program of tests/myth_uncond_bounded_buf.c that runs on them, on    *)
(* top of the switching of threads in Blocking.                            *)
(*                                                                         *)
(* Producers and one consumer share a buffer.  Whoever comes first         *)
(* initialises it under myth_once.  A producer claims a slot with a CAS of *)
(* the tail, which also holds a bit that says that the consumer is about   *)
(* to sleep, and fills it later; the one that finds the bit set owes the   *)
(* consumer a signal of the unconditional variable, which waits for the    *)
(* consumer if it is not there yet.                                        *)
(***************************************************************************)
EXTENDS Blocking

CONSTANTS
    Consumer,   \* one of Threads; the others are the producers
    Items,      \* how many items each producer puts
    Size        \* bb->sz

ASSUME BufferAssumption ==
    Consumer \in Threads /\ Items \in Nat /\ Size \in Nat \ {0}

VARIABLES
    control,    \* once_control->state
    inits,      \* how often init_routine was called
    u,          \* u->th of the unconditional variable
    to_wake,    \* the thread that a signal has read from it
    tail,       \* bb->t: the number of items, and the bit of the consumer
    head,       \* bb->h
    slots,      \* bb->a: each a producer and its payload, or NULL
    seen,       \* the tail that each thread has read
    put, got    \* the items that each producer has put, and that were got of it

onceVars == <<control, inits>>
uncondVars == <<u, to_wake>>
bufferVars == <<tail, head, slots, seen, put, got>>
vars == <<pc, switchVars, onceVars, uncondVars, bufferVars>>

Producers == Threads \ {Consumer}
Clear == [t |-> 0, waiting |-> FALSE]
Start(th) == IF th = Consumer THEN "get" ELSE "put"

Init ==
    /\ SwitchInit
    /\ pc = [a \in Agents |-> IF a \in Threads THEN "once" ELSE "run"]
    /\ control = "init" /\ inits = 0
    /\ u = NULL
    /\ to_wake = [th \in Threads |-> NULL]
    /\ tail = Clear /\ head = 0
    /\ slots = [i \in 0 .. (Size - 1) |-> NULL]
    /\ seen = [th \in Threads |-> Clear]
    /\ put = [p \in Producers |-> 0]
    /\ got = [p \in Producers |-> 0]

-----------------------------------------------------------------------------
(* myth_once                                                               *)

OnceRead(th) ==
    /\ Goto(th, "once", IF control = "init" THEN "try" ELSE "poll")
    /\ UNCHANGED <<switchVars, onceVars, uncondVars, bufferVars>>

OnceTry(th) ==
    /\ Goto(th, "try", IF control = "init" THEN "routine" ELSE "poll")
    /\ control' = IF control = "init" THEN "in_progress" ELSE control
    /\ UNCHANGED <<switchVars, inits, uncondVars, bufferVars>>

\* The winner calls init_routine; here it initialises the buffer.
OnceRoutine(th) ==
    /\ Goto(th, "routine", "complete")
    /\ inits' = inits + 1
    /\ u' = NULL /\ tail' = Clear /\ head' = 0
    /\ slots' = [i \in DOMAIN slots |-> NULL]
    /\ UNCHANGED <<switchVars, control, to_wake, seen, put, got>>

OnceComplete(th) ==
    /\ Goto(th, "complete", Start(th))
    /\ control' = "completed"
    /\ UNCHANGED <<switchVars, inits, uncondVars, bufferVars>>

\* Mutant: a loser goes on when the routine is not finished.
OncePollBegun(th) ==
    /\ Goto(th, "poll", IF control # "init" THEN Start(th) ELSE "poll_yield")
    /\ UNCHANGED <<switchVars, onceVars, uncondVars, bufferVars>>

\* A loser yields until the winner has completed.
OncePoll(th) ==
    /\ Goto(th, "poll", IF control = "completed" THEN Start(th) ELSE "poll_yield")
    /\ UNCHANGED <<switchVars, onceVars, uncondVars, bufferVars>>

-----------------------------------------------------------------------------
(* myth_uncond_wait and myth_uncond_signal                                 *)

\* Mutant: the thread shows itself before it has left.
UncondWaitEarly(w, th) ==
    /\ Block(w, th, "wait", "get")
    /\ u' = th
    /\ UNCHANGED <<onceVars, to_wake, bufferVars>>

UncondWait(w, th) ==
    /\ Block(w, th, "wait", "get")
    /\ UNCHANGED <<onceVars, uncondVars, bufferVars>>

\* The callback stores the thread: who leaves for "get" leaves to wait.
UncondWaitCallback(w) ==
    /\ leaving[w] # NULL /\ pc[leaving[w]] = "get"
    /\ Left(w, "callback", "run")
    /\ u' = leaving[w]
    /\ UNCHANGED <<ready, this, saved, onceVars, to_wake, bufferVars>>

\* Mutant: a signal that finds nobody gives up.
UncondSignalOnce(th) ==
    /\ Goto(th, "signal", IF u = NULL THEN "put" ELSE "clear")
    /\ to_wake' = [to_wake EXCEPT ![th] = u]
    /\ UNCHANGED <<switchVars, onceVars, u, bufferVars>>

\* The signal reads the variable again and again until somebody is there ...
UncondSignal(th) ==
    /\ u # NULL
    /\ Goto(th, "signal", "clear")
    /\ to_wake' = [to_wake EXCEPT ![th] = u]
    /\ UNCHANGED <<switchVars, onceVars, u, bufferVars>>

\* Mutant: the thread is not taken out of the variable.
UncondSignalKeeps(th) ==
    /\ Goto(th, "clear", "wake")
    /\ UNCHANGED <<switchVars, onceVars, uncondVars, bufferVars>>

\* ... clears it ...
UncondSignalClear(th) ==
    /\ Goto(th, "clear", "wake")
    /\ u' = NULL
    /\ UNCHANGED <<switchVars, onceVars, to_wake, bufferVars>>

\* ... and pushes the thread to the run queue.
UncondSignalPush(th) ==
    /\ Goto(th, "wake", "put")
    /\ ready' = ready \cup {to_wake[th]}
    /\ to_wake' = [to_wake EXCEPT ![th] = NULL]
    /\ UNCHANGED <<this, leaving, saved, onceVars, u, bufferVars>>

-----------------------------------------------------------------------------
(* bb_put                                                                  *)

PutRead(th) ==
    /\ put[th] < Items
    /\ Goto(th, "put", "put_head")
    /\ seen' = [seen EXCEPT ![th] = tail]
    /\ UNCHANGED <<switchVars, onceVars, uncondVars, tail, head, slots, put, got>>

\* The head may be newer than the tail.  A full buffer makes the thread yield.
PutHead(th) ==
    /\ Goto(th, "put_head", IF seen[th].t - head < Size THEN "put_cas" ELSE "put_yield")
    /\ UNCHANGED <<switchVars, onceVars, uncondVars, bufferVars>>

PutCAS(th) ==
    /\ Goto(th, "put_cas", IF tail = seen[th] THEN "fill" ELSE "put")
    /\ tail' = IF tail = seen[th] THEN [t |-> tail.t + 1, waiting |-> FALSE] ELSE tail
    /\ UNCHANGED <<switchVars, onceVars, uncondVars, head, slots, seen, put, got>>

Fill(th) ==
    /\ Goto(th, "fill", IF seen[th].waiting THEN "signal" ELSE "put")
    /\ slots' = [slots EXCEPT ![seen[th].t % Size] = [producer |-> th, payload |-> put[th]]]
    /\ put' = [put EXCEPT ![th] = @ + 1]
    /\ UNCHANGED <<switchVars, onceVars, uncondVars, tail, head, seen, got>>

-----------------------------------------------------------------------------
(* bb_get                                                                  *)

ItemsLeft == \E p \in Producers : got[p] < Items

GetRead(th) ==
    /\ ItemsLeft
    /\ Goto(th, "get", IF head < tail.t THEN "get_item" ELSE "get_cas")
    /\ seen' = [seen EXCEPT ![th] = tail]
    /\ UNCHANGED <<switchVars, onceVars, uncondVars, tail, head, slots, put, got>>

\* The slot may not have been filled yet: it is read until it is.
GetItem(th) ==
    LET item == slots[head % Size] IN
    /\ item # NULL
    /\ Goto(th, "get_item", "get_head")
    /\ got' = [got EXCEPT ![item.producer] = @ + 1]
    /\ slots' = [slots EXCEPT ![head % Size] = NULL]
    /\ UNCHANGED <<switchVars, onceVars, uncondVars, tail, head, seen, put>>

GetHead(th) ==
    /\ Goto(th, "get_head", "get")
    /\ head' = head + 1
    /\ UNCHANGED <<switchVars, onceVars, uncondVars, tail, slots, seen, put, got>>

\* An empty buffer: the bit that tells producers to send a signal.
GetCAS(th) ==
    /\ Goto(th, "get_cas", IF tail = seen[th] THEN "wait" ELSE "get")
    /\ tail' = IF tail = seen[th] THEN [tail EXCEPT !.waiting = TRUE] ELSE tail
    /\ UNCHANGED <<switchVars, onceVars, uncondVars, head, slots, seen, put, got>>

-----------------------------------------------------------------------------
\* myth_yield, by a thread that polls; it may find nobody to run instead.
YieldTo(w, th) ==
    /\ \/ Yield(w, th, "poll_yield", "poll")
       \/ Yield(w, th, "put_yield", "put")
    /\ UNCHANGED <<onceVars, uncondVars, bufferVars>>

YieldNone(th) ==
    /\ \/ Goto(th, "poll_yield", "poll")
       \/ Goto(th, "put_yield", "put")
    /\ UNCHANGED <<switchVars, onceVars, uncondVars, bufferVars>>

YieldCallback(w) ==
    /\ leaving[w] # NULL /\ pc[leaving[w]] # "get"
    /\ YieldPut(w)
    /\ UNCHANGED <<onceVars, uncondVars, bufferVars>>

Switch(w) ==
    /\ Resume(w) \/ SwapContext(w)
    /\ UNCHANGED <<onceVars, uncondVars, bufferVars>>

IsOver(th) == IF th = Consumer THEN pc[th] = "get" /\ ~ItemsLeft
                               ELSE pc[th] = "put" /\ put[th] = Items

\* The thread is over; its worker goes back to the scheduler.
Finish(w, th) ==
    /\ IsOver(th)
    /\ this[w] = th /\ pc[w] = "run"
    /\ Dispatch(w, NULL)
    /\ UNCHANGED <<pc, ready, leaving, onceVars, uncondVars, bufferVars>>

ThreadStep(th) ==
    \/ OnceRead(th) \/ OnceTry(th) \/ OnceRoutine(th) \/ OnceComplete(th) \/ OncePoll(th)
    \/ YieldNone(th)
    \/ /\ th \in Producers
       /\ \/ PutRead(th) \/ PutHead(th) \/ PutCAS(th) \/ Fill(th)
          \/ UncondSignal(th) \/ UncondSignalClear(th) \/ UncondSignalPush(th)
    \/ /\ th = Consumer
       /\ GetRead(th) \/ GetItem(th) \/ GetHead(th) \/ GetCAS(th)

WorkerStep(w) ==
    \/ Switch(w) \/ UncondWaitCallback(w) \/ YieldCallback(w)
    \/ \E th \in Threads : UncondWait(w, th) \/ YieldTo(w, th) \/ Finish(w, th)

Next == (\E th \in Threads : ThreadStep(th)) \/ (\E w \in Workers : WorkerStep(w))

\* Some worker takes thread th out of its run queue.
Takes(th) == \E w \in Workers : WorkerStep(w) /\ th \in ready /\ th \notin ready'

\* Workers are OS threads and never stop, and a thread that yields goes behind
\* all the others of its run queue, so that each of them gets its turn.
Fairness ==
    /\ \A th \in Threads : WF_vars(ThreadStep(th)) /\ SF_vars(Takes(th))
    /\ \A w \in Workers : WF_vars(WorkerStep(w))

Spec == Init /\ [][Next]_vars /\ Fairness

-----------------------------------------------------------------------------
ThreadPCs == {"once", "try", "routine", "complete", "poll", "poll_yield", "put",
              "put_head", "put_yield", "put_cas", "fill", "signal", "clear", "wake",
              "get", "get_item", "get_head", "get_cas", "wait"}
Tails == [t : 0 .. (Items * Cardinality(Producers)), waiting : BOOLEAN]

TypeOK ==
    /\ SwitchTypeOK
    /\ pc \in [Agents -> ThreadPCs \cup {"run", "swap", "callback"}]
    /\ control \in {"init", "in_progress", "completed"}
    /\ inits \in Nat
    /\ u \in Threads \cup {NULL}
    /\ to_wake \in [Threads -> Threads \cup {NULL}]
    /\ tail \in Tails /\ head \in 0 .. tail.t
    /\ \A i \in 0 .. (Size - 1) :
        slots[i] = NULL \/ slots[i] \in [producer : Producers, payload : 0 .. (Items - 1)]
    /\ seen \in [Threads -> Tails]
    /\ put \in [Producers -> 0 .. Items] /\ got \in [Producers -> 0 .. Items]

(***************************************************************************)
(* The routine of myth_once is called once, and nobody returns from        *)
(* myth_once before it is complete.                                        *)
(***************************************************************************)
OnceOnly ==
    LET inside == {"once", "try", "routine", "complete", "poll", "poll_yield"} IN
    /\ inits <= 1
    /\ (\E th \in Threads : pc[th] \notin inside) => inits = 1 /\ control = "completed"

\* The threads that a signal has found, and those in the variable.
Sleepers == ({u} \cup {to_wake[th] : th \in Threads}) \ {NULL}

(***************************************************************************)
(* No thread is at two places: on a worker, leaving one, in a run queue,   *)
(* or in the variable and the hands of its signal.  Who is in a run queue  *)
(* has left its worker with its context.                                   *)
(***************************************************************************)
OnePlace ==
    /\ \A th \in Threads :
        LET on == {w \in Workers : this[w] = th}
            off == {w \in Workers : leaving[w] = th}
            parked == {i \in {1, 2} : th \in <<ready, Sleepers>>[i]}
        IN  Cardinality(on) + Cardinality(off) + Cardinality(parked) <= 1
    /\ ready \subseteq saved

(***************************************************************************)
(* The contract of an unconditional variable, as this program keeps it:    *)
(* one producer at most owes a signal, and somebody owes it, or will find  *)
(* the bit set, just while the consumer has decided to sleep.              *)
(***************************************************************************)
Owing == {p \in Producers : pc[p] \in {"signal", "clear", "wake"}
                            \/ (pc[p] = "fill" /\ seen[p].waiting)}
Sleeping ==
    \/ pc[Consumer] = "wait"
    \/ pc[Consumer] = "get" /\ Consumer \in Sleepers \cup {leaving[w] : w \in Workers}
SignalOwed ==
    /\ Cardinality(Owing) <= 1
    /\ tail.waiting => Owing = {}
    /\ Sleeping <=> tail.waiting \/ Owing # {}

(***************************************************************************)
(* The program ends: no signal is lost, and nobody polls for ever.         *)
(***************************************************************************)
Finishes == <>(\A th \in Threads : IsOver(th) /\ \A w \in Workers : this[w] # th)
=============================================================================
