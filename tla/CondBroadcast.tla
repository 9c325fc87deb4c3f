--------------------------- MODULE CondBroadcast ---------------------------
(***************************************************************************)
(* A producer and its consumers on one mutex and one condition variable:   *)
(* the program of tests/myth_cond_broadcast_0.c, running on Mutex.  The    *)
(* producer waits until everything is consumed, produces one item for each *)
(* consumer and broadcasts; the consumer of the last item signals.         *)
(***************************************************************************)
EXTENDS Mutex

CONSTANTS
    Producer,   \* one of Threads; the others are the consumers
    Batches     \* how many times the producer produces

\* What the program takes for granted of its constants.
ProgramAssumption == Producer \in Threads /\ Batches \in Nat

VARIABLES
    x,          \* the number of items consumed
    y,          \* the number of items produced
    served,     \* the threads that have done their part of this iteration
    done        \* the iterations each thread has finished

programVars == <<x, y, served, done>>

Consumers == Threads \ {Producer}
Cond == CHOOSE c \in Conds : TRUE

ProgramInit ==
    /\ Init
    /\ x = 0 /\ y = 0
    /\ served = {}
    /\ done = [th \in Threads |-> 0]

Enter(th) ==
    /\ done[th] < Batches
    /\ LockBegin(th)
    /\ UNCHANGED programVars

\* The condition of the while loop around myth_cond_wait.
MustWait(th) == IF th = Producer THEN x # y ELSE x = y

Await(w, th) ==
    /\ th \notin served /\ MustWait(th)
    /\ WaitBlock(w, th, Cond)
    /\ UNCHANGED programVars

Proceeds(th) ==
    /\ At(th, "held")
    /\ th \notin served /\ ~MustWait(th)
    /\ served' = served \cup {th}
    /\ UNCHANGED done

Produce ==
    /\ Proceeds(Producer)
    /\ y' = y + Cardinality(Consumers)
    /\ BroadcastBegin(Producer, Cond)
    /\ UNCHANGED x

\* Mutant: the consumer of the last item does not tell the producer.
ConsumeSilently(th) ==
    /\ Proceeds(th)
    /\ x' = x + 1
    /\ UNCHANGED <<y, vars>>

Consume(th) ==
    /\ Proceeds(th)
    /\ x' = x + 1
    /\ IF x + 1 = y THEN SignalBegin(th, Cond) ELSE UNCHANGED vars
    /\ UNCHANGED y

Exit(th) ==
    /\ th \in served
    /\ UnlockBegin(th)
    /\ served' = served \ {th}
    /\ done' = [done EXCEPT ![th] = @ + 1]
    /\ UNCHANGED <<x, y>>

\* The thread is over; its worker goes back to the scheduler.
Finish(w, th) ==
    /\ done[th] = Batches
    /\ this[w] = th /\ At(th, "idle")
    /\ Dispatch(w, NULL)
    /\ UNCHANGED <<pc, ready, leaving, mutexVars, programVars>>

ProgramStep(w, th) ==
    \/ Enter(th) \/ Await(w, th) \/ Exit(th) \/ Finish(w, th)
    \/ th = Producer /\ Produce
    \/ th \in Consumers /\ Consume(th)

RuntimeStep(a) ==
    \/ a \in Workers /\ WorkerStep(a)
    \/ a \in Threads /\ ThreadStep(a)
    \/ UnlockStep(a)

ProgramNext ==
    \/ \E a \in Agents : RuntimeStep(a) /\ UNCHANGED programVars
    \/ \E w \in Workers, th \in Threads : ProgramStep(w, th)

allVars == <<vars, programVars>>

\* Workers are OS threads and never stop: whatever runs on them goes on.
Fairness ==
    /\ \A a \in Agents : WF_allVars(RuntimeStep(a) /\ UNCHANGED programVars)
    /\ \A w \in Workers, th \in Threads : WF_allVars(ProgramStep(w, th))

ProgramSpec == ProgramInit /\ [][ProgramNext]_allVars /\ Fairness

-----------------------------------------------------------------------------
(***************************************************************************)
(* The program ends with every item consumed, as the test expects: no      *)
(* wakeup of the mutex and no signal or broadcast is lost, whatever the    *)
(* interleaving, and nobody spins for ever on an empty queue.              *)
(***************************************************************************)
Finishes ==
    <>( /\ \A th \in Threads : done[th] = Batches
        /\ x = Batches * Cardinality(Consumers) /\ y = x
        /\ \A w \in Workers : this[w] = NULL )
=============================================================================
