------------------------------- MODULE FELock -------------------------------
(***************************************************************************)
(* The full/empty lock of MassiveThreads (myth_felock): a Mutex with one   *)
(* condition variable for each of the statuses 0 (empty) and 1 (full), and *)
(* the program of tests/myth_felock.c that runs on it.  Its incrementers   *)
(* take a counter out of the lock, leaving it empty, and put it back       *)
(* incremented, leaving it full; its main thread fills it first.           *)
(***************************************************************************)
EXTENDS Mutex

CONSTANTS
    Main,           \* one of Threads; the others are the incrementers
    Iterations      \* how often each incrementer increments

Statuses == {0, 1}

\* What the program takes for granted of its constants.
FELockAssumption ==
    /\ Conds = Statuses
    /\ Main \in Threads
    /\ Iterations \in Nat \ {0}
    /\ NULL \notin Nat

VARIABLES
    status,     \* fe->status
    awaited,    \* the parameter status_to_wait of each thread's call, or NULL
    count,      \* the counter of the program
    mine,       \* the copy of it that an incrementer has taken out, or NULL
    calls       \* the calls of mark_and_signal each thread has made

feVars == <<status, awaited, count, mine, calls>>
allVars == <<vars, feVars>>

FEInit ==
    /\ Init
    /\ status = 0
    /\ awaited = [th \in Threads |-> NULL]
    /\ count = 0
    /\ mine = [th \in Threads |-> NULL]
    /\ calls = [th \in Threads |-> 0]

Incrementers == Threads \ {Main}

\* Main fills the lock; an incrementer alternates, taking before putting.
IsOver(th) == calls[th] = IF th = Main THEN 1 ELSE 2 * Iterations
Takes(th) == th # Main /\ calls[th] % 2 = 0

\* myth_felock_wait_and_lock locks the mutex ...
WaitAndLock(th) ==
    /\ ~IsOver(th)
    /\ LockBegin(th)
    /\ awaited' = [awaited EXCEPT ![th] = IF Takes(th) THEN 1 ELSE 0]
    /\ UNCHANGED <<status, count, mine, calls>>

\* ... waits for the status as often as it has to ...
WaitForStatus(w, th) ==
    /\ awaited[th] \in Statuses /\ status # awaited[th]
    /\ WaitBlock(w, th, awaited[th])
    /\ UNCHANGED feVars

\* Mutant: the status is not tested again after the wait.
StatusReachedOnce(th) ==
    /\ At(th, "held")
    /\ awaited[th] \in Statuses
    /\ awaited' = [awaited EXCEPT ![th] = NULL]
    /\ IF Takes(th)
       THEN mine' = [mine EXCEPT ![th] = count] /\ UNCHANGED count
       ELSE /\ count' = IF th = Main THEN count ELSE mine[th] + 1
            /\ mine' = [mine EXCEPT ![th] = NULL]
    /\ UNCHANGED <<vars, status, calls>>

\* ... and returns; the program then copies or stores the counter.
StatusReached(th) ==
    /\ At(th, "held")
    /\ awaited[th] = status
    /\ awaited' = [awaited EXCEPT ![th] = NULL]
    /\ IF Takes(th)
       THEN mine' = [mine EXCEPT ![th] = count] /\ UNCHANGED count
       ELSE /\ count' = IF th = Main THEN count ELSE mine[th] + 1
            /\ mine' = [mine EXCEPT ![th] = NULL]
    /\ UNCHANGED <<vars, status, calls>>

\* Mutant: signals the condition variable of the other status.
MarkAndSignalOther(th) ==
    LET new == IF Takes(th) THEN 0 ELSE 1 IN
    /\ awaited[th] = NULL /\ status # new
    /\ At(th, "held")
    /\ SignalBegin(th, 1 - new)
    /\ status' = new
    /\ UNCHANGED <<awaited, count, mine, calls>>

\* myth_felock_mark_and_signal: the status changes under the mutex ...
MarkAndSignal(th) ==
    LET new == IF Takes(th) THEN 0 ELSE 1 IN
    /\ awaited[th] = NULL /\ status # new
    /\ At(th, "held")
    /\ SignalBegin(th, new)
    /\ status' = new
    /\ UNCHANGED <<awaited, count, mine, calls>>

\* ... and the mutex is unlocked after the signal.
MarkedUnlock(th) ==
    /\ awaited[th] = NULL /\ status = IF Takes(th) THEN 0 ELSE 1
    /\ UnlockBegin(th)
    /\ calls' = [calls EXCEPT ![th] = @ + 1]
    /\ UNCHANGED <<status, awaited, count, mine>>

\* The thread is over; its worker goes back to the scheduler.
Finish(w, th) ==
    /\ IsOver(th)
    /\ this[w] = th /\ At(th, "idle")
    /\ Dispatch(w, NULL)
    /\ UNCHANGED <<pc, ready, leaving, mutexVars, feVars>>

FEStep(w, th) ==
    \/ WaitAndLock(th) \/ WaitForStatus(w, th) \/ StatusReached(th)
    \/ MarkAndSignal(th) \/ MarkedUnlock(th) \/ Finish(w, th)

RuntimeStep(a) ==
    \/ a \in Workers /\ WorkerStep(a)
    \/ a \in Threads /\ ThreadStep(a)
    \/ UnlockStep(a)

FENext ==
    \/ \E a \in Agents : RuntimeStep(a) /\ UNCHANGED feVars
    \/ \E w \in Workers, th \in Threads : FEStep(w, th)

\* Workers are OS threads and never stop: whatever runs on them goes on.
Fairness ==
    /\ \A a \in Agents : WF_allVars(RuntimeStep(a) /\ UNCHANGED feVars)
    /\ \A w \in Workers, th \in Threads : WF_allVars(FEStep(w, th))

FESpec == FEInit /\ [][FENext]_allVars /\ Fairness

-----------------------------------------------------------------------------
\* The incrementers that have taken the counter out.
Takers == {th \in Threads : mine[th] # NULL}

(***************************************************************************)
(* At most one thread has taken the counter out, and whenever the mutex is *)
(* free the status tells: empty means taken out, or not filled yet.        *)
(***************************************************************************)
EmptyIsTaken ==
    /\ \A th, other \in Takers : th = other
    /\ ~IsLocked(state) => (status = 0 <=> Takers # {} \/ calls[Main] = 0)

(***************************************************************************)
(* The program ends, with the count that its assertion expects: no signal  *)
(* meant for one status is lost or goes to a waiter for the other, and no  *)
(* increment is lost.                                                      *)
(***************************************************************************)
Finishes ==
    <>( /\ \A th \in Threads : IsOver(th)
        /\ count = Iterations * Cardinality(Incrementers)
        /\ \A w \in Workers : this[w] = NULL )
=============================================================================
