----------------------------- MODULE MCWSQueue -----------------------------
(***************************************************************************)
(* Small instances of WSQueue.  Threads circulate between the queue and    *)
(* the workers' hands, so the state space is finite without any bound on   *)
(* the number of operations.                                               *)
(***************************************************************************)
EXTENDS WSQueue, FiniteSets, TLC

\* Threads and the workers that do not own the queue are interchangeable.
Symmetry == Permutations(Threads) \cup Permutations(Workers \ {Owner})

\* Every queue that holds all the threads, wherever its window has drifted.
FullInit ==
    /\ base \in 0 .. (Size - Cardinality(Threads))
    /\ top = base + Cardinality(Threads)
    /\ ptr \in [Slots -> Threads \cup {NULL}]
    /\ \A i \in Slots : ptr[i] # NULL <=> base <= i /\ i < top
    /\ \A i, j \in base .. (top - 1) : ptr[i] = ptr[j] => i = j
    /\ lock = NULL
    /\ pc = [w \in Workers |-> "idle"]
    /\ idx = [w \in Workers |-> 0]
    /\ arg = [w \in Workers |-> NULL]
    /\ hand = [w \in Workers |-> {}]
    /\ fatal = FALSE

\* The scheduler loops: the owner polls its queue, the others steal from it.
PopStep ==
    \/ PopLooksEmpty \/ PopBegin \/ PopDecrement \/ PopReadBase \/ PopFast
    \/ PopLock \/ PopLocked \/ PopReset
Thieves == Workers \ {Owner}
DrainNext == PopStep \/ \E w \in Thieves : TakeStep(w)
DrainSpec ==
    /\ FullInit /\ [][DrainNext]_vars
    /\ WF_vars(PopStep)
    /\ \A w \in Thieves : WF_vars(TakeStep(w))

(***************************************************************************)
(* Polling is enough: the owner and the thieves, all of them only polling, *)
(* get every thread out of the queue.  Neither the spurious "empty" answers*)
(* nor the unfair spin lock can keep a runnable thread in the queue for    *)
(* ever.                                                                   *)
(***************************************************************************)
Drained == <>[](Hi <= Lo)
=============================================================================
