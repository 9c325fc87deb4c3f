------------------------------ MODULE Monitor ------------------------------
(***************************************************************************)
(* What a mutex and its condition variables promise together.              *)
(***************************************************************************)
EXTENDS Sequences

CONSTANTS Threads, Conds, NULL

VARIABLES
    owner,      \* the thread in the monitor, or NULL
    waiting     \* the threads that wait on each condition, oldest first

Init == owner = NULL /\ waiting = [c \in Conds |-> <<>>]

Lock(th) ==
    /\ owner = NULL
    /\ \A c \in Conds : \A i \in DOMAIN waiting[c] : waiting[c][i] # th
    /\ owner' = th
    /\ UNCHANGED waiting

Unlock(th) ==
    /\ owner = th
    /\ owner' = NULL
    /\ UNCHANGED waiting

\* Leaving the monitor and starting to wait are one step.
Wait(th, c) ==
    /\ owner = th
    /\ owner' = NULL
    /\ waiting' = [waiting EXCEPT ![c] = Append(@, th)]

\* The thread that has waited longest waits no more; it has to lock again.
Wake(c) ==
    /\ waiting[c] # <<>>
    /\ waiting' = [waiting EXCEPT ![c] = Tail(@)]
    /\ UNCHANGED owner

Next ==
    \/ \E th \in Threads : Lock(th) \/ Unlock(th)
    \/ \E th \in Threads, c \in Conds : Wait(th, c)
    \/ \E c \in Conds : Wake(c)

Spec == Init /\ [][Next]_<<owner, waiting>>
=============================================================================
