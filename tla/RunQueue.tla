------------------------------ MODULE RunQueue ------------------------------
(***************************************************************************)
(* What a worker's run queue promises to the scheduler: a sequence of      *)
(* runnable threads, oldest first.  The owner works at its newest end      *)
(* (push, pop) and sends a yielding thread to its oldest end (put); every  *)
(* worker takes from the oldest end or passes a thread to it.  Each of     *)
(* these happens at one instant.  An operation that returns NULL or 0      *)
(* changes nothing.                                                        *)
(***************************************************************************)
EXTENDS Integers, Sequences

CONSTANTS Workers, Owner, Threads

VARIABLES
    queue,      \* the runnable threads, oldest first
    out         \* the threads each worker has out of the queue

vars == <<queue, out>>

Init ==
    /\ queue = << >>
    /\ out = [w \in Workers |-> IF w = Owner THEN Threads ELSE {}]

Insert(w, th) == th \in out[w] /\ out' = [out EXCEPT ![w] = @ \ {th}]
Remove(w, th) == out' = [out EXCEPT ![w] = @ \cup {th}]

Push(th) == Insert(Owner, th) /\ queue' = Append(queue, th)

Pop ==
    /\ queue # << >>
    /\ Remove(Owner, queue[Len(queue)])
    /\ queue' = SubSeq(queue, 1, Len(queue) - 1)

Take(w) ==
    /\ queue # << >>
    /\ Remove(w, Head(queue))
    /\ queue' = Tail(queue)

\* myth_queue_put when w is the owner, myth_queue_trypass for any w.
Pass(w, th) == Insert(w, th) /\ queue' = <<th>> \o queue

Next ==
    \/ Pop
    \/ \E th \in Threads : Push(th)
    \/ \E w \in Workers : Take(w) \/ \E th \in Threads : Pass(w, th)

Spec == Init /\ [][Next]_vars
=============================================================================
