----------------------------- MODULE ThreadLife -----------------------------
(***************************************************************************)
(* What creating, joining and detaching threads promise: a descriptor is a *)
(* thread that runs, finishes, and is claimed by exactly one join or       *)
(* detach, in any order; it is used again only after all of that.          *)
(***************************************************************************)
CONSTANTS Threads, Main

VARIABLES
    life,       \* what each descriptor is: "free", "running" or "finished"
    claimed     \* the threads that somebody joins or has detached

Init ==
    /\ life = [d \in Threads |-> IF d = Main THEN "running" ELSE "free"]
    /\ claimed = {Main}

Become(d, from, to) == life[d] = from /\ life' = [life EXCEPT ![d] = to]

Create(d) == Become(d, "free", "running") /\ claimed' = claimed \ {d}
Finish(d) == Become(d, "running", "finished") /\ UNCHANGED claimed

Claim(d) ==
    /\ life[d] # "free" /\ d \notin claimed
    /\ claimed' = claimed \cup {d}
    /\ UNCHANGED life

\* Detaching a thread that has finished frees it at once.
ClaimAndReap(d) ==
    /\ d \notin claimed /\ Become(d, "finished", "free")
    /\ claimed' = claimed \cup {d}

\* A joiner reaps the thread it has claimed.
Reap(d) == d \in claimed /\ Become(d, "finished", "free") /\ UNCHANGED claimed

\* A thread that was detached in time frees itself.
FinishDetached(d) == d \in claimed /\ Become(d, "running", "free") /\ UNCHANGED claimed

Next == \E d \in Threads :
    \/ Create(d) \/ Finish(d) \/ Claim(d)
    \/ ClaimAndReap(d) \/ Reap(d) \/ FinishDetached(d)

Spec == Init /\ [][Next]_<<life, claimed>>
=============================================================================
