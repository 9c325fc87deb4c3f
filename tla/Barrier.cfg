\* Three threads use a barrier for one, two or three of them.
CONSTANTS
    Threads = {t1, t2, t3}
    Workers = {w1, w2, w3}
    Sizes = {1, 2, 3}
    Rounds = 3
    NULL = NULL
SPECIFICATION FairSpec
INVARIANTS InStep WholeGroupsPass
PROPERTIES EntrantsWait Finishes
\* The program ends, or the process does when the barrier notices an excess.
CHECK_DEADLOCK FALSE
