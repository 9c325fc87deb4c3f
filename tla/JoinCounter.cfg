\* Three threads that decrement, wait, do both or neither, in every combination;
\* N, a power of two, is less than, equal to or more than the decrements.
CONSTANTS
    Threads = {t1, t2, t3}
    Workers = {w1, w2, w3}
    N = 2
    NULL = NULL
SPECIFICATION FairSpec
INVARIANTS StateCounts ReturnsWhenComplete
PROPERTIES EverybodyReturns
\* The program ends, or the process does, or the counter is never complete.
CHECK_DEADLOCK FALSE
