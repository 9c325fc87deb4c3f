\* Four threads on three workers: one blocks, one unlocks, one interferes, and
\* one more waits for its turn.  With two condition variables, a signal of one
\* can find waiters of the other.
CONSTANTS
    Threads = {t1, t2, t3, t4}
    Workers = {w1, w2, w3}
    Conds = {c1, c2}
    NULL = NULL
SPECIFICATION Spec
SYMMETRY Symmetry
INVARIANTS MutualExclusion StateCounts NoSleeperForgotten WaitersAreQueued ContextSaved InOnePlace
PROPERTIES ImplementsMonitor
\* When all the threads wait for a signal, nobody is left to send one.
CHECK_DEADLOCK FALSE
