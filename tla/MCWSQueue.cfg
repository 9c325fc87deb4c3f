\* Two thieves compete with each other and with the owner.  The fast path of
\* pop needs three threads in the queue; the fourth overflows the array, which
\* is where the model stops.
CONSTANTS
    Workers = {w0, w1, w2}
    Owner = w0
    Threads = {t1, t2, t3, t4}
    Size = 3
    NULL = NULL
SPECIFICATION Spec
SYMMETRY Symmetry
INVARIANTS NoThreadTwice NoThreadLost AccessInBounds AbortsOnlyWhenFull
PROPERTIES ImplementsRunQueue
CHECK_DEADLOCK FALSE
