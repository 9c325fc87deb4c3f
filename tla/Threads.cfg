\* The main thread and two descriptors on three workers: a descriptor is freed
\* and created anew while a callback of its last thread is under way.
CONSTANTS
    Threads = {main, t1, t2}
    Workers = {w1, w2, w3}
    Main = main
    First = w1
    NULL = NULL
SPECIFICATION Spec
INVARIANTS OnePlace EnvIsWorker HoldsItsLock
PROPERTIES ImplementsThreadLife Reclaimed
\* Threads that join each other wait for ever.
CHECK_DEADLOCK FALSE
