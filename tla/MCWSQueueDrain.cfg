\* The owner and two thieves poll a queue that holds three threads.
CONSTANTS
    Workers = {w0, w1, w2}
    Owner = w0
    Threads = {t1, t2, t3}
    Size = 4
    NULL = NULL
SPECIFICATION DrainSpec
PROPERTIES Drained
