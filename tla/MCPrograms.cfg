\* The main thread and two incrementers, or a producer and two consumers with
\* two batches: one of them can be asleep, woken or fighting for the mutex
\* when the next broadcast comes.
CONSTANTS
    Threads = {main, i1, i2}
    Main = main
    Workers = {w1, w2}
    Conds = {0, 1}
    Iterations = 2
    Batches = 2
    NULL = NULL
SPECIFICATION ProgramsSpec
INVARIANTS EmptyIsTaken
PROPERTIES ProgramsFinish
\* The programs end.
CHECK_DEADLOCK FALSE
