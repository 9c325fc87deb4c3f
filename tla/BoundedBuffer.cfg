\* Two producers and a buffer that gets full.
CONSTANTS
    Threads = {p1, p2, c}
    Consumer = c
    Workers = {w1, w2, w3}
    Items = 2
    Size = 2
    NULL = NULL
SPECIFICATION Spec
INVARIANTS OnceOnly OnePlace SignalOwed
PROPERTIES Finishes
\* The program ends.
CHECK_DEADLOCK FALSE
