\* Three workers; of two callers of myth_init the second may come before,
\* during or after the life of the first one's runtime.
CONSTANTS
    N = 3
    Callers = {p1, p2}
SPECIFICATION Spec
INVARIANTS BarriersHold QueuesAreAlive MainIsWhereItThinks
PROPERTIES InitReturns FiniEnds
\* The program ends.
CHECK_DEADLOCK FALSE
