\* Two threads, two keys that are both free.
CONSTANTS
    Threads = {t1, t2}
    Children = 1
    Entries = 2
    Depth = 0
    Reserved = {}
    Used = {}
    Data = data
    NULL = NULL
SPECIFICATION Spec
INVARIANTS NewKeysAreUnused
\* After the fault the program may stop.
CHECK_DEADLOCK FALSE
